----------------------------- MODULE MCGettext -----------------------------
(***************************************************************************)
(* Two domains, one with catalogs in the default directory and below the   *)
(* current one, in two codesets; a message that the first catalog of a     *)
(* locale does not have, with plural forms that the variants of one domain *)
(* are too few for; a list of languages that starts with a name of a file, *)
(* and the locale that is never translated; an environment that asks for   *)
(* another codeset; a current directory that cannot be found out.          *)
(***************************************************************************)
EXTENDS Gettext

CONSTANTS messages, app, nodomain, default, rel, nodir, home, utf8, latin1, nocs,
          one, two, de, fr, path, fde, ffr, fapp, fhome, nofile

MCPlace == [d \in {messages, app} |-> IF d = app THEN 1 ELSE 2]
MCEnvs ==
    {[LC_MESSAGES |-> <<de>>, LANG |-> <<"C">>, LANGUAGE |-> <<path, fr, de>>],
     [LC_ALL |-> <<"C">>, LC_MESSAGES |-> <<de>>, LANG |-> <<de>>, LANGUAGE |-> <<fr>>],
     [LC_MESSAGES |-> <<de>>, OUTPUT_CHARSET |-> latin1]}

\* Where the catalogs are: by place, locale and domain.
MCChain == [x \in Places \X {de, fr, path} \X {messages, app} \X {"LC_MESSAGES"} |->
    CASE x[3] = messages /\ x[1] = default /\ x[2] = de -> <<fde>>
      [] x[3] = messages /\ x[1] = default /\ x[2] = fr -> <<ffr, fde>>
      [] x[3] = app /\ x[1] = default /\ x[2] = de -> <<fapp>>
      [] x[3] = app /\ x[1] = <<home, rel>> /\ x[2] = de -> <<fhome>>
      [] OTHER -> <<>>]

MCFiles   == {fde, ffr, fapp, fhome}
MCCharset == [f \in MCFiles |-> IF f = fde THEN latin1 ELSE IF f = ffr THEN nocs ELSE utf8]
MCCanOpen == {<<latin1, utf8>>, <<utf8, latin1>>, <<utf8, utf8>>}
MCCannot  == {<<fhome, two, latin1>>}
MCVariants == [f \in MCFiles |-> [m \in {one, two} |->
    IF f = fde THEN 2 ELSE IF m = two THEN 1 ELSE IF f = ffr THEN 0 ELSE 1]]
MCPluralIndex == [f \in MCFiles |-> [n \in {1, 2} |-> n - 1]]

MCCalls ==
    {[domain |-> c[1], msgid |-> c[2], category |-> "LC_MESSAGES", plural |-> c[3] > 0, n |-> c[3]] :
        c \in {<<nodomain, one, 2>>, <<app, two, 0>>}}
=============================================================================
