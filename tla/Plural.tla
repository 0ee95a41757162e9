------------------------------- MODULE Plural -------------------------------
(***************************************************************************)
(* The plural forms of a catalog: the header's two fields taken out        *)
(* (src/intl/plural-exp.c), the expression parsed by what bison makes of   *)
(* its grammar (src/intl/plural.y, plural.c) and evaluated                 *)
(* (src/intl/eval-plural.h).                                               *)
(*                                                                         *)
(* A text is a sequence of lexemes.  An expression is the sequence of its  *)
(* nodes, each after its arguments; pointers to them say how far back they *)
(* are.  The heap is the number of nodes allocated.                        *)
(***************************************************************************)
EXTENDS Integers, Sequences, SequencesExt, FiniteSets, TLC

CONSTANTS
    ULONG,                      \* how many values an unsigned long has
    Numerals,                   \* the digits of each numeral
    YYINITDEPTH, YYMAXDEPTH,    \* of the parser's stack
    MaxFailures                 \* bound: allocations that fail

ASSUME PluralAssumption ==
    /\ ULONG \in Nat /\ ULONG > 2
    /\ YYINITDEPTH \in Nat /\ YYMAXDEPTH \in Nat /\ 1 < YYINITDEPTH /\ YYINITDEPTH <= YYMAXDEPTH
    /\ \A l \in DOMAIN Numerals : Numerals[l] \in Seq(0..9)
    /\ MaxFailures \in Nat

VARIABLES
    header,             \* the entry "" of the catalog, if there is one
    text,               \* what is left to read
    stack, yystacksize, \* the symbols read, with their values
    nodes,              \* allocated and not freed
    plural, nplurals,   \* of the catalog
    parser, failures

plural_vars == <<header, text, stack, yystacksize, nodes, plural, nplurals, parser, failures>>

NULL == << >>
NoHeader == << >>

\* struct expression.
Num(value) == [operation |-> "num", num |-> value, args |-> << >>]
Expression(operation, args) ==
    Append(FlattenSeq(args),
           [operation |-> operation, num |-> 0,
            args |-> [j \in DOMAIN args |-> 1 + Len(FlattenSeq(SubSeq(args, j + 1, Len(args))))]])

\* n != 1.
GERMANIC_PLURAL == Expression("not_equal", <<Expression("var", << >>), <<Num(1)>>>>)

PluralInit ==
    /\ header = NoHeader /\ text = << >>
    /\ stack = << >> /\ yystacksize = YYINITDEPTH
    /\ nodes = 0 /\ failures = 0
    /\ plural = NULL /\ nplurals = 0
    /\ parser = "off"

Fail == failures < MaxFailures /\ failures' = failures + 1

-----------------------------------------------------------------------------
(* Lexemes and tokens.                                                     *)

OpOf ==
    "==" :> "equal" @@ "!=" :> "not_equal" @@ "<" :> "less_than" @@ "<=" :> "less_or_equal"
    @@ ">" :> "greater_than" @@ ">=" :> "greater_or_equal" @@ "*" :> "mult" @@ "/" :> "divide"
    @@ "%" :> "module" @@ "+" :> "plus" @@ "-" :> "minus" @@ "&&" :> "land" @@ "||" :> "lor"

\* The digits of a numeral, in the width of the type, and whether that was
\* too narrow.
Digit(n, d) == [value |-> (n.value * 10 + d) % ULONG, over |-> n.over \/ n.value * 10 + d >= ULONG]
Digits(l)   == FoldLeft(Digit, [value |-> 0, over |-> FALSE], Numerals[l])

\* A numeral of an expression wraps around, the header's number is the
\* greatest that there is.
NumeralValue(l) == Digits(l).value
strtoul(l)      == IF Digits(l).over THEN ULONG - 1 ELSE Digits(l).value

\* A text ends at ";", at the end of its line or of the header.  Anything that
\* is not a lexeme, a single "=", "&" or "|" for one, is an error.
yylex(l) ==
    CASE l \in {"==", "!="}                        -> [token |-> "EQUOP2", val |-> OpOf[l]]
      [] l \in {"<", "<=", ">", ">="}              -> [token |-> "CMPOP2", val |-> OpOf[l]]
      [] l \in {"+", "-"}                          -> [token |-> "ADDOP2", val |-> OpOf[l]]
      [] l \in {"*", "/", "%"}                     -> [token |-> "MULOP2", val |-> OpOf[l]]
      [] l = "&&"                                  -> [token |-> "&", val |-> OpOf[l]]
      [] l = "||"                                  -> [token |-> "|", val |-> OpOf[l]]
      [] l \in {"!", "n", "?", ":", "(", ")"}      -> [token |-> l, val |-> NULL]
      [] l \in DOMAIN Numerals                     -> [token |-> "NUMBER", val |-> NumeralValue(l)]
      [] l = ";"                                   -> [token |-> "YYEOF", val |-> NULL]
      [] OTHER                                     -> [token |-> "YYERRCODE", val |-> NULL]

Lookahead == IF text = << >> THEN [token |-> "YYEOF", val |-> NULL] ELSE yylex(Head(text))

\* Of the operators with two arguments, from the weakest; all are left
\* associative.
Levels == <<"|", "&", "EQUOP2", "CMPOP2", "ADDOP2", "MULOP2">>
Binary == ToSet(Levels)

\* mutant: "+" and "*" bind alike.
Level_Flat(t) == IF t = "MULOP2" THEN 5 ELSE CHOOSE i \in DOMAIN Levels : Levels[i] = t
Level(t) == CHOOSE i \in DOMAIN Levels : Levels[i] = t

-----------------------------------------------------------------------------
(* Nodes.                                                                  *)

\* FREE_EXPRESSION of each argument that is there.
Freed(args) == Len(FlattenSeq(args))

\* mutant: the stack is grown when a symbol has been put past its end.
Push_Late(k, symbol) ==
    /\ stack' = Append(SubSeq(stack, 1, Len(stack) - k), symbol)
    /\ yystacksize' = IF Len(stack') <= yystacksize - 1 THEN yystacksize
                      ELSE IF 2 * yystacksize > YYMAXDEPTH THEN YYMAXDEPTH ELSE 2 * yystacksize
    /\ parser' = IF Len(stack') <= yystacksize' THEN "parsing" ELSE "rejected"
\* The symbol is put in the place of the last k, and the stack grown when it
\* is full, up to its limit.
Push(k, symbol) ==
    /\ stack' = Append(SubSeq(stack, 1, Len(stack) - k), symbol)
    /\ yystacksize' = IF Len(stack') < yystacksize - 1 THEN yystacksize
                      ELSE IF 2 * yystacksize > YYMAXDEPTH THEN YYMAXDEPTH ELSE 2 * yystacksize
    /\ parser' = IF Len(stack') < yystacksize' - 1 THEN "parsing" ELSE "rejected"

Exp(e) == [token |-> "exp", val |-> e]

\* mutant: the arguments of a node that could not be allocated are kept.
new_exp_Keeps(k, op, args) ==
    \/ /\ NULL \notin ToSet(args)
       /\ Push(k, Exp(Expression(op, args))) /\ nodes' = nodes + 1
       /\ UNCHANGED failures
    \/ /\ Push(k, Exp(NULL)) /\ UNCHANGED nodes
       /\ IF NULL \in ToSet(args) THEN UNCHANGED failures ELSE Fail

\* One argument that is not there, or no memory, frees the others.
new_exp(k, op, args) ==
    \/ /\ NULL \notin ToSet(args)
       /\ Push(k, Exp(Expression(op, args))) /\ nodes' = nodes + 1
       /\ UNCHANGED failures
    \/ /\ Push(k, Exp(NULL)) /\ nodes' = nodes - Freed(args)
       /\ IF NULL \in ToSet(args) THEN UNCHANGED failures ELSE Fail

-----------------------------------------------------------------------------
(* The parser.                                                             *)

\* The k-th symbol from the top of the stack.
Token(k) == IF k <= Len(stack) THEN stack[Len(stack) + 1 - k].token ELSE "none"
Value(k) == stack[Len(stack) + 1 - k].val

AfterExp == Token(1) = "exp"
Binds(t) == t \in Binary \/ t = "?"

NotDone     == AfterExp /\ Token(2) = "!"
BinaryDone  == /\ AfterExp /\ Token(2) \in Binary /\ Token(3) = "exp"
               /\ Lookahead.token \in Binary => Level(Lookahead.token) <= Level(Token(2))
TernaryDone == AfterExp /\ Token(2) = ":" /\ ~Binds(Lookahead.token)
AllDone     == AfterExp /\ Len(stack) = 1 /\ ~Binds(Lookahead.token)
Done        == Token(1) \in {"n", "NUMBER", ")"} \/ NotDone \/ BinaryDone \/ TernaryDone \/ AllDone

ReduceVar == Token(1) = "n" /\ new_exp(1, "var", << >>)

\* The number is put into a node that has it for its value.
ReduceNum ==
    /\ Token(1) = "NUMBER"
    /\ \/ Push(1, Exp(<<Num(Value(1))>>)) /\ nodes' = nodes + 1 /\ UNCHANGED failures
       \/ Push(1, Exp(NULL)) /\ UNCHANGED nodes /\ Fail

ReduceParentheses ==
    Token(1) = ")" /\ Push(3, Exp(Value(2))) /\ UNCHANGED <<nodes, failures>>

ReduceNot     == NotDone /\ new_exp(2, "lnot", <<Value(1)>>)
ReduceBinary  == BinaryDone /\ new_exp(3, Value(2), <<Value(3), Value(1)>>)
ReduceTernary == TernaryDone /\ new_exp(5, "qmop", <<Value(5), Value(3), Value(1)>>)

Reduce ==
    /\ parser = "parsing"
    /\ \/ ReduceVar \/ ReduceNum \/ ReduceParentheses
       \/ ReduceNot \/ ReduceBinary \/ ReduceTernary
    /\ UNCHANGED <<header, text, plural, nplurals>>

\* The whole text is an expression, if nothing but its end follows.
ReduceStart ==
    /\ parser = "parsing" /\ AllDone
    /\ IF Value(1) # NULL /\ Lookahead.token = "YYEOF"
       THEN parser' = "accepted" /\ plural' = Value(1)
       ELSE parser' = "rejected" /\ UNCHANGED plural
    /\ UNCHANGED <<header, text, stack, yystacksize, nodes, nplurals, failures>>

CanShift ==
    LET t == Lookahead.token
    IN  IF AfterExp
        THEN \/ Binds(t)
             \/ t = ":" /\ Token(2) = "?"
             \/ t = ")" /\ Token(2) = "("
        ELSE t \in {"n", "NUMBER", "(", "!"}

Shift ==
    /\ parser = "parsing" /\ ~Done /\ CanShift
    /\ Push(0, Lookahead)
    /\ text' = Tail(text)
    /\ UNCHANGED <<header, nodes, plural, nplurals, failures>>

\* No rule of the grammar takes an error: the stack is emptied, and what is
\* on it is not freed.
yyerrlab ==
    /\ parser = "parsing" /\ ~Done /\ ~CanShift
    /\ parser' = "rejected"
    /\ stack' = << >>
    /\ UNCHANGED <<header, text, yystacksize, nodes, plural, nplurals, failures>>

-----------------------------------------------------------------------------
(* The header's fields.                                                    *)

\* Without both fields, or a number, English plurals are meant.
EXTRACT_PLURAL_EXPRESSION(h) ==
    /\ parser = "off"
    /\ header' = h
    /\ IF h = NoHeader \/ "plural" \notin DOMAIN h \/ "nplurals" \notin DOMAIN h
       THEN parser' = "rejected" /\ UNCHANGED <<text, nplurals>>
       ELSE IF h.nplurals \notin DOMAIN Numerals
       THEN parser' = "rejected" /\ UNCHANGED <<text, nplurals>>
       ELSE parser' = "parsing" /\ text' = h.plural /\ nplurals' = strtoul(h.nplurals)
    /\ UNCHANGED <<stack, yystacksize, nodes, plural, failures>>

\* The parser returns.
Extracted ==
    /\ parser \in {"accepted", "rejected"}
    /\ parser' = "done"
    /\ IF parser = "accepted" THEN UNCHANGED <<plural, nplurals>>
       ELSE plural' = GERMANIC_PLURAL /\ nplurals' = 2
    /\ stack' = << >> /\ text' = << >>
    /\ UNCHANGED <<header, yystacksize, nodes, failures>>

Parse == Reduce \/ ReduceStart \/ Shift \/ yyerrlab \/ Extracted

-----------------------------------------------------------------------------
(* Evaluation.                                                             *)

\* A division by zero ends the program.
SIGFPE == -1
Bool(b) == IF b THEN 1 ELSE 0

Apply(op, a, b) ==
    CASE op = "mult"             -> (a * b) % ULONG
      [] op = "divide"           -> IF b = 0 THEN SIGFPE ELSE a \div b
      [] op = "module"           -> IF b = 0 THEN SIGFPE ELSE a % b
      [] op = "plus"             -> (a + b) % ULONG
      [] op = "minus"            -> (a - b) % ULONG
      [] op = "less_than"        -> Bool(a < b)
      [] op = "greater_than"     -> Bool(a > b)
      [] op = "less_or_equal"    -> Bool(a <= b)
      [] op = "greater_or_equal" -> Bool(a >= b)
      [] op = "equal"            -> Bool(a = b)
      [] op = "not_equal"        -> Bool(a # b)

\* The root is the last node.  The second argument of "&&" and "||" is
\* evaluated only if it counts.
plural_eval(e, n) ==
    LET eval[k \in DOMAIN e] ==
            LET op     == e[k].operation
                arg(j) == eval[k - e[k].args[j]]
                left   == arg(1)
                right  == arg(2)
            IN  CASE op = "var" -> n
                  [] op = "num" -> e[k].num
                  [] OTHER ->
                     IF left = SIGFPE THEN SIGFPE
                     ELSE CASE op = "lnot" -> Bool(left = 0)
                            [] op = "qmop" -> arg(IF left # 0 THEN 2 ELSE 3)
                            [] op = "lor" /\ left # 0  -> 1
                            [] op = "land" /\ left = 0 -> 0
                            [] OTHER -> IF right = SIGFPE THEN SIGFPE
                                        ELSE IF op \in {"lor", "land"} THEN Bool(right # 0)
                                        ELSE Apply(op, left, right)
    IN  eval[Len(e)]

-----------------------------------------------------------------------------
(* Properties.                                                             *)

\* No symbol is ever put past the end of the stack.
PluralTypeOK ==
    /\ nodes \in Nat /\ nplurals \in 0..(ULONG - 1) /\ failures \in 0..MaxFailures
    /\ yystacksize \in YYINITDEPTH..YYMAXDEPTH /\ Len(stack) <= yystacksize - 1
    /\ parser \in {"off", "parsing", "accepted", "rejected", "done"}

\* A text that was written for an expression, with no parentheses but the
\* ones that C asks for, is read as that expression, unless memory ran out or
\* the stack came to its limit (plural.y:131-138, 154-203).
MeansWhatItSays ==
    parser = "done" /\ header # NoHeader =>
        ("means" \in DOMAIN header /\ failures = 0 /\ yystacksize < YYMAXDEPTH =>
            plural = header.means /\ nplurals = strtoul(header.nplurals))

\* Wherever memory runs out, the expression is read as a whole or not at all,
\* and then nothing of it stays allocated (plural.y:72-99).  Only the nodes of
\* a text with an error in it, or of one too deep, are lost.  For "n != 1" the
\* tree that was read and the one taken instead of it look the same.
NoNodeIsLost ==
    parser = "done" /\ header # NoHeader =>
        ("means" \in DOMAIN header /\ header.means # GERMANIC_PLURAL /\ yystacksize < YYMAXDEPTH =>
            \/ plural = header.means /\ nodes = Len(plural)
            \/ plural = GERMANIC_PLURAL /\ nodes = 0)
=============================================================================
