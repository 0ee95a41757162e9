----------------------------- MODULE IlvOptions -----------------------------
(***************************************************************************)
(* The command line of rawilv (src/src/rawilv.c): p_opt, which argp_parse  *)
(* calls for every option in order, then once for the file arguments and   *)
(* once at the end, the list of block sizes it builds, and what main makes *)
(* of the result.  Memory may run out whenever an array has to grow.       *)
(*                                                                         *)
(* An option is [key, arg].  The argument of "s" is the sequence of the    *)
(* items between the commas, 0 for an item that is no positive number.     *)
(***************************************************************************)
EXTENDS Naturals, Sequences, SequencesExt

CONSTANTS
    CommandLines    \* [options, files] records

ASSUME CommandLinesAssumption ==
    \A c \in CommandLines :
        /\ Len(c.options) \in Nat /\ DOMAIN c.options = 1..Len(c.options)
        /\ \A k \in DOMAIN c.options :
               /\ c.options[k].key \in {"s", "i", "o"}
               /\ c.options[k].key = "s" => c.options[k].arg \in Seq(Nat)
        /\ Len(c.files) \in Nat

VARIABLES
    options,        \* the options of the command line
    files,          \* its other arguments
    next,           \* index of the next option
    items,          \* what comma_sep_sizes has not yet looked at
    count,          \* how many items it has stored
    block_sizes,    \* args->block_sizes, up to block_sizes_size
    alloc,          \* args->block_sizes_alloc
    noa_files,      \* args->noa_files
    input_file,     \* --input was given
    output_file,    \* --output was given
    errno,
    parse_at

commandLine == <<options, files>>
option_vars == <<commandLine, next, items, count, block_sizes, alloc, noa_files,
          input_file, output_file, errno, parse_at>>

OptionsExits == {"usage", "open_error", "assertion", "null_sizes", "interleave", "deinterleave"}

\* The locale is set before the command line is parsed and may leave an
\* errno behind.
OptionsInit ==
    /\ \E c \in CommandLines : options = c.options /\ files = c.files
    /\ next = 1 /\ items = << >> /\ count = 0
    /\ block_sizes = << >> /\ alloc = 0 /\ noa_files = << >>
    /\ input_file = FALSE /\ output_file = FALSE
    /\ errno \in {"0", "ENOENT"}
    /\ parse_at = "options"

-----------------------------------------------------------------------------
(* ensure_enough_space: growing an array.                                  *)

MaxOf(m, n) == IF m > n THEN m ELSE n

NewAlloc(old, wanted) ==
    IF wanted <= old THEN old ELSE MaxOf(MaxOf(3, 2 * old + 1), wanted)

-----------------------------------------------------------------------------
(* The options.  p_opt has a non-zero result only after argp_failure has   *)
(* printed a message and returned; argp_parse then stops and main, which   *)
(* looks at no result, goes on.  argp_error ends the program.              *)

option == options[next]
GiveUp == parse_at' = "main"

SizesBegin ==
    /\ parse_at = "options" /\ next <= Len(options) /\ option.key = "s"
    /\ items' = option.arg /\ count' = 0
    /\ parse_at' = "sizes"
    /\ UNCHANGED <<commandLine, next, block_sizes, alloc, noa_files, input_file,
                   output_file, errno>>

SizesStore ==
    /\ parse_at = "sizes" /\ items # << >> /\ Head(items) > 0
    /\ items' = Tail(items) /\ count' = count + 1
    /\ block_sizes' = Append(block_sizes, Head(items))
    /\ alloc' = NewAlloc(alloc, Len(block_sizes) + 1)
    /\ UNCHANGED <<commandLine, next, noa_files, input_file, output_file, errno, parse_at>>

SizesNoMemory ==
    /\ parse_at = "sizes" /\ items # << >> /\ Head(items) > 0
    /\ Len(block_sizes) + 1 > alloc
    /\ errno' = "ENOMEM"
    /\ GiveUp
    /\ UNCHANGED <<commandLine, next, items, count, block_sizes, alloc, noa_files,
                   input_file, output_file>>

SizesInvalid ==
    /\ parse_at = "sizes" /\ items # << >> /\ Head(items) = 0
    /\ errno' = "EINVAL"
    /\ parse_at' = "usage"
    /\ UNCHANGED <<commandLine, next, items, count, block_sizes, alloc, noa_files,
                   input_file, output_file>>

SizesEnd_OffByOne ==   \* mutant: one stored size is taken for a failure
    /\ parse_at = "sizes" /\ items = << >>
    /\ next' = next + 1
    /\ parse_at' = CASE count > 1 \/ errno = "0" -> "options"
               [] count <= 1 /\ errno = "EINVAL" -> "usage"
               [] OTHER -> "main"
    /\ UNCHANGED <<commandLine, items, count, block_sizes, alloc, noa_files, input_file,
                   output_file, errno>>

\* An empty argument stores nothing and sets no errno: whatever errno was
\* left before decides.
SizesEnd ==
    /\ parse_at = "sizes" /\ items = << >>
    /\ next' = next + 1
    /\ parse_at' = CASE count > 0 \/ errno = "0" -> "options"
               [] count = 0 /\ errno = "EINVAL" -> "usage"
               [] OTHER -> "main"
    /\ UNCHANGED <<commandLine, items, count, block_sizes, alloc, noa_files, input_file,
                   output_file, errno>>

SetOutput ==
    /\ parse_at = "options" /\ next <= Len(options) /\ option.key = "o"
    /\ IF input_file THEN parse_at' = "usage" /\ UNCHANGED <<next, output_file>>
                     ELSE output_file' = TRUE /\ next' = next + 1 /\ UNCHANGED parse_at
    /\ UNCHANGED <<commandLine, items, count, block_sizes, alloc, noa_files, input_file,
                   errno>>

SetInput ==
    /\ parse_at = "options" /\ next <= Len(options) /\ option.key = "i"
    /\ IF output_file THEN parse_at' = "usage" /\ UNCHANGED <<next, input_file>>
                      ELSE input_file' = TRUE /\ next' = next + 1 /\ UNCHANGED parse_at
    /\ UNCHANGED <<commandLine, items, count, block_sizes, alloc, noa_files, output_file,
                   errno>>

-----------------------------------------------------------------------------
(* The end of the command line.                                            *)

NoMemory ==
    /\ errno' = "ENOMEM"
    /\ GiveUp

\* ARGP_KEY_ARGS and ARGP_KEY_NO_ARGS.
StoreFiles ==
    /\ parse_at = "options" /\ next > Len(options)
    /\ \/ /\ noa_files' = (IF files = << >> THEN <<"-">> ELSE files)
          /\ parse_at' = "end" /\ UNCHANGED errno
       \/ NoMemory /\ UNCHANGED noa_files
    /\ UNCHANGED <<commandLine, next, items, count, block_sizes, alloc, input_file,
                   output_file>>

\* mutant: the first size is repeated.
PadSizes_First ==
    LET n     == Len(noa_files)
        m     == Len(block_sizes)
        value == IF block_sizes = << >> THEN 1 ELSE Head(block_sizes)
    IN  /\ parse_at = "end"
        /\ alloc' = NewAlloc(alloc, n)
        /\ IF m > n
             THEN parse_at' = "usage" /\ UNCHANGED block_sizes
             ELSE /\ block_sizes' = block_sizes \o [i \in 1..(n - m) |-> value]
                  /\ parse_at' = "main"
        /\ UNCHANGED <<commandLine, next, items, count, noa_files, input_file, output_file,
                       errno>>

\* ARGP_KEY_END: the last size, or 1, is for all the files that are left.
PadSizes ==
    LET sizes == Len(block_sizes)
        value == IF sizes < 1 THEN 1 ELSE block_sizes[sizes]
        n     == Len(noa_files)
    IN  /\ parse_at = "end"
        /\ \/ sizes = n /\ parse_at' = "main" /\ UNCHANGED <<block_sizes, alloc, errno>>
           \/ sizes > n /\ parse_at' = "usage" /\ UNCHANGED <<block_sizes, alloc, errno>>
           \/ /\ sizes < n
              /\ alloc' = NewAlloc(alloc, n)
              /\ block_sizes' = block_sizes \o [i \in 1..(n - sizes) |-> value]
              /\ parse_at' = "main" /\ UNCHANGED errno
           \/ sizes < n /\ n > alloc /\ NoMemory /\ UNCHANGED <<block_sizes, alloc>>
        /\ UNCHANGED <<commandLine, next, items, count, noa_files, input_file, output_file>>

-----------------------------------------------------------------------------
(* main: the files are opened, and the loops entered.                      *)

OpenFails ==
    /\ parse_at = "main"
    /\ parse_at' = "open_error"
    /\ UNCHANGED <<commandLine, next, items, count, block_sizes, alloc, noa_files,
                   input_file, output_file, errno>>

\* assert (block_sizes_size == noas_count), then rest_bytes = *sp: the array
\* of sizes that is still empty is a null pointer.
EnterLoop ==
    /\ parse_at = "main"
    /\ parse_at' = CASE Len(block_sizes) # Len(noa_files) -> "assertion"
               [] block_sizes = << >> /\ noa_files = << >> -> "null_sizes"
               [] OTHER -> IF input_file THEN "deinterleave" ELSE "interleave"
    /\ UNCHANGED <<commandLine, next, items, count, block_sizes, alloc, noa_files,
                   input_file, output_file, errno>>

\* The program has ended, or goes on in one of its loops.
OptionsEnded == parse_at \in OptionsExits /\ UNCHANGED option_vars

OptionsNext ==
    \/ SizesBegin \/ SizesStore \/ SizesNoMemory \/ SizesInvalid \/ SizesEnd
    \/ SetOutput \/ SetInput
    \/ StoreFiles \/ PadSizes
    \/ OpenFails \/ EnterLoop
    \/ OptionsEnded

OptionsSpec == OptionsInit /\ [][OptionsNext]_option_vars

-----------------------------------------------------------------------------
(* Properties.                                                             *)

\* The state is well formed, and the array of sizes holds what is stored in
\* it (useutil.c:34-50).
OptionsTypeOK ==
    /\ next \in 1..(Len(options) + 1)
    /\ items \in Seq(Nat) /\ count \in Nat
    /\ block_sizes \in Seq(Nat \ {0})
    /\ alloc \in Nat /\ Len(block_sizes) <= alloc
    /\ noa_files \in {<< >>, <<"-">>, files}
    /\ input_file \in BOOLEAN /\ output_file \in BOOLEAN
    /\ errno \in {"0", "ENOENT", "ENOMEM", "EINVAL"}
    /\ parse_at \in {"options", "sizes", "end", "main"} \cup OptionsExits

\* What the options say, whatever their order.
Given(key) == {k \in DOMAIN options : options[k].key = key}
AllItems   == FlattenSeq([k \in DOMAIN options |->
                 IF options[k].key = "s" THEN options[k].arg ELSE << >>])
FileCount  == IF files = << >> THEN 1 ELSE Len(files)

Running == parse_at \in {"interleave", "deinterleave"}

\* README: "if the number of sizes specified is less than the number of
\* inputs, the last size specified is used for the rest", and by default 1.
\* What the loops are entered with is just that, with several --block-sizes
\* and with failures to allocate on the way (rawilv.c:229-258): it is the
\* precondition of Interleave and of Deinterleave.
SizesAreAsGiven ==
    Running =>
        /\ Len(noa_files) = FileCount /\ Len(block_sizes) = FileCount
        /\ \A i \in 1..FileCount :
               block_sizes[i] = IF AllItems = << >> THEN 1
                                ELSE IF i <= Len(AllItems) THEN AllItems[i]
                                ELSE Last(AllItems)

\* The loops are entered with sizes that are not the files' only after memory
\* has run out or an empty --block-sizes was given: nothing else in a command
\* line makes argp_parse stop half-way (rawilv.c:180-184, 211-215, 243-247,
\* 300).
StopsHalfWay ==
    parse_at \in {"assertion", "null_sizes"} =>
        errno = "ENOMEM" \/ \E k \in Given("s") : options[k].arg = << >>
=============================================================================
