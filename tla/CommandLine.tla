----------------------------- MODULE CommandLine -----------------------------
(***************************************************************************)
(* The command lines of both programs: CommandLine::parse() (common/src/   *)
(* cli.cpp) argument by argument, then parse_producer_options() and        *)
(* parse_consumer_options().                                               *)
(*                                                                         *)
(* A user means a sequence of items; they are spelled out as arguments,    *)
(* which is all that the parser sees.  An argument is a word or begins     *)
(* with a dash: an option with a name, long or short, and perhaps a word   *)
(* in the same argument, or "--" alone.  Words are told apart by what the  *)
(* number parsers make of them.                                            *)
(***************************************************************************)
EXTENDS Naturals, Sequences, SequencesExt

CONSTANTS
  Programs,    \* subset of {"producer", "consumer"}
  Set,         \* options that a user sets
  Words,       \* words that a user writes, as values or as arguments
  MaxItems,    \* bound: items on a command line
  None

ASSUME CommandLineAssumption ==
  Programs \subseteq {"producer", "consumer"} /\ MaxItems \in Nat /\ None \notin Words \cup {"1"}

VARIABLES
  program,      \* which program is started
  items,        \* what its user means
  i,            \* next argument
  only,         \* only_positionals
  entries,      \* Parsed::entries_ of the options: value and explicit_value
  flags,        \* Parsed::entries_ of the flags that were given
  positionals,  \* Parsed::positionals_
  result        \* "parsing", "parsed", "help", "accepted" or the error

vars == <<program, items, i, only, entries, flags, positionals, result>>

\* The declarations in both option files, with their defaults.
Defaults(prog) ==
  IF prog = "producer"
  THEN [payload_size |-> "", shm_name |-> "/pc-ring", ring_size |-> "64M", generator |-> "random",
        checksum |-> "crc32c", seed |-> "1", rate |-> "0", count |-> "0", report_interval |-> "1000"]
  ELSE [shm_name |-> "/pc-ring", pause_policy |-> "block", report_interval |-> "1000", log_defects |-> "10"]

Flags(prog) ==
  {"help", "no_keyboard"} \cup (IF prog = "producer" THEN {"wait_for_consumer"} ELSE {"once"})

MaxPositionals(prog) == IF prog = "producer" THEN 1 ELSE 0

Word(w) == [name |-> "", word |-> w]
Option(name, w) == [name |-> name, word |-> w]
Dashes == Option("--", None)

\* What parse_uint() and parse_byte_size() accept of the words used here.
Uints     == {Word(w) : w \in {"0", "1", "10", "1000"}}
ByteSizes == Uints \cup {Word("4K"), Word("64M")}

-----------------------------------------------------------------------------
(* What users mean and how they write it.                                   *)

Values == {Word(w) : w \in Words}

\* A value in an argument of its own may look like an option.
Items(prog) ==
  LET names == Set \cap DOMAIN Defaults(prog)
  IN  [kind : {"set"}, name : names, value : Values \cup {Option("help", None)}, apart : {TRUE}]
    \cup [kind : {"set"}, name : names, value : Values, apart : {FALSE}]
    \cup [kind : {"flag"}, name : Flags(prog)]
    \cup [kind : {"word"}, value : Values]
    \cup {[kind |-> "dashes"], [kind |-> "unknown"], [kind |-> "flag_value"]}

\* The last item may be an option whose value is missing.
Endings(prog) == {<<>>} \cup {<<item>> : item \in [kind : {"dangling"}, name : Set \cap DOMAIN Defaults(prog)]}

Spelled(item) ==
  CASE item.kind = "set" /\ item.apart    -> <<Option(item.name, None), item.value>>
    [] item.kind = "set" /\ ~item.apart   -> <<Option(item.name, item.value.word)>>
    [] item.kind \in {"flag", "dangling"} -> <<Option(item.name, None)>>
    [] item.kind = "word"                 -> <<item.value>>
    [] item.kind = "dashes"               -> <<Dashes>>
    [] item.kind = "unknown"              -> <<Option("bogus", None)>>
    [] item.kind = "flag_value"           -> <<Option("help", "1")>>

argv == FlattenSeq([k \in DOMAIN items |-> Spelled(items[k])])

-----------------------------------------------------------------------------
(* CommandLine::parse()                                                     *)

Init ==
  /\ program \in Programs
  /\ \E n \in 0..MaxItems : \E s \in [1..n -> Items(program)], e \in Endings(program) : items = s \o e
  /\ i = 1
  /\ only = FALSE
  /\ entries = [o \in DOMAIN Defaults(program) |-> [value |-> Word(Defaults(program)[o]), explicit |-> FALSE]]
  /\ flags = {}
  /\ positionals = <<>>
  /\ result = "parsing"

More == result = "parsing" /\ i <= Len(argv)
IsOption == argv[i].name # "" /\ ~only

\* find_long(), find_short()
IsFlag   == IsOption /\ argv[i].name \in Flags(program)
Takes    == IsOption /\ argv[i].name \in DOMAIN Defaults(program)

\* Mutant of assign: the first value stays.
assign_once(name, value) ==
  entries' = [entries EXCEPT ![name] = IF @.explicit THEN @ ELSE [value |-> value, explicit |-> TRUE]]

\* The lambda in parse(): replaces the entry that holds the default.
assign(name, value) == entries' = [entries EXCEPT ![name] = [value |-> value, explicit |-> TRUE]]

Positional ==
  /\ More /\ ~IsOption
  /\ positionals' = Append(positionals, argv[i])
  /\ i' = i + 1
  /\ UNCHANGED <<program, items, only, entries, flags, result>>

EndOfOptions ==
  /\ More /\ IsOption /\ argv[i] = Dashes
  /\ only' = TRUE
  /\ i' = i + 1
  /\ UNCHANGED <<program, items, entries, flags, positionals, result>>

Flag ==
  /\ More /\ IsFlag /\ argv[i].word = None
  /\ flags' = flags \cup {argv[i].name}
  /\ i' = i + 1
  /\ UNCHANGED <<program, items, only, entries, positionals, result>>

\* The value is in the argument, or is the next one, whatever that looks like.
Value ==
  /\ More /\ Takes
  /\ \/ /\ argv[i].word # None
        /\ assign(argv[i].name, Word(argv[i].word))
        /\ i' = i + 1
     \/ /\ argv[i].word = None /\ i < Len(argv)
        /\ assign(argv[i].name, argv[i + 1])
        /\ i' = i + 2
  /\ UNCHANGED <<program, items, only, flags, positionals, result>>

\* UsageError: unknown option, a flag with a value, an option without one.
Malformed ==
  /\ More /\ IsOption /\ argv[i] # Dashes
  /\ result' = CASE ~IsFlag /\ ~Takes -> "unknown option"
                 [] IsFlag            -> "does not take a value"
                 [] Takes             -> "requires a value"
  /\ IsFlag => argv[i].word # None
  /\ Takes => argv[i].word = None /\ i = Len(argv)
  /\ UNCHANGED <<program, items, i, only, entries, flags, positionals>>

Parsed ==
  /\ result = "parsing" /\ i > Len(argv)
  /\ result' = IF Len(positionals) > MaxPositionals(program) THEN "unexpected argument" ELSE "parsed"
  /\ UNCHANGED <<program, items, i, only, entries, flags, positionals>>

-----------------------------------------------------------------------------
(* parse_producer_options(), parse_consumer_options()                       *)

\* CommandLine::Parsed::value() and given()
value(name) == IF name \in DOMAIN entries THEN entries[name].value ELSE None
given(name) == IF name \in DOMAIN entries THEN entries[name].explicit ELSE name \in flags

PayloadText == IF positionals # <<>> THEN positionals[1] ELSE value("payload_size")

\* byte_size_option(), uint_option(), double_option(): the numbers that both programs
\* read up to the report interval.
BadNumber ==
  \/ \E o \in {"seed", "count", "rate", "report_interval"} \cap DOMAIN entries : value(o) \notin Uints
  \/ program = "producer" /\ value("ring_size") \notin ByteSizes

\* The conditions in the order of the code, each with what becomes of the start; the
\* consumer reads --log-defects last.
Verdicts ==
  LET producing == program = "producer"
  IN  << <<given("help"), "help">>,
         <<producing /\ positionals # <<>> /\ given("payload_size"), "given both">>,
         <<producing /\ PayloadText = None, "payload size is required">>,
         <<producing /\ PayloadText \notin ByteSizes, "not a byte size">>,
         <<BadNumber, "not a number">>,
         <<value("report_interval") = Word("0"), "must be positive">>,
         <<~producing /\ value("log_defects") \notin Uints, "not a number">>,
         <<TRUE, "accepted">> >>

\* Mutant of Verdict: an argument silently replaces --payload-size.
VerdictLenient ==
  LET lenient == SelectSeq(Verdicts, LAMBDA v : v[2] # "given both")
  IN  lenient[SelectInSeq(lenient, LAMBDA v : v[1])][2]

Verdict == Verdicts[SelectInSeq(Verdicts, LAMBDA v : v[1])][2]

Interpret ==
  /\ result = "parsed"
  /\ result' = Verdict
  /\ UNCHANGED <<program, items, i, only, entries, flags, positionals>>

Next == Positional \/ EndOfOptions \/ Flag \/ Value \/ Malformed \/ Parsed \/ Interpret

Spec == Init /\ [][Next]_vars

-----------------------------------------------------------------------------
(* Properties                                                               *)

\* Items before the first "--".
Before ==
  CHOOSE n \in 0..Len(items) :
    /\ \A k \in 1..n : items[k].kind # "dashes"
    /\ n < Len(items) => items[n + 1].kind = "dashes"

\* The last of the items before "--" that set an option wins.
Meant(o) ==
  LET sets == {k \in 1..Before : items[k].kind = "set" /\ items[k].name = o}
  IN  IF sets = {} THEN Word(Defaults(program)[o])
      ELSE items[CHOOSE k \in sets : \A m \in sets : m <= k].value

\* What malformed items are refused for.
Refusals ==
  [kind \in {"unknown", "flag_value", "dangling"} |->
     CASE kind = "unknown"    -> "unknown option"
       [] kind = "flag_value" -> "does not take a value"
       [] kind = "dangling"   -> "requires a value"]

\* What the first malformed item before "--" is refused for, if there is one.
Complaint ==
  LET wrong == {k \in 1..Before : items[k].kind \in DOMAIN Refusals}
  IN  IF wrong = {} THEN None ELSE Refusals[items[CHOOSE k \in wrong : \A m \in wrong : k <= m].kind]

\* The arguments that an item stands for: a word before "--", everything after it.
ArgumentsOf(k) ==
  CASE k <= Before /\ items[k].kind = "word" -> <<items[k].value>>
    [] k <= Before /\ items[k].kind # "word" -> <<>>
    [] k = Before + 1                        -> <<>>
    [] k > Before + 1                        -> Spelled(items[k])

\* A command line is taken for what its user meant: the last setting of every
\* option and no other, the flags, and as arguments the words before "--" and
\* everything after it; it is refused only for the first malformed thing in it or
\* for too many arguments.  Values that look like options do not change that, nor
\* does the spelling.
MeaningKept ==
  LET meant == FlattenSeq([k \in DOMAIN items |-> ArgumentsOf(k)])
  IN  /\ result \in {"parsed", "help", "accepted"} =>
           /\ Complaint = None
           /\ \A o \in DOMAIN entries : value(o) = Meant(o)
           /\ flags = {items[k].name : k \in {j \in 1..Before : items[j].kind = "flag"}}
           /\ positionals = meant
      /\ result \in {"unknown option", "does not take a value", "requires a value"} => result = Complaint
      /\ result = "unexpected argument" => Complaint = None /\ Len(meant) > MaxPositionals(program)

\* A producer that starts has one payload size, given once, and reports at a
\* positive interval; whoever asked for help gets help and no error about values.
StartsAsMeant ==
  /\ result = "accepted" /\ program = "producer" =>
       LET settings == {k \in 1..Before : items[k].kind = "set" /\ items[k].name = "payload_size"}
       IN  /\ (settings = {}) # (positionals = <<>>)
           /\ PayloadText \in ByteSizes
           /\ Meant("report_interval") # Word("0")
  /\ result \in {"given both", "not a byte size", "not a number", "must be positive", "accepted"} =>
       ~ \E k \in 1..Before : items[k].kind = "flag" /\ items[k].name = "help"

=============================================================================
