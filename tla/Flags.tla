-------------------------------- MODULE Flags --------------------------------
(***************************************************************************)
(* How run, shell and setup read their command line.  reorderKnownFlags    *)
(* moves the flags smith-jail knows to the front, and Go's flag package    *)
(* reads the line so reordered.  A word is what the code can tell of it:   *)
(* the flag it is shaped like, if any, and the value it carries.           *)
(***************************************************************************)
EXTENDS Naturals, Sequences, SequencesExt

CONSTANTS
  BoolFlags,   \* the flags parseCommonFlags declares with Bool
  ValueFlags,  \* ... and with String
  NoValue,     \* what a flag without "=value" carries
  BadValue,    \* a value strconv.ParseBool does not understand
  Cwd          \* the directory "."

Known == BoolFlags \cup ValueFlags

\* A word that is shaped like no flag, and the word "--".
Plain(x)    == [flag |-> "", val |-> x]
Dashes      == [flag |-> "--", val |-> NoValue]
Flag(f, v)  == [flag |-> f, val |-> v]
IsPlain(w)  == w.flag = ""
IsKnown(w)  == w.flag \in Known
TakesNext(w) == w.flag \in ValueFlags /\ w.val = NoValue
-----------------------------------------------------------------------------
(* reorderKnownFlags: one pass over the words; "value" is the word that a  *)
(* flag took with it.                                                      *)

\* Fault: the values of flags are left where they stand.
ScanLeavingValues(acc, w) ==
  CASE acc.at = "dashes" -> [acc EXCEPT !.rest = Append(@, w)]
    [] IsKnown(w) -> [acc EXCEPT !.known = Append(@, w)]
    [] OTHER -> [acc EXCEPT !.rest = Append(@, w), !.at = IF w = Dashes THEN "dashes" ELSE @]

Scan(acc, w) ==
  CASE acc.at = "value"  -> [acc EXCEPT !.known = Append(@, w), !.at = "words"]
    [] acc.at = "dashes" -> [acc EXCEPT !.rest = Append(@, w)]
    [] OTHER ->
         IF IsKnown(w)
           THEN [acc EXCEPT !.known = Append(@, w), !.at = IF TakesNext(w) THEN "value" ELSE "words"]
           ELSE [acc EXCEPT !.rest = Append(@, w), !.at = IF w = Dashes THEN "dashes" ELSE "words"]

reorderKnownFlags(args) ==
  LET end == FoldLeft(Scan, [known |-> <<>>, rest |-> <<>>, at |-> "words"], args)
  IN  end.known \o end.rest

-----------------------------------------------------------------------------
(* flag.FlagSet.Parse: stops at the first word that is not a flag, or after *)
(* "--"; a flag it does not know, a value it does not understand and one   *)
(* that is missing are errors, and the process exits.                      *)

Defaults == [f \in Known |-> NoValue]

Take(acc, w) ==
  CASE acc.at = "words" -> [acc EXCEPT !.words = Append(@, w)]
    [] acc.at = "error" -> acc
    [] acc.at \in ValueFlags -> [acc EXCEPT !.set[acc.at] = w, !.at = "flags"]
    [] OTHER ->
         IF IsPlain(w) THEN [acc EXCEPT !.words = Append(@, w), !.at = "words"]
         ELSE IF w = Dashes THEN [acc EXCEPT !.at = "words"]
         ELSE IF ~IsKnown(w) \/ (w.flag \in BoolFlags /\ w.val = BadValue)
           THEN [acc EXCEPT !.at = "error"]
         ELSE IF TakesNext(w) THEN [acc EXCEPT !.at = w.flag]
         ELSE [acc EXCEPT !.set[w.flag] = w]

Parse(args) ==
  LET end == FoldLeft(Take, [set |-> Defaults, words |-> <<>>, at |-> "flags"], args)
  IN  IF end.at = "error" \/ end.at \in ValueFlags
        THEN [ok |-> FALSE]
        ELSE [ok |-> TRUE, set |-> end.set, words |-> end.words]

\* parseCommonFlags, then parseRunFlags or parseSetupFlags: the first word left
\* is the directory, which only setup does without, the others are the agent's.
parseFlags(cmd, args) ==
  LET r == Parse(reorderKnownFlags(args))
  IN  IF ~r.ok \/ (r.words = <<>> /\ cmd # "setup") THEN [ok |-> FALSE]
      ELSE [ok |-> TRUE, set |-> r.set,
            dir |-> IF r.words = <<>> THEN Plain(Cwd) ELSE Head(r.words),
            extra |-> IF r.words = <<>> THEN <<>> ELSE Tail(r.words)]
-----------------------------------------------------------------------------
(* What the line says, read word by word where each stands.                *)

\* The part each word plays, by the part the word before it plays.
Roles(args) ==
  LET role[i \in 0..Len(args)] ==
        IF i = 0 THEN "none"
        ELSE CASE role[i - 1] \in {"dashes", "after"} -> "after"
               [] role[i - 1] = "needs" -> "value"
               [] OTHER -> CASE args[i] = Dashes -> "dashes"
                             [] TakesNext(args[i]) -> "needs"
                             [] IsKnown(args[i]) -> "flag"
                             [] OTHER -> "word"
  IN  role

\* The line ends in a flag that lacks its value.
LacksValue(args) == Roles(args)[Len(args)] = "needs"

\* A flag means the same wherever it stands before "--", the last of several
\* counts, and every other word is left in its order.
Reading(cmd, args) ==
  LET role == Roles(args)
      At(f) == {i \in DOMAIN args : role[i] \in {"flag", "needs"} /\ args[i].flag = f}
      Said(f) == IF At(f) = {} THEN NoValue
                 ELSE LET i == CHOOSE i \in At(f) : \A j \in At(f) : j <= i
                      IN  IF role[i] = "needs" THEN args[i + 1] ELSE args[i]
      left == {i \in DOMAIN args : role[i] \in {"word", "dashes", "after"}}
      first == CHOOSE i \in left : \A j \in left : i <= j
      own == IF left # {} /\ role[first] = "dashes" THEN left \ {first} ELSE left
      words == [k \in 1..Cardinality(own) |->
                  args[CHOOSE i \in own : Cardinality({j \in own : j <= i}) = k]]
      wrong == \/ \E f \in BoolFlags, i \in DOMAIN args : i \in At(f) /\ args[i].val = BadValue
               \/ left # {} /\ role[first] = "word" /\ ~IsPlain(args[first])
  IN  IF wrong \/ (words = <<>> /\ cmd # "setup") THEN [ok |-> FALSE]
      ELSE [ok |-> TRUE, set |-> [f \in Known |-> Said(f)],
            dir |-> IF words = <<>> THEN Plain(Cwd) ELSE Head(words),
            extra |-> IF words = <<>> THEN <<>> ELSE Tail(words)]
=============================================================================
