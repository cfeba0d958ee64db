------------------------------- MODULE EnvFile -------------------------------
(***************************************************************************)
(* The configuration files and what is done to them: reading one, setting  *)
(* keys in one and removing them.  A file that is there is a sequence of   *)
(* lines, a value a sequence of words, spaces and quotes.  An assignment,  *)
(* active or commented out, has a key and the text behind its equals sign, *)
(* trimmed; any other line is blank or prose.                              *)
(***************************************************************************)
EXTENDS Naturals, Sequences, SequencesExt

Space == " "        \* a blank, a tab or a #, which must be quoted, too
DQ    == "\""
SQ    == "'"

Blank == [kind |-> "blank"]
Prose == [kind |-> "prose"]
Line(kind, key, text) == [kind |-> kind, key |-> key, text |-> text]

Absent      == [there |-> FALSE, lines |-> <<>>]
File(lines) == [there |-> TRUE, lines |-> lines]
IsFile(f)   == f = Absent \/ (f = File(f.lines) /\ f.lines \in Seq(ToSet(f.lines)))

\* A value, a list of words and the text of an assignment are sequences.
IsText(v)       == v \in Seq(ToSet(v))
HasTexts(lines) == \A i \in DOMAIN lines : lines[i].kind = "active" => IsText(lines[i].text)

\* Where a key is assigned: the kind is "active" or "comment".
At(lines, kind, key) ==
  {i \in DOMAIN lines : lines[i].kind = kind /\ lines[i].key = key}

ActiveKeys(lines) ==
  {lines[i].key : i \in {j \in DOMAIN lines : lines[j].kind = "active"}}

\* The n-th element of a set of numbers, from the smallest on.
Nth(S, n) == CHOOSE i \in S : Cardinality({j \in S : j <= i}) = n

\* The elements of a sequence at some places, in their order.
Selected(s, places) == [n \in 1..Cardinality(places) |-> s[Nth(places, n)]]
-----------------------------------------------------------------------------
(* Values *)

\* A value with both quotes has no way to be written: an error.
Quotable(v) == ~({DQ, SQ} \subseteq ToSet(v))

quoteEnvValue(v) ==
  IF v # <<>> /\ ToSet(v) \cap {Space, DQ, SQ} = {} THEN v
  ELSE LET q == IF DQ \in ToSet(v) THEN SQ ELSE DQ
       IN <<q>> \o v \o <<q>>

stripQuotes(s) ==
  IF Len(s) >= 2 /\ s[1] \in {DQ, SQ} /\ s[Len(s)] = s[1]
  THEN SubSeq(s, 2, Len(s) - 1)
  ELSE s

Words(v) == Selected(v, {i \in DOMAIN v : v[i] # Space})

\* The words, each where it is first seen.
splitPackages(v) ==
  Selected(v, {i \in DOMAIN v : v[i] # Space /\ \A j \in 1..i - 1 : v[j] # v[i]})

\* strings.Join: a space between two words.
Join(words) ==
  [i \in 1..(IF words = <<>> THEN 0 ELSE 2 * Len(words) - 1) |->
     IF i % 2 = 1 THEN words[(i + 1) \div 2] ELSE Space]
-----------------------------------------------------------------------------
(* Files *)

\* The last assignment counts.
parseEnvFile(lines) ==
  [k \in ActiveKeys(lines) |-> stripQuotes(lines[Max(At(lines, "active", k))].text)]

Parse(file) == parseEnvFile(file.lines)

Assignment(k, v) == Line("active", k, quoteEnvValue(v))

\* The line a key is set in: its first assignment or, if it has none, the first
\* one that is commented out; 0, a new line at the end.
Place(lines, k) ==
  LET places == IF At(lines, "active", k) # {} THEN At(lines, "active", k)
                                               ELSE At(lines, "comment", k)
  IN IF places = {} THEN 0 ELSE Min(places)

\* The new lines are sorted by key there, in some order here.
SetEnvValues(lines, values) ==
  LET rewritten == [i \in DOMAIN lines |->
                      IF \E k \in DOMAIN values : Place(lines, k) = i
                      THEN Assignment(lines[i].key, values[lines[i].key])
                      ELSE lines[i]]
      new == {k \in DOMAIN values : Place(lines, k) = 0}
      gap == IF new # {} /\ lines # <<>> /\ Last(lines) # Blank THEN <<Blank>> ELSE <<>>
  IN rewritten \o gap \o SetToSeq({Assignment(k, values[k]) : k \in new})

\* Every assignment goes; the other lines stay, in their order, and so do
\* the lines that are commented out.
UnsetEnvValues(lines, keys) ==
  Selected(lines, {i \in DOMAIN lines : ~(lines[i].kind = "active" /\ lines[i].key \in keys)})

\* A file that is not there has no lines.
readEnvLines(file) == file.lines
=============================================================================
