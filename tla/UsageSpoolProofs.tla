-------------------------- MODULE UsageSpoolProofs --------------------------
(***************************************************************************)
(* The usage spool delivers at least once and in order, for any number of  *)
(* events, failures and restarts and any size of file and batch.           *)
(***************************************************************************)
EXTENDS UsageSpool, TLAPS, FiniteSetTheorems, SequenceTheorems

-----------------------------------------------------------------------------
(* The inductive invariant.                                                *)

\* Lines hold events, and one that does not parse only damaged ones.
LinesOK(lines, bad) ==
  /\ lines \in Seq(Line)
  /\ \A i \in DOMAIN lines :
       /\ lines[i].events # <<>>
       /\ ~Parses(lines[i]) => Range(lines[i].events) \subseteq bad

\* Events come in the order in which they were emitted.
Sorted(lines) ==
  \A i, j \in DOMAIN lines :
    i < j => \A x \in Range(lines[i].events), y \in Range(lines[j].events) : x < y

OpenLast(lines) == \A i \in 1..(Len(lines) - 1) : ~lines[i].open

FileOK(file, bad) == LinesOK(file, bad) /\ Sorted(file) /\ OpenLast(file)

\* The lines of a pass are still in the file, and nothing in it is older than they are.
Window(lines, file) ==
  /\ EventsOf(lines) \subseteq EventsOf(file)
  /\ \A d \in EventsOf(file), e \in EventsOf(lines) : d < e => d \in EventsOf(lines)

\* The lines before i are dealt with.
Consumed(lines, i, done) ==
  \A j \in 1..(i - 1) : Parses(lines[j]) => Head(lines[j].events) \in done

PassOK(lines, i, file, done, bad) ==
  lines # <<>> =>
    /\ LinesOK(lines, bad) /\ Sorted(lines)
    /\ Window(lines, file)
    /\ i \in DOMAIN lines
    /\ Parses(lines[i])
    /\ Consumed(lines, i, done)

\* How many events the next append may damage without another failure.
Slack(file) ==
  IF file # <<>> /\ Last(file).open THEN IF Parses(Last(file)) THEN 2 ELSE 1 ELSE 0

CostOK == Cardinality(damaged) + Slack(spool) <= 2 * faults

\* No event is lost sight of.
Accounted == accepted \subseteq EventsOf(spool) \cup received \cup refused \cup damaged

IInv ==
  /\ TypeOK
  /\ FileOK(spool, damaged)
  /\ PassOK(batch, at, spool, received \cup refused, damaged)
  /\ CostOK
  /\ Accounted
  /\ InOrder

-----------------------------------------------------------------------------
(* Events of lines.                                                        *)

LEMMA EventsOfIn ==
  ASSUME NEW lines \in Seq(Line)
  PROVE  /\ \A i \in DOMAIN lines : Range(lines[i].events) \subseteq EventsOf(lines)
         /\ \A e \in EventsOf(lines) : \E i \in DOMAIN lines : e \in Range(lines[i].events)
         /\ EventsOf(lines) \subseteq Events
<1>1. \A i \in DOMAIN lines : lines[i] \in Line
  OBVIOUS
<1>2. \A l \in Line : Range(l.events) \subseteq Events
  BY DEF Line, Range
<1> QED
  BY <1>1, <1>2 DEF EventsOf, Range

LEMMA HeadOfParsed ==
  ASSUME NEW l \in Line, Parses(l)
  PROVE  /\ Range(l.events) = {Head(l.events)}
         /\ Head(l.events) \in Events
<1>1. l.events \in Seq(Events) /\ Len(l.events) = 1
  BY DEF Parses, Line
<1>2. DOMAIN l.events = {1} /\ Head(l.events) = l.events[1] /\ l.events[1] \in Events
  BY <1>1
<1> QED
  BY <1>2 DEF Range

LEMMA LastIs ==
  ASSUME NEW S, NEW s \in Seq(S), s # <<>>
  PROVE  /\ Len(s) \in Nat \ {0}
         /\ Last(s) = s[Len(s)] /\ Len(s) \in DOMAIN s /\ Last(s) \in S
BY LenProperties, EmptySeq DEF Last

\* n is the file with a line of e put behind its m closed lines, new or made of its open
\* last one.
Extends(n, file, m, e) ==
  /\ m \in Nat /\ n \in Seq(Line) /\ DOMAIN n = 1..(m + 1)
  /\ \A i \in 1..m : i \in DOMAIN file /\ n[i] = file[i] /\ ~file[i].open
  /\ \/ DOMAIN file = 1..m /\ Range(n[m + 1].events) = {e}
     \/ /\ DOMAIN file = 1..(m + 1)
        /\ Range(n[m + 1].events) = Range(file[m + 1].events) \cup {e}

LEMMA ExtendsOK ==
  ASSUME NEW file \in Seq(Line), NEW n, NEW m, NEW e, Extends(n, file, m, e)
  PROVE  /\ EventsOf(n) = EventsOf(file) \cup {e}
         /\ OpenLast(n)
         /\ Sorted(file) /\ (\A x \in EventsOf(file) : x < e) => Sorted(n)
<1> DEFINE last == n[m + 1]
<1> USE DEF Extends
<1>0. m \in Nat /\ n \in Seq(Line)
  OBVIOUS
<1>1. 1..(m + 1) = (1..m) \cup {m + 1}
  BY <1>0
<1>2. \A x \in EventsOf(file) : \E i \in DOMAIN file : x \in Range(file[i].events)
  BY EventsOfIn
<1>3. \A i \in DOMAIN file : Range(file[i].events) \subseteq EventsOf(file)
  BY EventsOfIn
<1>4. \A x \in EventsOf(n) : \E i \in DOMAIN n : x \in Range(n[i].events)
  BY EventsOfIn
<1>5. \A i \in DOMAIN n : Range(n[i].events) \subseteq EventsOf(n)
  BY EventsOfIn
<1>6. EventsOf(n) \subseteq EventsOf(file) \cup {e}
  <2> SUFFICES ASSUME NEW x \in EventsOf(n) PROVE x \in EventsOf(file) \cup {e}
    OBVIOUS
  <2>1. PICK i \in (1..m) \cup {m + 1} : x \in Range(n[i].events)
    BY <1>1, <1>4
  <2>2. m + 1 \in 1..(m + 1)
    OBVIOUS
  <2> QED
    BY <1>3, <2>1, <2>2
<1>7. EventsOf(file) \cup {e} \subseteq EventsOf(n)
  <2>1. m + 1 \in DOMAIN n
    BY <1>1
  <2>2. e \in EventsOf(n)
    BY <1>5, <2>1
  <2>3. ASSUME NEW x \in EventsOf(file) PROVE x \in EventsOf(n)
    <3>1. PICK i \in DOMAIN file : x \in Range(file[i].events)
      BY <1>2
    <3>2. CASE i \in 1..m
      BY <1>1, <1>5, <3>1, <3>2
    <3>3. CASE i \notin 1..m
      BY <1>1, <1>5, <2>1, <3>1, <3>3
    <3> QED
      BY <3>2, <3>3
  <2> QED
    BY <2>2, <2>3
<1>8. OpenLast(n)
  <2>1. Len(n) - 1 = m
    BY LenProperties
  <2> QED
    BY <2>1 DEF OpenLast
<1>9. ASSUME Sorted(file), \A x \in EventsOf(file) : x < e
      PROVE  Sorted(n)
  <2> SUFFICES ASSUME NEW i \in 1..(m + 1), NEW j \in 1..(m + 1), i < j,
                      NEW x \in Range(n[i].events), NEW y \in Range(n[j].events)
               PROVE  x < y
    BY DEF Sorted
  <2>1. i \in 1..m
    OBVIOUS
  <2>2. i \in DOMAIN file /\ x \in Range(file[i].events) /\ x < e
    BY <1>3, <1>9, <2>1
  <2>3. y = e \/ (j \in DOMAIN file /\ y \in Range(file[j].events))
    BY <1>1
  <2> QED
    BY <1>9, <2>2, <2>3 DEF Sorted
<1> QED
  BY <1>6, <1>7, <1>8, <1>9

\* How many lines an append leaves as they are.
Kept(file) == IF file # <<>> /\ Last(file).open THEN Len(file) - 1 ELSE Len(file)

\* The bytes go behind the last line or into it.
\* n is the file with e in its last line, after m lines that stay as they were.
WrittenAs(n, file, e, cut, open, m, last) ==
  /\ Extends(n, file, m, e)
  /\ m \in Nat
  /\ n \in Seq(Line) /\ n # <<>>
  /\ DOMAIN n = 1..(m + 1) /\ n[m + 1] = last
  /\ last.open = open /\ last.events # <<>>
  /\ \A i \in 1..m : i \in DOMAIN file /\ n[i] = file[i] /\ ~file[i].open
  /\ \/ /\ DOMAIN file = 1..m
        /\ Slack(file) = 0
        /\ Range(last.events) = {e}
        /\ Parses(last) <=> cut = "no"
     \/ /\ DOMAIN file = 1..(m + 1)
        /\ file # <<>> /\ Last(file).open /\ Last(file) = file[m + 1]
        /\ Range(last.events) = Range(file[m + 1].events) \cup {e}
        /\ ~Parses(last)

LEMMA WrittenIs ==
  ASSUME NEW file \in Seq(Line), OpenLast(file), \A i \in DOMAIN file : file[i].events # <<>>,
         NEW e \in Events, NEW cut \in Cuts, NEW open \in BOOLEAN, NEW n, NEW m, NEW last,
         n = Written(file, e, cut, open), m = Kept(file), last = Last(n)
  PROVE  WrittenAs(n, file, e, cut, open, m, last)
<1> USE DEF WrittenAs
<1>1. CASE file # <<>> /\ Last(file).open
  <2> DEFINE l == [events |-> Append(Last(file).events, e),
                   cut |-> IF Last(file).cut = "char" THEN "char" ELSE cut,
                   open |-> open]
             front == SubSeq(file, 1, m)
             old == Last(file).events
  <2>0. m = Len(file) - 1
    BY <1>1 DEF Kept
  <2>1. /\ Len(file) \in Nat \ {0} /\ Last(file) \in Line
        /\ Last(file) = file[m + 1] /\ m + 1 \in DOMAIN file
    BY <1>1, <2>0, LastIs
  <2>2. m \in Nat /\ DOMAIN file = 1..(m + 1)
    BY <2>0, <2>1, LenProperties
  <2>3. l \in Line
    BY <2>1 DEF Line, Cuts
  <2>4. n = Append(front, l)
    BY <1>1, <2>0 DEF Written, Front
  <2>5. l.open = open /\ l.events = Append(old, e)
    OBVIOUS
  <2>6. old \in Seq(Events) /\ old # <<>>
    BY <2>1 DEF Line
  <2>7. front \in Seq(Line) /\ Len(front) = m /\ (\A i \in 1..m : front[i] = file[i])
    BY <2>0, <2>1, <2>2
  <2>8. \A i \in 1..m : ~file[i].open
    BY <2>0 DEF OpenLast
  <2>9. \A i \in 1..m : i \in DOMAIN file
    BY <2>2
  <2> HIDE DEF l, front, old
  <2>10. /\ n \in Seq(Line) /\ n # <<>> /\ Len(n) = m + 1 /\ n[m + 1] = l
         /\ \A i \in 1..m : n[i] = front[i]
    BY <2>3, <2>4, <2>7, AppendProperties
  <2>11. DOMAIN n = 1..(m + 1) /\ last = l
    BY <2>10, LenProperties DEF Last
  <2>12. Len(old) \in Nat \ {0} /\ DOMAIN old = 1..Len(old)
    BY <2>6, EmptySeq, LenProperties
  <2>13. /\ Len(l.events) = Len(old) + 1
         /\ DOMAIN l.events = 1..(Len(old) + 1)
         /\ \A i \in 1..Len(old) : l.events[i] = old[i]
         /\ l.events[Len(old) + 1] = e
    BY <2>5, <2>6
  <2>14. Range(l.events) = Range(old) \cup {e}
    BY <2>12, <2>13 DEF Range
  <2>15. ~Parses(l)
    BY <2>12, <2>13 DEF Parses
  <2>16. l.events # <<>>
    BY <2>12, <2>13
  <2> QED
    BY <1>1, <2>1, <2>2, <2>5, <2>7, <2>8, <2>9, <2>10, <2>11, <2>14, <2>15, <2>16
       DEF old, Extends
<1>2. CASE ~(file # <<>> /\ Last(file).open)
  <2> DEFINE l == [events |-> <<e>>, cut |-> cut, open |-> open]
  <2>0. m = Len(file)
    BY <1>2 DEF Kept
  <2>1. l \in Line
    BY DEF Line
  <2>2. n = Append(file, l)
    BY <1>2 DEF Written
  <2>3. m \in Nat /\ DOMAIN file = 1..m
    BY <2>0, LenProperties
  <2>4. /\ l.open = open /\ l.events # <<>> /\ Range(l.events) = {e}
        /\ Parses(l) <=> cut = "no"
    BY DEF Range, Parses
  <2>5. ASSUME NEW i \in 1..m PROVE ~file[i].open
    <3>1. CASE i \in 1..(m - 1)
      BY <2>0, <3>1 DEF OpenLast
    <3>2. CASE i = m
      <4>1. file # <<>>
        BY <2>3, <3>2, EmptySeq
      <4>2. Last(file) = file[m]
        BY <2>0 DEF Last
      <4> QED
        BY <1>2, <3>2, <4>1, <4>2
    <3> QED
      BY <2>3, <3>1, <3>2
  <2>6. Slack(file) = 0
    BY <1>2 DEF Slack
  <2> HIDE DEF l
  <2>7. /\ n \in Seq(Line) /\ n # <<>> /\ Len(n) = m + 1 /\ n[m + 1] = l
        /\ \A i \in 1..m : n[i] = file[i]
    BY <2>0, <2>1, <2>2, AppendProperties
  <2>8. DOMAIN n = 1..(m + 1) /\ last = l
    BY <2>7, LenProperties DEF Last
  <2> QED
    BY <2>1, <2>3, <2>4, <2>5, <2>6, <2>7, <2>8 DEF Extends
<1> QED
  BY <1>1, <1>2

\* n is the file after an append of the newest event.
Appended(n, file, e, cut, open, bad) ==
  /\ n \in Seq(Line) /\ n # <<>>
  /\ EventsOf(n) = EventsOf(file) \cup {e}
  /\ Last(n).open = open
  /\ Range(Last(n).events) \subseteq EventsOf(n)
  /\ FileOK(n, bad \cup (IF Parses(Last(n)) THEN {} ELSE Range(Last(n).events)))
  /\ \/ /\ Slack(file) = 0
        /\ Range(Last(n).events) = {e}
        /\ Parses(Last(n)) <=> cut = "no"
     \/ /\ file # <<>> /\ Last(file).open
        /\ Range(Last(n).events) = Range(Last(file).events) \cup {e}
        /\ ~Parses(Last(n))

LEMMA WrittenOK ==
  ASSUME NEW file, NEW bad, NEW n, NEW e \in Events, NEW cut \in Cuts, NEW open \in BOOLEAN,
         FileOK(file, bad), \A x \in EventsOf(file) : x < e,
         n = Written(file, e, cut, open)
  PROVE  Appended(n, file, e, cut, open, bad)
<1>1. /\ file \in Seq(Line) /\ Sorted(file) /\ OpenLast(file)
      /\ \A i \in DOMAIN file : /\ file[i].events # <<>>
                                /\ ~Parses(file[i]) => Range(file[i].events) \subseteq bad
  BY DEF FileOK, LinesOK
<1>a. \A i \in DOMAIN file : file[i].events # <<>>
  BY <1>1
<1> DEFINE m == Kept(file)
           last == Last(n)
<1>b. m = Kept(file) /\ last = Last(n) /\ file \in Seq(Line) /\ OpenLast(file)
  BY <1>1
<1> HIDE DEF m, last
<1>2. /\ Extends(n, file, m, e)
      /\ m \in Nat
      /\ n \in Seq(Line) /\ n # <<>>
      /\ DOMAIN n = 1..(m + 1) /\ n[m + 1] = last
      /\ last.open = open /\ last.events # <<>>
      /\ \A i \in 1..m : i \in DOMAIN file /\ n[i] = file[i] /\ ~file[i].open
      /\ \/ /\ DOMAIN file = 1..m
            /\ Slack(file) = 0
            /\ Range(last.events) = {e}
            /\ Parses(last) <=> cut = "no"
         \/ /\ DOMAIN file = 1..(m + 1)
            /\ file # <<>> /\ Last(file).open /\ Last(file) = file[m + 1]
            /\ Range(last.events) = Range(file[m + 1].events) \cup {e}
            /\ ~Parses(last)
  <2>1. WrittenAs(n, file, e, cut, open, m, last)
    BY <1>a, <1>b, WrittenIs
  <2> QED
    BY <2>1 DEF WrittenAs
<1>3. EventsOf(n) = EventsOf(file) \cup {e} /\ Sorted(n) /\ OpenLast(n)
  BY <1>1, <1>2, ExtendsOK
<1> DEFINE worse == bad \cup (IF Parses(last) THEN {} ELSE Range(last.events))
<1>4. LinesOK(n, worse)
  <2>1. ASSUME NEW i \in 1..m
        PROVE  n[i].events # <<>> /\ (~Parses(n[i]) => Range(n[i].events) \subseteq worse)
    BY <1>1, <1>2
  <2>2. ~Parses(last) => Range(last.events) \subseteq worse
    OBVIOUS
  <2>3. 1..(m + 1) = (1..m) \cup {m + 1}
    BY <1>2
  <2> HIDE DEF worse
  <2> QED
    BY <1>2, <2>1, <2>2, <2>3 DEF LinesOK
<1>5. FileOK(n, worse)
  BY <1>3, <1>4 DEF FileOK
<1>6. Range(last.events) \subseteq EventsOf(n)
  BY <1>2, EventsOfIn
<1> QED
  BY <1>2, <1>3, <1>5, <1>6 DEF last, Appended

-----------------------------------------------------------------------------
(* Removing lines.                                                         *)

\* What is removed has the text of a consumed line.
\* n is the file without some lines of a batch of which `done` have been answered for good.
Shrunk(n, file, done, bad) ==
  /\ FileOK(n, bad)
  /\ EventsOf(n) \subseteq EventsOf(file)
  /\ EventsOf(file) \ EventsOf(n) \subseteq done \cup bad
  /\ \A i \in DOMAIN n : ~n[i].open

LEMMA RemovedOK ==
  ASSUME NEW file, NEW bad, NEW done, NEW consumed, NEW n,
         FileOK(file, bad), n \in Removed(file, consumed),
         consumed \in Seq(Line),
         \A c \in Range(consumed) : Parses(c) => Head(c.events) \in done
  PROVE  Shrunk(n, file, done, bad)
<1> DEFINE texts == {Text(l) : l \in Range(consumed)}
           kept == {i \in DOMAIN file : Text(file[i]) \notin texts}
<1>1. /\ file \in Seq(Line) /\ Sorted(file)
      /\ \A i \in DOMAIN file : /\ file[i] \in Line
                                /\ file[i].events # <<>>
                                /\ ~Parses(file[i]) => Range(file[i].events) \subseteq bad
  BY DEF FileOK, LinesOK
<1>2. PICK o \in [1..Cardinality(kept) -> kept] :
        /\ Range(o) = kept
        /\ \A i, j \in DOMAIN o : i < j => o[i] < o[j]
        /\ n = [i \in DOMAIN o |-> [file[o[i]] EXCEPT !.open = FALSE]]
  BY DEF Removed
<1>3. kept \subseteq DOMAIN file /\ Cardinality(kept) \in Nat
  <2>1. IsFiniteSet(DOMAIN file)
    <3>1. DOMAIN file = 1..Len(file) /\ Len(file) \in Int /\ 1 \in Int
      BY <1>1, LenProperties
    <3> QED
      BY <3>1, FS_Interval
  <2> QED
    BY <2>1, FS_Subset, FS_CardinalityType
<1> DEFINE size == Cardinality(kept)
<1>4. DOMAIN o = 1..size /\ size \in Nat /\ \A i \in 1..size : o[i] \in DOMAIN file
  BY <1>2, <1>3
<1>5. \A k \in kept : \E i \in 1..size : o[i] = k
  BY <1>2, <1>4 DEF Range
<1>6. /\ DOMAIN n = 1..size
      /\ \A i \in 1..size : n[i] = [file[o[i]] EXCEPT !.open = FALSE]
  BY <1>2, <1>4
<1>7. \A i, j \in 1..size : i < j => o[i] < o[j]
  BY <1>2, <1>4
<1>k. \A i \in DOMAIN file : i \notin kept => Text(file[i]) \in texts
  OBVIOUS
<1> HIDE DEF kept, size
<1>8. ASSUME NEW i \in 1..size
      PROVE  /\ n[i] \in Line /\ n[i].events = file[o[i]].events
             /\ n[i].cut = file[o[i]].cut
             /\ ~n[i].open
             /\ Parses(n[i]) <=> Parses(file[o[i]])
  <2>1. file[o[i]] \in Line
    BY <1>1, <1>4
  <2>2. /\ n[i] \in Line /\ n[i].events = file[o[i]].events
        /\ n[i].cut = file[o[i]].cut /\ n[i].open = FALSE
    BY <1>6, <2>1 DEF Line
  <2> QED
    BY <2>2 DEF Parses
<1>9. n \in Seq(Line)
  <2>1. n \in [1..size -> Line]
    <3>1. n = [i \in 1..size |-> [file[o[i]] EXCEPT !.open = FALSE]]
      BY <1>2, <1>4
    <3> QED
      BY <1>6, <1>8, <3>1
  <2> QED
    BY <1>4, <2>1
<1>10. LinesOK(n, bad)
  BY <1>1, <1>4, <1>6, <1>8, <1>9 DEF LinesOK
<1>11. Sorted(n)
  BY <1>1, <1>4, <1>6, <1>7, <1>8 DEF Sorted
<1>12. \A i \in DOMAIN n : ~n[i].open
  BY <1>6, <1>8
<1>13. OpenLast(n)
  <2>1. Len(n) \in Nat /\ DOMAIN n = 1..Len(n)
    BY <1>9, LenProperties
  <2>2. \A i \in 1..(Len(n) - 1) : i \in DOMAIN n
    BY <2>1
  <2> QED
    BY <1>12, <2>2 DEF OpenLast
<1>14. EventsOf(n) \subseteq EventsOf(file)
  <2> SUFFICES ASSUME NEW x \in EventsOf(n) PROVE x \in EventsOf(file)
    OBVIOUS
  <2>1. PICK i \in 1..size : x \in Range(n[i].events)
    BY <1>6, <1>9, EventsOfIn
  <2>2. x \in Range(file[o[i]].events) /\ o[i] \in DOMAIN file
    BY <1>4, <1>8, <2>1
  <2> QED
    BY <1>1, <2>2, EventsOfIn
<1>15. EventsOf(file) \ EventsOf(n) \subseteq done \cup bad
  <2> SUFFICES ASSUME NEW x \in EventsOf(file), x \notin EventsOf(n)
               PROVE  x \in done \cup bad
    OBVIOUS
  <2>1. PICK k \in DOMAIN file : x \in Range(file[k].events)
    BY <1>1, EventsOfIn
  <2>2. k \notin kept
    <3> SUFFICES ASSUME k \in kept PROVE FALSE
      OBVIOUS
    <3>1. PICK i \in 1..size : o[i] = k
      BY <1>5
    <3>2. x \in Range(n[i].events) /\ i \in DOMAIN n
      BY <1>6, <1>8, <2>1, <3>1
    <3> QED
      BY <1>9, <3>2, EventsOfIn
  <2>3. PICK c \in Range(consumed) : Text(file[k]) = Text(c)
    BY <1>k, <2>2
  <2>4. file[k].events = c.events /\ file[k].cut = c.cut
    BY <2>3 DEF Text
  <2>5. CASE Parses(file[k])
    <3>1. Parses(c)
      BY <2>4, <2>5 DEF Parses
    <3>2. x = Head(c.events)
      BY <1>1, <2>1, <2>4, <2>5, HeadOfParsed
    <3> QED
      BY <3>1, <3>2
  <2>6. CASE ~Parses(file[k])
    BY <1>1, <2>1, <2>6
  <2> QED
    BY <2>5, <2>6
<1> QED
  BY <1>10, <1>11, <1>12, <1>13, <1>14, <1>15 DEF FileOK, Shrunk

-----------------------------------------------------------------------------
(* What a pass does to the file and to itself.                             *)

\* A step of a pass, at the end of which `done` have been answered for good.
PassStep(done) ==
  /\ FileOK(spool', damaged)
  /\ EventsOf(spool') \subseteq EventsOf(spool)
  /\ EventsOf(spool) \ EventsOf(spool') \subseteq done \cup damaged
  /\ batch' \in Seq(Line) /\ at' \in 0..Len(batch')
  /\ PassOK(batch', at', spool', done, damaged)
  /\ faults' \in 0..MaxFaults /\ faults <= faults'
  /\ Slack(spool') <= Slack(spool)

LEMMA SlackIs == \A file : Slack(file) \in 0..2
BY DEF Slack

LEMMA EndPassOK ==
  ASSUME FileOK(spool, damaged), faults \in 0..MaxFaults, NEW lines \in Seq(Line),
         NEW i \in 1..(Len(lines) + 1), NEW done, Consumed(lines, i, done), EndPass(lines, i)
  PROVE  PassStep(done)
<1>1. /\ batch' = <<>> /\ at' = 0
      /\ faults' = faults \/ (faults < MaxFaults /\ faults' = faults + 1)
      /\ \/ spool' = spool
         \/ spool' \in Removed(spool, SubSeq(lines, 1, i - 1))
  BY DEF EndPass
<1>2. faults' \in 0..MaxFaults /\ faults <= faults'
  BY <1>1, SpoolAssumption
<1>3. batch' \in Seq(Line) /\ at' \in 0..Len(batch') /\ PassOK(batch', at', spool', done, damaged)
  BY <1>1 DEF PassOK
<1>4. CASE spool' = spool
  BY <1>2, <1>3, <1>4, SlackIs DEF PassStep
<1>5. CASE spool' \in Removed(spool, SubSeq(lines, 1, i - 1))
  <2> DEFINE consumed == SubSeq(lines, 1, i - 1)
  <2>1. /\ consumed \in Seq(Line) /\ Len(consumed) = i - 1
        /\ \A j \in 1..(i - 1) : consumed[j] = lines[j]
    OBVIOUS
  <2>2. DOMAIN consumed = 1..(i - 1)
    BY <2>1, LenProperties
  <2>3. \A c \in Range(consumed) : Parses(c) => Head(c.events) \in done
    BY <2>1, <2>2 DEF Range, Consumed
  <2>4. spool' \in Removed(spool, consumed)
    BY <1>5
  <2>a. consumed \in Seq(Line) /\ FileOK(spool, damaged)
    BY <2>1
  <2> HIDE DEF consumed
  <2>5. /\ FileOK(spool', damaged)
        /\ EventsOf(spool') \subseteq EventsOf(spool)
        /\ EventsOf(spool) \ EventsOf(spool') \subseteq done \cup damaged
        /\ \A k \in DOMAIN spool' : ~spool'[k].open
    <3>1. Shrunk(spool', spool, done, damaged)
      BY <2>a, <2>3, <2>4, RemovedOK
    <3> QED
      BY <3>1 DEF Shrunk
  <2>6. Slack(spool') = 0
    <3>1. spool' \in Seq(Line)
      BY <2>5 DEF FileOK, LinesOK
    <3>2. spool' # <<>> => ~Last(spool').open
      BY <2>5, <3>1, LastIs
    <3> QED
      BY <3>2 DEF Slack
  <2> QED
    BY <1>2, <1>3, <2>5, <2>6, SlackIs DEF PassStep
<1> QED
  BY <1>1, <1>4, <1>5

LEMMA ContinueOK ==
  ASSUME FileOK(spool, damaged), faults \in 0..MaxFaults, NEW lines \in Seq(Line),
         LinesOK(lines, damaged), Sorted(lines), Window(lines, spool),
         NEW i \in 1..(Len(lines) + 1), NEW done, Consumed(lines, i, done), Continue(lines, i)
  PROVE  PassStep(done)
<1>0. Len(lines) \in Nat /\ DOMAIN lines = 1..Len(lines)
  BY LenProperties
<1>1. PICK j \in i..(Len(lines) + 1) :
        /\ \A k \in i..(j - 1) : ~Parses(lines[k])
        /\ \/ j > Len(lines) /\ EndPass(lines, j)
           \/ /\ j <= Len(lines)
              /\ Parses(lines[j])
              /\ batch' = lines
              /\ at' = j
              /\ UNCHANGED <<spool, faults>>
  BY DEF Continue
<1>2. j \in 1..(Len(lines) + 1)
  BY <1>0
<1>3. Consumed(lines, j, done)
  <2> SUFFICES ASSUME NEW k \in 1..(j - 1), Parses(lines[k]) PROVE Head(lines[k].events) \in done
    BY DEF Consumed
  <2>1. k \notin i..(j - 1)
    BY <1>1
  <2>2. k \in 1..(i - 1)
    BY <1>0, <2>1
  <2> QED
    BY <2>2 DEF Consumed
<1>4. CASE EndPass(lines, j)
  BY <1>2, <1>3, <1>4, EndPassOK
<1>5. CASE /\ j <= Len(lines)
           /\ Parses(lines[j])
           /\ batch' = lines
           /\ at' = j
           /\ UNCHANGED <<spool, faults>>
  <2>1. j \in DOMAIN lines /\ at' \in 0..Len(batch')
    BY <1>0, <1>2, <1>5
  <2>2. PassOK(batch', at', spool', done, damaged)
    BY <1>3, <1>5, <2>1 DEF PassOK
  <2> QED
    BY <1>5, <2>1, <2>2, SlackIs DEF PassStep
<1> QED
  BY <1>1, <1>4, <1>5

-----------------------------------------------------------------------------
(* Every step keeps the invariant.                                         *)

LEMMA PassKeeps ==
  ASSUME IInv, PassStep(received' \cup refused'),
         UNCHANGED <<emitted, damaged, accepted, restarts>>,
         received \subseteq received', refused \subseteq refused',
         received' \subseteq accepted, refused' \subseteq accepted, InOrder'
  PROVE  IInv'
<1>0. TypeOK
  BY DEF IInv
<1>1. spool' \in Seq(Line) /\ OpenLast(spool')
  BY DEF PassStep, FileOK, LinesOK
<1>2. /\ IsFiniteSet(EventsOf(spool)) /\ IsFiniteSet(damaged)
  <2>0. /\ EventsOf(spool) \subseteq accepted /\ damaged \subseteq accepted
        /\ accepted \subseteq 1..emitted /\ emitted \in 0..MaxEvents
    BY <1>0 DEF TypeOK
  <2>1. EventsOf(spool) \subseteq 1..emitted /\ damaged \subseteq 1..emitted /\ emitted \in Int
    <3>1. emitted \in Int
      BY <2>0, SpoolAssumption
    <3> QED
      BY <2>0, <3>1, Zenon
  <2>2. IsFiniteSet(1..emitted)
    BY <2>1, FS_Interval
  <2> QED
    BY <2>1, <2>2, FS_Subset
<1>3. Cardinality(EventsOf(spool')) <= HardCap
  <2>1. /\ Cardinality(EventsOf(spool')) <= Cardinality(EventsOf(spool))
        /\ Cardinality(EventsOf(spool')) \in Nat /\ Cardinality(EventsOf(spool)) \in Nat
    BY <1>2, FS_Subset, FS_CardinalityType DEF PassStep
  <2>2. Cardinality(EventsOf(spool)) <= HardCap
    BY <1>0 DEF TypeOK
  <2> QED
    BY <2>1, <2>2, SpoolAssumption
<1>4. TypeOK'
  BY <1>0, <1>1, <1>3 DEF TypeOK, OpenLast, PassStep
<1>5. CostOK'
  <2>1. Cardinality(damaged) \in Nat
    BY <1>2, FS_CardinalityType
  <2>2. Cardinality(damaged) + Slack(spool) <= 2 * faults
    BY DEF CostOK, IInv
  <2>3. faults \in Nat /\ faults' \in Nat /\ faults <= faults'
    BY <1>0, SpoolAssumption DEF TypeOK, PassStep
  <2>4. Slack(spool) \in Nat /\ Slack(spool') \in Nat /\ Slack(spool') <= Slack(spool)
    BY SlackIs DEF PassStep
  <2> QED
    BY <2>1, <2>2, <2>3, <2>4 DEF CostOK
<1>6. Accounted'
  BY DEF Accounted, IInv, PassStep
<1>7. FileOK(spool, damaged)' /\ PassOK(batch, at, spool, received \cup refused, damaged)'
  BY DEF PassStep
<1> QED
  BY <1>4, <1>5, <1>6, <1>7 DEF IInv

\* Facts about the event being posted.
LEMMA PostingIs ==
  ASSUME IInv, batch # <<>>
  PROVE  /\ Posting \in EventsOf(spool) /\ Posting \in accepted
         /\ \A d \in accepted : d < Posting => d \in received \cup refused \cup damaged
         /\ \A done : /\ received \cup refused \subseteq done
                      /\ Posting \in done
                      => Consumed(batch, at + 1, done)
         /\ batch \in Seq(Line) /\ at \in DOMAIN batch /\ at \in 1..Len(batch)
         /\ LinesOK(batch, damaged) /\ Sorted(batch) /\ Window(batch, spool)
         /\ Consumed(batch, at, received \cup refused)
<1>1. /\ batch \in Seq(Line) /\ at \in DOMAIN batch
      /\ LinesOK(batch, damaged) /\ Sorted(batch) /\ Window(batch, spool)
      /\ Consumed(batch, at, received \cup refused)
      /\ Parses(batch[at])
  BY DEF IInv, PassOK, LinesOK
<1>2. DOMAIN batch = 1..Len(batch) /\ Len(batch) \in Nat
  BY <1>1, LenProperties
<1>3. Range(batch[at].events) = {Posting} /\ Posting \in Events
  <2>1. batch[at] \in Line
    BY <1>1
  <2> QED
    BY <1>1, <2>1, HeadOfParsed DEF Posting
<1>4. Posting \in EventsOf(batch)
  BY <1>1, <1>3, EventsOfIn
<1>5. Posting \in EventsOf(spool) /\ Posting \in accepted
  BY <1>1, <1>4 DEF Window, IInv, TypeOK
<1>6. ASSUME NEW d \in accepted, d < Posting
      PROVE  d \in received \cup refused \cup damaged
  <2>1. CASE d \notin EventsOf(spool)
    BY <1>6, <2>1 DEF IInv, Accounted
  <2>2. CASE d \in EventsOf(spool)
    <3>1. d \in EventsOf(batch)
      BY <1>1, <1>4, <1>6, <2>2 DEF Window
    <3>2. PICK j \in DOMAIN batch : d \in Range(batch[j].events)
      BY <1>1, <3>1, EventsOfIn
    <3>3. j # at
      <4> SUFFICES ASSUME j = at PROVE FALSE
        OBVIOUS
      <4>1. d = Posting
        BY <1>3, <3>2
      <4> QED
        BY <1>3, <1>6, <4>1 DEF Events
    <3>4. ~(at < j)
      <4> SUFFICES ASSUME at < j PROVE FALSE
        OBVIOUS
      <4>1. Posting < d
        BY <1>1, <1>3, <3>2 DEF Sorted
      <4>2. d \in Int /\ Posting \in Int
        BY <1>1, <1>3, <3>1, EventsOfIn DEF Events
      <4> QED
        BY <1>6, <4>1, <4>2
    <3>5. j \in 1..(at - 1)
      BY <1>1, <1>2, <3>3, <3>4
    <3>6. CASE Parses(batch[j])
      <4>0. batch[j] \in Line
        BY <1>1
      <4>1. d = Head(batch[j].events)
        BY <3>2, <3>6, <4>0, HeadOfParsed
      <4> QED
        BY <1>1, <3>5, <3>6, <4>1 DEF Consumed
    <3>7. CASE ~Parses(batch[j])
      BY <1>1, <3>2, <3>7 DEF LinesOK
    <3> QED
      BY <3>6, <3>7
  <2> QED
    BY <2>1, <2>2
<1>7. ASSUME NEW done, received \cup refused \subseteq done, Posting \in done
      PROVE  Consumed(batch, at + 1, done)
  <2>1. (at + 1) - 1 = at
    BY <1>1, <1>2
  <2>2. ASSUME NEW k \in 1..at, Parses(batch[k]) PROVE Head(batch[k].events) \in done
    <3>1. CASE k = at
      BY <1>7, <3>1 DEF Posting
    <3>2. CASE k \in 1..(at - 1)
      BY <1>1, <1>7, <2>2, <3>2 DEF Consumed
    <3> QED
      BY <1>1, <1>2, <3>1, <3>2
  <2> QED
    BY <2>1, <2>2 DEF Consumed
<1> QED
  BY <1>1, <1>2, <1>5, <1>6, <1>7

\* The four steps of a pass keep the invariant and strike off only what was answered.
LEMMA DrainOK ==
  ASSUME IInv, Drain
  PROVE  /\ PassStep(received' \cup refused')
         /\ UNCHANGED <<emitted, damaged, accepted, restarts>>
         /\ \/ UNCHANGED <<received, refused>>
            \/ /\ batch # <<>>
               /\ received' = received \cup {Posting}
               /\ UNCHANGED refused
            \/ /\ batch # <<>>
               /\ refused' = refused \cup {Posting}
               /\ UNCHANGED received
<1>1. FileOK(spool, damaged) /\ faults \in 0..MaxFaults /\ spool \in Seq(Line)
  BY DEF IInv, TypeOK
<1>2. CASE StartPass
  <2> DEFINE size == IF Len(spool) < BatchMax THEN Len(spool) ELSE BatchMax
             head == SubSeq(spool, 1, size)
  <2>1. Len(spool) \in Nat /\ DOMAIN spool = 1..Len(spool)
    BY <1>1, LenProperties
  <2>2. size \in Nat /\ size <= Len(spool)
    BY <2>1, SpoolAssumption
  <2>3. /\ Continue(head, 1)
        /\ UNCHANGED <<emitted, received, refused, damaged, accepted, restarts>>
    BY <1>2 DEF StartPass
  <2> HIDE DEF size
  <2>4. /\ head \in Seq(Line) /\ Len(head) = size
        /\ \A i \in 1..size : head[i] = spool[i]
    BY <1>1, <2>1, <2>2
  <2> HIDE DEF head
  <2>5. DOMAIN head = 1..size /\ \A i \in 1..size : i \in DOMAIN spool
    BY <2>1, <2>2, <2>4, LenProperties
  <2>6. LinesOK(head, damaged) /\ Sorted(head)
    BY <1>1, <2>4, <2>5 DEF FileOK, LinesOK, Sorted
  <2>7. Window(head, spool)
    <3>1. EventsOf(head) \subseteq EventsOf(spool)
      <4> SUFFICES ASSUME NEW x \in EventsOf(head) PROVE x \in EventsOf(spool)
        OBVIOUS
      <4>1. PICK i \in 1..size : x \in Range(head[i].events)
        BY <2>4, <2>5, EventsOfIn
      <4> QED
        BY <1>1, <2>4, <2>5, <4>1, EventsOfIn
    <3>2. ASSUME NEW d \in EventsOf(spool), NEW x \in EventsOf(head), d < x
          PROVE  d \in EventsOf(head)
      <4>1. PICK i \in 1..size : x \in Range(head[i].events)
        BY <2>4, <2>5, EventsOfIn
      <4>2. PICK k \in DOMAIN spool : d \in Range(spool[k].events)
        BY <1>1, EventsOfIn
      <4>3. x \in Range(spool[i].events) /\ i \in DOMAIN spool
        BY <2>4, <2>5, <4>1
      <4>4. d \in Int /\ x \in Int
        BY <1>1, <2>4, EventsOfIn DEF Events
      <4>5. ~(i < k)
        <5> SUFFICES ASSUME i < k PROVE FALSE
          OBVIOUS
        <5>1. x < d
          BY <1>1, <4>2, <4>3 DEF FileOK, Sorted
        <5> QED
          BY <3>2, <4>4, <5>1
      <4>6. k \in 1..size
        BY <2>1, <2>2, <4>5
      <4> QED
        BY <2>4, <2>5, <4>2, <4>6, EventsOfIn
    <3> QED
      BY <3>1, <3>2 DEF Window
  <2>8. Consumed(head, 1, received' \cup refused') /\ 1 \in 1..(Len(head) + 1)
    BY <2>2, <2>4 DEF Consumed
  <2>9. PassStep(received' \cup refused')
    BY <1>1, <2>3, <2>4, <2>6, <2>7, <2>8, ContinueOK
  <2> QED
    BY <2>3, <2>9
<1>3. ASSUME batch # <<>>, Continue(batch, at + 1), Posting \in received' \cup refused',
             received \cup refused \subseteq received' \cup refused'
      PROVE  PassStep(received' \cup refused')
  <2>1. /\ Consumed(batch, at + 1, received' \cup refused')
        /\ batch \in Seq(Line) /\ at \in 1..Len(batch)
        /\ LinesOK(batch, damaged) /\ Sorted(batch) /\ Window(batch, spool)
    BY <1>3, PostingIs
  <2>2. at + 1 \in 1..(Len(batch) + 1)
    BY <2>1, LenProperties
  <2> QED
    BY <1>1, <1>3, <2>1, <2>2, ContinueOK
<1>4. CASE Delivered
  BY <1>3, <1>4 DEF Delivered
<1>5. CASE Poisoned
  BY <1>3, <1>5 DEF Poisoned
<1>6. CASE Transient
  <2>1. /\ batch # <<>> /\ EndPass(batch, at)
        /\ received' \in {received, received \cup {Posting}}
        /\ UNCHANGED <<emitted, refused, damaged, accepted, restarts>>
    BY <1>6 DEF Transient, AfterTransient
  <2>2. /\ Consumed(batch, at, received \cup refused)
        /\ batch \in Seq(Line) /\ at \in 1..Len(batch)
    BY <2>1, PostingIs
  <2>3. at \in 1..(Len(batch) + 1)
    BY <2>2, LenProperties
  <2>4. Consumed(batch, at, received' \cup refused')
    BY <2>1, <2>2 DEF Consumed
  <2>5. PassStep(received' \cup refused')
    BY <1>1, <2>1, <2>2, <2>3, <2>4, EndPassOK
  <2> QED
    BY <2>1, <2>5
<1> QED
  BY <1>2, <1>4, <1>5, <1>6 DEF Drain

LEMMA DrainKeeps ==
  ASSUME IInv, Drain
  PROVE  IInv'
<1>1. received \subseteq received' /\ refused \subseteq refused'
  BY DrainOK
<1>2. received' \subseteq accepted /\ refused' \subseteq accepted
  BY DrainOK, PostingIs DEF IInv, TypeOK
<1>3. InOrder'
  <2> SUFFICES ASSUME NEW e \in received' \cup refused', NEW d \in accepted, d < e
               PROVE  d \in received' \cup refused' \cup damaged
    BY DrainOK DEF InOrder
  <2>1. CASE e \in received \cup refused
    BY <1>1, <2>1 DEF IInv, InOrder
  <2>2. CASE e \notin received \cup refused
    <3>1. batch # <<>> /\ e = Posting
      BY <2>2, DrainOK
    <3> QED
      BY <1>1, <3>1, PostingIs
  <2> QED
    BY <2>1, <2>2
<1> QED
  BY <1>1, <1>2, <1>3, DrainOK, PassKeeps

-----------------------------------------------------------------------------
(* Appends.                                                                *)

LEMMA AddOne ==
  ASSUME NEW S, IsFiniteSet(S), NEW x
  PROVE  /\ IsFiniteSet(S \cup {x})
         /\ Cardinality(S) \in Nat /\ Cardinality(S \cup {x}) \in Nat
         /\ Cardinality(S \cup {x}) <= Cardinality(S) + 1
<1>1. IsFiniteSet(S \cup {x}) /\ Cardinality(S) \in Nat
  BY FS_AddElement, FS_CardinalityType
<1>2. Cardinality(S \cup {x}) = IF x \in S THEN Cardinality(S) ELSE Cardinality(S) + 1
  BY FS_AddElement
<1> QED
  BY <1>1, <1>2, FS_CardinalityType

\* What an append brings about, with a failure of the disk or without.
LEMMA SpoolIs ==
  ASSUME IInv, NEW cut \in Cuts, NEW open \in BOOLEAN, Spool(cut, open), NEW e, e = emitted + 1
  PROVE  /\ e \in Events /\ e \notin accepted /\ \A x \in accepted : x < e
         /\ emitted' = e /\ accepted' = accepted \cup {e}
         /\ damaged' = damaged \cup
              (IF Parses(Last(spool')) THEN {} ELSE Range(Last(spool').events))
         /\ UNCHANGED <<batch, at, received, refused, restarts>>
         /\ spool' \in Seq(Line) /\ spool' # <<>>
         /\ EventsOf(spool') = EventsOf(spool) \cup {e}
         /\ Cardinality(EventsOf(spool')) <= HardCap
         /\ Last(spool').open = open
         /\ Range(Last(spool').events) \subseteq EventsOf(spool')
         /\ FileOK(spool', damaged')
         /\ \/ /\ Slack(spool) = 0
               /\ Range(Last(spool').events) = {e}
               /\ Parses(Last(spool')) <=> cut = "no"
            \/ /\ spool # <<>> /\ Last(spool).open
               /\ Range(Last(spool').events) = Range(Last(spool).events) \cup {e}
               /\ ~Parses(Last(spool'))
<1>1. /\ HasRoom /\ emitted < MaxEvents
      /\ emitted' = e /\ accepted' = accepted \cup {e}
      /\ spool' = Written(spool, e, cut, open)
      /\ damaged' = damaged \cup
           (IF Parses(Last(spool')) THEN {} ELSE Range(Last(spool').events))
      /\ UNCHANGED <<batch, at, received, refused, restarts>>
  BY DEF Spool
<1>2. /\ emitted \in 0..MaxEvents /\ accepted \subseteq 1..emitted
      /\ EventsOf(spool) \subseteq accepted
  BY DEF IInv, TypeOK
<1>3. e \in Events /\ \A x \in accepted : x < e
  BY <1>1, <1>2, SpoolAssumption DEF Events
<1>4. e \notin accepted
  BY <1>3 DEF Events
<1>5. FileOK(spool, damaged) /\ \A x \in EventsOf(spool) : x < e
  BY <1>2, <1>3 DEF IInv
<1>6. Appended(spool', spool, e, cut, open, damaged)
  BY <1>1, <1>3, <1>5, WrittenOK
<1>7. Cardinality(EventsOf(spool')) <= HardCap
  <2>1. IsFiniteSet(EventsOf(spool))
    <3>1. emitted \in Int /\ 1 \in Int
      BY <1>2, SpoolAssumption
    <3>2. IsFiniteSet(1..emitted)
      BY <3>1, FS_Interval
    <3>3. EventsOf(spool) \subseteq 1..emitted
      BY <1>2, Zenon
    <3> QED
      BY <3>2, <3>3, FS_Subset
  <2>2. Cardinality(EventsOf(spool)) + 1 <= HardCap
    BY <1>1 DEF HasRoom
  <2>3. /\ Cardinality(EventsOf(spool)) \in Nat /\ Cardinality(EventsOf(spool')) \in Nat
        /\ Cardinality(EventsOf(spool')) <= Cardinality(EventsOf(spool)) + 1
    BY <1>6, <2>1, AddOne DEF Appended
  <2> QED
    BY <2>2, <2>3, SpoolAssumption
<1> QED
  BY <1>1, <1>3, <1>4, <1>6, <1>7 DEF Appended

\* The disk's failures pay for what they damage.
LEMMA SpoolCost ==
  ASSUME IInv, NEW cut \in Cuts, NEW open \in BOOLEAN, Spool(cut, open),
         \/ cut = "no" /\ ~open /\ faults' = faults
         \/ open /\ faults' = faults + 1
  PROVE  CostOK'
<1> DEFINE e == emitted + 1
           old == Range(Last(spool).events)
<1>1. /\ damaged' = damaged \cup
           (IF Parses(Last(spool')) THEN {} ELSE Range(Last(spool').events))
      /\ spool' # <<>> /\ Last(spool').open = open
      /\ \/ /\ Slack(spool) = 0
            /\ Range(Last(spool').events) = {e}
            /\ Parses(Last(spool')) <=> cut = "no"
         \/ /\ spool # <<>> /\ Last(spool).open
            /\ Range(Last(spool').events) = old \cup {e}
            /\ ~Parses(Last(spool'))
  BY SpoolIs
<1>2. IsFiniteSet(damaged) /\ Cardinality(damaged) \in Nat
  <2>1. emitted \in Int /\ 1 \in Int
    BY SpoolAssumption DEF IInv, TypeOK
  <2>2. damaged \subseteq 1..emitted
    BY Zenon DEF IInv, TypeOK
  <2> QED
    BY <2>1, <2>2, FS_Interval, FS_Subset, FS_CardinalityType
<1>3. Cardinality(damaged) + Slack(spool) <= 2 * faults /\ faults \in Nat
  BY SpoolAssumption DEF IInv, CostOK, TypeOK
<1>4. Slack(spool') = IF open THEN IF Parses(Last(spool')) THEN 2 ELSE 1 ELSE 0
  BY <1>1 DEF Slack
<1>5. CASE Parses(Last(spool'))
  <2>1. damaged' = damaged /\ Slack(spool) = 0
    BY <1>1, <1>5
  <2> QED
    BY <1>2, <1>3, <1>4, <2>1 DEF CostOK
<1>6. CASE ~Parses(Last(spool')) /\ Slack(spool) = 0 /\ Range(Last(spool').events) = {e}
  <2>1. damaged' = damaged \cup {e} /\ Slack(spool') <= 1
    BY <1>1, <1>4, <1>6
  <2>2. Cardinality(damaged') <= Cardinality(damaged) + 1 /\ Cardinality(damaged') \in Nat
    BY <1>2, <2>1, AddOne
  <2>3. open /\ faults' = faults + 1
    <3>1. cut # "no"
      <4>1. CASE Parses(Last(spool')) <=> cut = "no"
        BY <1>6, <4>1
      <4>2. CASE spool # <<>> /\ Last(spool).open
        BY <1>6, <4>2 DEF Slack
      <4> QED
        BY <1>1, <4>1, <4>2, Zenon
    <3> QED
      BY <3>1
  <2>4. Slack(spool') = 1
    BY <1>4, <1>6, <2>3
  <2> QED
    BY <1>2, <1>3, <1>6, <2>2, <2>3, <2>4 DEF CostOK
<1>7. CASE /\ spool # <<>> /\ Last(spool).open
           /\ Range(Last(spool').events) = old \cup {e}
           /\ ~Parses(Last(spool'))
  <2>1. damaged' = (damaged \cup old) \cup {e}
    BY <1>1, <1>7
  <2>2. /\ spool \in Seq(Line) /\ Last(spool) \in Line
        /\ ~Parses(Last(spool)) => old \subseteq damaged
    <3>1. spool \in Seq(Line) /\ LinesOK(spool, damaged)
      BY DEF IInv, FileOK, LinesOK
    <3>2. Last(spool) = spool[Len(spool)] /\ Len(spool) \in DOMAIN spool /\ Last(spool) \in Line
      BY <1>7, <3>1, LastIs
    <3> QED
      BY <3>1, <3>2 DEF LinesOK
  <2>3. /\ IsFiniteSet(damaged \cup old) /\ Cardinality(damaged \cup old) \in Nat
        /\ Cardinality(damaged \cup old) + 1 <= Cardinality(damaged) + Slack(spool)
    <3>1. CASE Parses(Last(spool))
      <4>1. old = {Head(Last(spool).events)}
        BY <2>2, <3>1, HeadOfParsed
      <4>2. Slack(spool) = 2
        BY <1>7, <3>1 DEF Slack
      <4>3. /\ IsFiniteSet(damaged \cup {Head(Last(spool).events)})
            /\ Cardinality(damaged \cup {Head(Last(spool).events)}) \in Nat
            /\ Cardinality(damaged \cup {Head(Last(spool).events)}) <= Cardinality(damaged) + 1
        BY <1>2, AddOne
      <4> HIDE DEF old
      <4>4. /\ IsFiniteSet(damaged \cup old) /\ Cardinality(damaged \cup old) \in Nat
            /\ Cardinality(damaged \cup old) <= Cardinality(damaged) + 1
        BY <4>1, <4>3
      <4> QED
        BY <1>2, <4>2, <4>4
    <3>2. CASE ~Parses(Last(spool))
      <4>1. damaged \cup old = damaged
        BY <2>2, <3>2
      <4>2. Slack(spool) = 1
        BY <1>7, <3>2 DEF Slack
      <4> HIDE DEF old
      <4>3. /\ IsFiniteSet(damaged \cup old) /\ Cardinality(damaged \cup old) \in Nat
            /\ Cardinality(damaged \cup old) = Cardinality(damaged)
        BY <1>2, <4>1
      <4> QED
        BY <1>2, <4>2, <4>3
    <3> QED
      BY <3>1, <3>2
  <2>4. /\ Cardinality(damaged') \in Nat
        /\ Cardinality(damaged') <= Cardinality(damaged) + Slack(spool)
    <3>1. /\ Cardinality((damaged \cup old) \cup {e}) \in Nat
          /\ Cardinality((damaged \cup old) \cup {e}) <= Cardinality(damaged \cup old) + 1
      BY <2>3, AddOne
    <3> QED
      BY <1>2, <2>1, <2>3, <3>1, SlackIs
  <2>5. Slack(spool') = IF open THEN 1 ELSE 0
    BY <1>4, <1>7
  <2> QED
    BY <1>2, <1>3, <2>4, <2>5, SlackIs DEF CostOK
<1> QED
  BY <1>1, <1>5, <1>6, <1>7

LEMMA SpoolKeeps ==
  ASSUME IInv, NEW cut \in Cuts, NEW open \in BOOLEAN, Spool(cut, open),
         \/ cut = "no" /\ ~open /\ faults' = faults
         \/ open /\ faults' = faults + 1 /\ faults < MaxFaults
  PROVE  IInv'
<1> DEFINE e == emitted + 1
<1>1. /\ e \in Events /\ e \notin accepted /\ \A x \in accepted : x < e
      /\ emitted' = e /\ accepted' = accepted \cup {e}
      /\ damaged' = damaged \cup
              (IF Parses(Last(spool')) THEN {} ELSE Range(Last(spool').events))
      /\ UNCHANGED <<batch, at, received, refused, restarts>>
      /\ spool' \in Seq(Line)
      /\ EventsOf(spool') = EventsOf(spool) \cup {e}
      /\ Cardinality(EventsOf(spool')) <= HardCap
      /\ Range(Last(spool').events) \subseteq EventsOf(spool')
      /\ FileOK(spool', damaged')
  BY SpoolIs
<1>2. TypeOK /\ CostOK'
  BY SpoolCost DEF IInv
<1> HIDE DEF e
<1>3. damaged \subseteq damaged' /\ damaged' \subseteq accepted'
  BY <1>1, <1>2 DEF TypeOK
<1>4. TypeOK'
  <2>1. accepted' \subseteq 1..emitted' /\ emitted' \in 0..MaxEvents
    <3>1. accepted \subseteq 1..emitted /\ emitted \in Nat
      BY <1>2, SpoolAssumption DEF TypeOK
    <3>2. emitted' = emitted + 1 /\ emitted' \in 1..MaxEvents
      BY <1>1 DEF Events, e
    <3>3. \A x \in 1..emitted : x \in 1..emitted'
      BY <3>1, <3>2
    <3>4. e \in 1..emitted' /\ emitted' \in 0..MaxEvents
      BY <1>1, <3>1, <3>2, SpoolAssumption
    <3> QED
      BY <1>1, <3>1, <3>3, <3>4
  <2>2. faults' \in 0..MaxFaults
    BY <1>2, SpoolAssumption DEF TypeOK
  <2>3. OpenLast(spool')
    BY <1>1 DEF FileOK
  <2> QED
    BY <1>1, <1>2, <1>3, <2>1, <2>2, <2>3 DEF TypeOK, OpenLast
<1>5. PassOK(batch, at, spool, received \cup refused, damaged)'
  <2> SUFFICES ASSUME batch # <<>>
               PROVE  /\ LinesOK(batch, damaged') /\ Sorted(batch)
                      /\ Window(batch, spool')
                      /\ at \in DOMAIN batch
                      /\ Parses(batch[at])
                      /\ Consumed(batch, at, received \cup refused)
    BY <1>1 DEF PassOK
  <2>1. /\ LinesOK(batch, damaged) /\ Sorted(batch)
        /\ Window(batch, spool)
        /\ at \in DOMAIN batch
        /\ Parses(batch[at])
        /\ Consumed(batch, at, received \cup refused)
    BY DEF IInv, PassOK
  <2>2. LinesOK(batch, damaged')
    BY <1>3, <2>1 DEF LinesOK
  <2>3. Window(batch, spool')
    <3>1. EventsOf(batch) \subseteq EventsOf(spool) /\ EventsOf(spool) \subseteq accepted
      BY <1>2, <2>1 DEF Window, TypeOK
    <3>2. ASSUME NEW d \in EventsOf(spool'), NEW x \in EventsOf(batch), d < x
          PROVE  d \in EventsOf(batch)
      <4>1. CASE d \in EventsOf(spool)
        BY <2>1, <3>2, <4>1 DEF Window
      <4>2. CASE d = e
        <5>1. x < e /\ e < x
          BY <1>1, <3>1, <3>2, <4>2
        <5>2. x \in Int /\ e \in Int
          <6>1. batch \in Seq(Line)
            BY <1>2 DEF TypeOK
          <6> QED
            BY <1>1, <6>1, EventsOfIn DEF Events
        <5> QED
          BY <5>1, <5>2
      <4> QED
        BY <1>1, <4>1, <4>2
    <3> QED
      BY <1>1, <3>1, <3>2 DEF Window
  <2> QED
    BY <2>1, <2>2, <2>3
<1>6. Accounted'
  BY <1>1, <1>3 DEF IInv, Accounted
<1>7. InOrder'
  <2> SUFFICES ASSUME NEW x \in received \cup refused, NEW d \in accepted', d < x
               PROVE  d \in received \cup refused \cup damaged'
    BY <1>1 DEF InOrder
  <2>1. x \in accepted
    BY <1>2 DEF TypeOK
  <2>2. CASE d \in accepted
    BY <1>3, <2>2 DEF IInv, InOrder
  <2>3. CASE d = e
    <3>1. x < e /\ e < x /\ x \in Int /\ e \in Int
      <4>1. accepted \subseteq Nat
        BY <1>2 DEF TypeOK
      <4> QED
        BY <1>1, <2>1, <2>3, <4>1 DEF Events
    <3> QED
      BY <3>1
  <2> QED
    BY <1>1, <2>2, <2>3
<1> QED
  BY <1>1, <1>2, <1>4, <1>5, <1>6, <1>7 DEF IInv

-----------------------------------------------------------------------------
(* The invariant is inductive.                                             *)

LEMMA InitEstablishes == Init => IInv
<1> SUFFICES ASSUME Init PROVE IInv
  OBVIOUS
<1>1. /\ emitted = 0 /\ spool = <<>> /\ batch = <<>> /\ at = 0
      /\ received = {} /\ refused = {} /\ damaged = {} /\ accepted = {}
      /\ faults = 0 /\ restarts = 0
  BY DEF Init
<1>2. /\ DOMAIN spool = {} /\ Len(spool) = 0 /\ spool \in Seq(Line) /\ batch \in Seq(Line)
  BY <1>1
<1>3. EventsOf(spool) = {}
  BY <1>2, EventsOfIn
<1>4. Cardinality(EventsOf(spool)) = 0 /\ Cardinality(damaged) = 0
  BY <1>1, <1>3, FS_EmptySet
<1>5. TypeOK
  <2>1. \A i \in 1..(Len(spool) - 1) : ~spool[i].open
    BY <1>2
  <2> QED
    BY <1>1, <1>2, <1>3, <1>4, <2>1, SpoolAssumption DEF TypeOK
<1>6. FileOK(spool, damaged)
  BY <1>2 DEF FileOK, LinesOK, Sorted, OpenLast
<1>7. CostOK
  BY <1>1, <1>4 DEF CostOK, Slack
<1> QED
  BY <1>1, <1>5, <1>6, <1>7 DEF IInv, PassOK, Accounted, InOrder

LEMMA NextKeeps == IInv /\ [Next]_vars => IInv'
<1> SUFFICES ASSUME IInv, [Next]_vars PROVE IInv'
  OBVIOUS
<1>1. CASE Emit
  <2>1. "no" \in Cuts /\ FALSE \in BOOLEAN
    BY DEF Cuts
  <2>2. Spool("no", FALSE) /\ faults' = faults
    BY <1>1 DEF Emit
  <2> QED
    BY <2>1, <2>2, SpoolKeeps
<1>2. CASE EmitShort
  <2>1. PICK cut \in Cuts : Spool(cut, TRUE) /\ faults' = faults + 1 /\ faults < MaxFaults
    BY <1>2 DEF EmitShort
  <2> QED
    BY <2>1, SpoolKeeps
<1>3. CASE EmitDropped
  <2>1. /\ emitted < MaxEvents /\ emitted' = emitted + 1
        /\ UNCHANGED <<spool, batch, at, received, refused, damaged, accepted, faults,
                       restarts>>
    BY <1>3 DEF EmitDropped
  <2>2. TypeOK
    BY DEF IInv
  <2>3. accepted \subseteq 1..emitted' /\ emitted' \in 0..MaxEvents
    <3>1. accepted \subseteq 1..emitted /\ emitted \in Nat
      BY <2>2, SpoolAssumption DEF TypeOK
    <3>2. \A x \in 1..emitted : x \in 1..emitted'
      BY <2>1, <3>1
    <3>3. emitted' \in 0..MaxEvents
      BY <2>1, <3>1, SpoolAssumption
    <3> QED
      BY <3>1, <3>2, <3>3
  <2>4. TypeOK'
    BY <2>1, <2>2, <2>3 DEF TypeOK
  <2> QED
    BY <2>1, <2>4 DEF IInv, CostOK, Accounted, InOrder
<1>4. CASE Drain
  BY <1>4, DrainKeeps
<1>5. CASE Restart
  <2>1. /\ restarts < MaxRestarts /\ restarts' = restarts + 1
        /\ batch' = <<>> /\ at' = 0
        /\ UNCHANGED <<emitted, spool, received, refused, damaged, accepted, faults>>
    BY <1>5 DEF Restart
  <2>2. restarts' \in 0..MaxRestarts
    BY <2>1, SpoolAssumption DEF IInv, TypeOK
  <2>3. batch' \in Seq(Line) /\ at' \in 0..Len(batch')
    BY <2>1
  <2>4. TypeOK'
    BY <2>1, <2>2, <2>3 DEF IInv, TypeOK
  <2>5. PassOK(batch, at, spool, received \cup refused, damaged)'
    BY <2>1 DEF PassOK
  <2> QED
    BY <2>1, <2>4, <2>5 DEF IInv, CostOK, Accounted, InOrder
<1>6. CASE UNCHANGED vars
  BY <1>6 DEF vars, IInv, TypeOK, CostOK, Accounted, InOrder
<1> QED
  BY <1>1, <1>2, <1>3, <1>4, <1>5, <1>6 DEF Next

-----------------------------------------------------------------------------
(* The theorems.                                                           *)

\* Type correctness of the spool: the file stays within its cap, and every event in it
\* was accepted.
THEOREM TypeCorrect == Safety => []TypeOK
<1>1. IInv => TypeOK
  BY DEF IInv
<1> QED
  BY <1>1, InitEstablishes, NextKeeps, PTL DEF Safety

\* The receiver never gets an event while an earlier one, neither refused nor damaged, has
\* never reached it.
THEOREM AlwaysInOrder == Safety => []InOrder
<1>1. IInv => InOrder
  BY DEF IInv
<1> QED
  BY <1>1, InitEstablishes, NextKeeps, PTL DEF Safety

\* A failing disk damages at most two events a failure.
THEOREM FaultsCostTwo == Safety => []FaultCostsTwo
<1>1. IInv => FaultCostsTwo
  <2> SUFFICES ASSUME IInv PROVE FaultCostsTwo
    OBVIOUS
  <2>1. Cardinality(damaged) + Slack(spool) <= 2 * faults /\ faults \in Nat
    BY SpoolAssumption DEF IInv, CostOK, TypeOK
  <2>2. Cardinality(damaged) \in Nat
    <3>1. damaged \subseteq 1..emitted /\ emitted \in Int /\ 1 \in Int
      <4>1. damaged \subseteq 1..emitted
        BY Zenon DEF IInv, TypeOK
      <4> QED
        BY <4>1, SpoolAssumption DEF IInv, TypeOK
    <3> QED
      BY <3>1, FS_Interval, FS_Subset, FS_CardinalityType
  <2> QED
    BY <2>1, <2>2, SlackIs DEF FaultCostsTwo
<1> QED
  BY <1>1, InitEstablishes, NextKeeps, PTL DEF Safety

\* A step of the spool is a step of what it promises, or none.
LEMMA StepKeepsPromise ==
  ASSUME IInv, [Next]_vars
  PROVE  [Promise!Next]_(Promise!vars)
<1> USE DEF Promise!vars
<1>1. ASSUME NEW cut \in Cuts, NEW open \in BOOLEAN, Spool(cut, open)
      PROVE  Promise!Next
  <2> DEFINE e == emitted + 1
             worse == IF Parses(Last(spool')) THEN {} ELSE Range(Last(spool').events)
  <2>1. /\ e \in Events /\ e \notin accepted
        /\ damaged' = damaged \cup worse
        /\ UNCHANGED <<received, refused>>
        /\ EventsOf(spool') = EventsOf(spool) \cup {e}
        /\ Range(Last(spool').events) \subseteq EventsOf(spool')
    BY <1>1, SpoolIs
  <2>2. /\ received \subseteq accepted /\ refused \subseteq accepted
        /\ damaged \subseteq accepted /\ EventsOf(spool) \subseteq accepted
    BY DEF IInv, TypeOK
  <2>3. worse \in SUBSET EventsOf(spool')
    BY <2>1
  <2> HIDE DEF e, worse
  <2>4. Promise!Accept(e)
    BY <2>1, <2>2, <2>3 DEF Promise!Accept
  <2> QED
    BY <2>1, <2>4 DEF Promise!Next
<1>2. CASE Emit
  BY <1>1, <1>2 DEF Emit, Cuts
<1>3. CASE EmitShort
  BY <1>1, <1>3 DEF EmitShort
<1>4. CASE Drain
  <2>1. /\ EventsOf(spool') \subseteq EventsOf(spool)
        /\ EventsOf(spool) \ EventsOf(spool') \subseteq received' \cup refused' \cup damaged
        /\ UNCHANGED damaged
    BY <1>4, DrainOK DEF PassStep
  <2>2. Promise!StrikeOff
    BY <2>1 DEF Promise!StrikeOff
  <2>3. CASE UNCHANGED <<received, refused>>
    BY <2>1, <2>2, <2>3 DEF Promise!Next
  <2>4. ASSUME batch # <<>>
        PROVE  Posting \in EventsOf(spool) /\ Posting \in Events
    <3>1. spool \in Seq(Line)
      BY DEF IInv, TypeOK
    <3> QED
      BY <2>4, <3>1, PostingIs, EventsOfIn
  <2>5. CASE batch # <<>> /\ received' = received \cup {Posting} /\ UNCHANGED refused
    <3>1. Promise!Receive(Posting)
      BY <2>1, <2>4, <2>5 DEF Promise!Receive
    <3> QED
      BY <2>2, <2>4, <2>5, <3>1 DEF Promise!Next
  <2>6. CASE batch # <<>> /\ refused' = refused \cup {Posting} /\ UNCHANGED received
    <3>1. Promise!Refuse(Posting)
      BY <2>1, <2>4, <2>6 DEF Promise!Refuse
    <3> QED
      BY <2>2, <2>4, <2>6, <3>1 DEF Promise!Next
  <2> QED
    BY <1>4, <2>3, <2>5, <2>6, DrainOK
<1>5. CASE EmitDropped \/ Restart
  BY <1>5 DEF EmitDropped, Restart
<1>6. CASE UNCHANGED vars
  BY <1>6 DEF vars
<1> QED
  BY <1>2, <1>3, <1>4, <1>5, <1>6 DEF Next

\* The spool implements its promise: an accepted event leaves the file only once the
\* receiver has had it or refused it, or its line was damaged.
THEOREM DeliversAtLeastOnce == Safety => AtLeastOnce
<1>1. Init => Promise!Init
  <2> SUFFICES ASSUME Init PROVE Promise!Init
    OBVIOUS
  <2>1. spool \in Seq(Line) /\ DOMAIN spool = {}
    BY DEF Init
  <2>2. EventsOf(spool) = {}
    BY <2>1, EventsOfIn
  <2> QED
    BY <2>2 DEF Init, Promise!Init
<1>2. IInv /\ [Next]_vars => [Promise!Next]_(Promise!vars)
  BY StepKeepsPromise
<1> QED
  BY <1>1, <1>2, InitEstablishes, NextKeeps, PTL DEF Safety, AtLeastOnce, Promise!Spec
=============================================================================
