------------------------- MODULE SessionLog_proofs -------------------------
(***************************************************************************)
(* Proofs about SessionLog, for any number of processes, spans and files.  *)
(***************************************************************************)
EXTENDS SessionLog, TLAPS, FiniteSetTheorems, WellFoundedInduction

-----------------------------------------------------------------------------
(* Induction, as a fact about a set: what holds of zero and of the successor *)
(* of each number it holds of is the whole of Nat.  It follows from the      *)
(* well-foundedness of the natural numbers.                                  *)

Smaller == {r \in Nat \X Nat : r[1] < r[2]}

\* No set of natural numbers descends for ever.
LEMMA SmallerWellFounded == IsWellFoundedOn(Smaller, Nat)
  BY NatLessThanWellFounded DEF OpToRel, Smaller

\* A set of natural numbers has a least element.
LEMMA LeastNumber ==
    ASSUME NEW T, T \subseteq Nat, T # {} PROVE \E n \in T : \A m \in T : n =< m
<1>1. ASSUME NEW m \in Nat, NEW n \in Nat, m < n PROVE <<m, n>> \in Smaller
  BY <1>1 DEF Smaller
<1>2. PICK n \in T : \A m \in T : ~(<<m, n>> \in Smaller)
  BY SmallerWellFounded, WFMin
<1>3. ASSUME NEW m \in T PROVE n =< m
  <2>1. m \in Nat /\ n \in Nat /\ ~(<<m, n>> \in Smaller)
    BY <1>2
  <2>2. ~(m < n)
    BY <1>1, <2>1
  <2>3. QED
    BY <2>1, <2>2
<1>4. QED
  BY <1>3

\* Hence induction.
LEMMA Induction ==
    ASSUME NEW T, 0 \in T, \A n \in Nat : n \in T => n + 1 \in T PROVE Nat \subseteq T
<1> SUFFICES ASSUME Nat \ T # {} PROVE FALSE
  OBVIOUS
<1>1. PICK n \in Nat \ T : \A m \in Nat \ T : n =< m
  BY LeastNumber
<1>2. n # 0 /\ n \in Nat /\ n - 1 \in Nat
  BY <1>1
<1>3. n - 1 \in T
  BY <1>1, <1>2
<1>4. QED
  BY <1>1, <1>2, <1>3

-----------------------------------------------------------------------------
(* Count is a sum over the spans, taken one chosen span at a time.           *)

First(S) == CHOOSE e \in S : TRUE
Adds(lines, sum, S) ==
    sum[S] = IF S = {} THEN 0 ELSE lines[First(S)] + sum[S \ {First(S)}]

\* A set of spans without its first one is smaller.
LEMMA Rest ==
    ASSUME NEW S \in SUBSET Spans
    PROVE  /\ IsFiniteSet(S) /\ Cardinality(S) \in Nat
           /\ Cardinality(S) = 0 <=> S = {}
           /\ S # {} => /\ First(S) \in S /\ First(S) \in Spans
                        /\ S \ {First(S)} \in SUBSET Spans
                        /\ Cardinality(S \ {First(S)}) = Cardinality(S) - 1
<1>1. IsFiniteSet(S)
  BY FS_Subset, LogAssumption
<1>2. S # {} => First(S) \in S
  BY DEF First
<1>3. S # {} => Cardinality(S \ {First(S)}) = Cardinality(S) - 1
  BY <1>1, <1>2, FS_RemoveElement
<1>4. QED
  BY <1>1, <1>2, <1>3, FS_CardinalityType, FS_EmptySet

\* Induction over the sets of spans.
LEMMA SpanInduction ==
    ASSUME NEW T, {} \in T,
           \A S \in SUBSET Spans : S # {} /\ S \ {First(S)} \in T => S \in T
    PROVE  \A S \in SUBSET Spans : S \in T
<1> DEFINE N == {n \in Nat : \A S \in SUBSET Spans : Cardinality(S) =< n => S \in T}
<1>1. 0 \in N
  <2> SUFFICES ASSUME NEW S \in SUBSET Spans, Cardinality(S) =< 0 PROVE S \in T
    OBVIOUS
  <2>1. Cardinality(S) \in Nat /\ (Cardinality(S) = 0 <=> S = {})
    BY Rest
  <2>2. QED
    BY <2>1
<1>2. ASSUME NEW n \in Nat, n \in N PROVE n + 1 \in N
  <2> SUFFICES ASSUME NEW S \in SUBSET Spans, Cardinality(S) =< n + 1 PROVE S \in T
    OBVIOUS
  <2>1. CASE S = {}
    BY <2>1
  <2>2. CASE S # {}
    <3>1. S \ {First(S)} \in SUBSET Spans /\ Cardinality(S \ {First(S)}) =< n
      BY <2>2, Rest
    <3>2. S \ {First(S)} \in T
      BY <1>2, <3>1
    <3>3. QED
      BY <2>2, <3>2
  <2>3. QED
    BY <2>1, <2>2
<1>3. Nat \subseteq N
  <2> HIDE DEF N
  <2> QED
    BY <1>1, <1>2, Induction
<1>4. ASSUME NEW S \in SUBSET Spans PROVE S \in T
  <2>1. Cardinality(S) \in Nat
    BY Rest
  <2>2. Cardinality(S) \in N /\ Cardinality(S) =< Cardinality(S)
    BY <1>3, <2>1
  <2>3. QED
    BY <2>2
<1>5. QED
  BY <1>4

\* Some function adds up the lines of every set of spans.
LEMMA SumExists ==
    ASSUME NEW lines \in [Spans -> Nat]
    PROVE  \E sum \in [SUBSET Spans -> Nat] : \A S \in SUBSET Spans : Adds(lines, sum, S)
<1> DEFINE Up(sum, n) == \A S \in SUBSET Spans : Cardinality(S) =< n => Adds(lines, sum, S)
           N == {n \in Nat : \E sum \in [SUBSET Spans -> Nat] : Up(sum, n)}
<1>1. 0 \in N
  <2> DEFINE none == [S \in SUBSET Spans |-> 0]
  <2>1. ASSUME NEW S \in SUBSET Spans, Cardinality(S) =< 0 PROVE Adds(lines, none, S)
    <3>1. S = {}
      <4>1. Cardinality(S) \in Nat /\ (Cardinality(S) = 0 <=> S = {})
        BY Rest
      <4>2. QED
        BY <2>1, <4>1
    <3>2. QED
      BY <3>1 DEF Adds
  <2>2. none \in [SUBSET Spans -> Nat]
    OBVIOUS
  <2>3. Up(none, 0)
    BY <2>1
  <2> HIDE DEF none, Up
  <2>4. QED
    BY <2>2, <2>3
<1>2. ASSUME NEW n \in Nat, n \in N PROVE n + 1 \in N
  <2>1. PICK sum \in [SUBSET Spans -> Nat] : Up(sum, n)
    BY <1>2
  <2> DEFINE more == [S \in SUBSET Spans |->
                         IF S = {} THEN 0 ELSE lines[First(S)] + sum[S \ {First(S)}]]
  <2>2. more \in [SUBSET Spans -> Nat]
    <3>1. ASSUME NEW S \in SUBSET Spans, S # {}
          PROVE  lines[First(S)] + sum[S \ {First(S)}] \in Nat
      <4>1. lines[First(S)] \in Nat /\ S \ {First(S)} \in SUBSET Spans
        BY <3>1, Rest
      <4>2. sum[S \ {First(S)}] \in Nat
        BY <4>1
      <4>3. QED
        BY <4>1, <4>2
    <3>2. QED
      BY <3>1
  <2>3. ASSUME NEW S \in SUBSET Spans, Cardinality(S) =< n PROVE more[S] = sum[S]
    BY <2>1, <2>3 DEF Adds
  <2>4. ASSUME NEW S \in SUBSET Spans, Cardinality(S) =< n + 1 PROVE Adds(lines, more, S)
    <3>1. CASE S = {}
      BY <3>1 DEF Adds
    <3>2. CASE S # {}
      <4>1. S \ {First(S)} \in SUBSET Spans /\ Cardinality(S \ {First(S)}) =< n
        BY <2>4, <3>2, Rest
      <4>2. more[S \ {First(S)}] = sum[S \ {First(S)}]
        BY <2>3, <4>1
      <4>3. more[S] = lines[First(S)] + sum[S \ {First(S)}]
        BY <3>2
      <4>4. QED
        BY <3>2, <4>2, <4>3 DEF Adds
    <3>3. QED
      BY <3>1, <3>2
  <2>5. Up(more, n + 1)
    BY <2>4
  <2> HIDE DEF more, Up
  <2>6. QED
    BY <2>2, <2>5
<1>3. Nat \subseteq N
  <2> HIDE DEF N
  <2> QED
    BY <1>1, <1>2, Induction
<1>4. Cardinality(Spans) \in N
  BY <1>3, Rest
<1>5. PICK sum \in [SUBSET Spans -> Nat] : Up(sum, Cardinality(Spans))
  BY <1>4
<1>6. ASSUME NEW S \in SUBSET Spans PROVE Adds(lines, sum, S)
  <2>1. Cardinality(S) =< Cardinality(Spans)
    BY FS_Subset, LogAssumption
  <2>2. QED
    BY <1>5, <2>1
<1>7. QED
  BY <1>6

\* Count is the sum over all the spans of a function that adds them up.
Sum(lines) == CHOOSE sum :
    sum = [S \in SUBSET Spans |->
              IF S = {} THEN 0 ELSE LET e == First(S) IN lines[e] + sum[S \ {e}]]

\* Count is a number, and so is each part of it.
LEMMA CountIsSum ==
    ASSUME NEW lines \in [Spans -> Nat]
    PROVE  /\ Count(lines) = Sum(lines)[Spans]
           /\ \A S \in SUBSET Spans : Sum(lines)[S] \in Nat /\ Adds(lines, Sum(lines), S)
<1>1. Count(lines) = Sum(lines)[Spans]
  BY DEF Count, MapThenSumSet, MapThenFoldSet, First, Sum
<1> DEFINE Def(sum) ==
              sum = [S \in SUBSET Spans |->
                        IF S = {} THEN 0 ELSE LET e == First(S) IN lines[e] + sum[S \ {e}]]
           it == CHOOSE sum : Def(sum)
<1>2. PICK sum \in [SUBSET Spans -> Nat] : \A S \in SUBSET Spans : Adds(lines, sum, S)
  BY SumExists
<1>3. Def(sum)
  BY <1>2 DEF Adds
<1>4. Def(it)
  <2> HIDE DEF Def
  <2> QED
    BY <1>3
<1>5. Sum(lines) = it
  BY DEF Sum
<1> HIDE DEF it
<1>6. \A S \in SUBSET Spans : Adds(lines, it, S)
  BY <1>4 DEF Adds
<1> DEFINE T == {S \in SUBSET Spans : it[S] = sum[S]}
<1>7. {} \in T
  BY <1>2, <1>6 DEF Adds
<1>8. ASSUME NEW S \in SUBSET Spans, S # {}, S \ {First(S)} \in T PROVE S \in T
  BY <1>2, <1>6, <1>8 DEF Adds
<1>9. \A S \in SUBSET Spans : S \in T
  <2> HIDE DEF T
  <2> QED
    BY <1>7, <1>8, SpanInduction
<1>10. QED
  BY <1>1, <1>2, <1>5, <1>6, <1>9

\* One line more of one span is one more.
LEMMA CountMore ==
    ASSUME NEW lines \in [Spans -> Nat], NEW more \in [Spans -> Nat], NEW e \in Spans,
           \A s \in Spans : more[s] = IF s = e THEN lines[s] + 1 ELSE lines[s]
    PROVE  Count(more) = Count(lines) + 1
<1> DEFINE a == Sum(lines)
           b == Sum(more)
           T == {S \in SUBSET Spans : b[S] = IF e \in S THEN a[S] + 1 ELSE a[S]}
<1>1. \A S \in SUBSET Spans : /\ a[S] \in Nat /\ Adds(lines, a, S)
                              /\ b[S] \in Nat /\ Adds(more, b, S)
  BY CountIsSum
<1> HIDE DEF a, b
<1>2. {} \in T
  BY <1>1 DEF Adds
<1>3. ASSUME NEW S \in SUBSET Spans, S # {}, S \ {First(S)} \in T PROVE S \in T
  <2> DEFINE f == First(S)
             R == S \ {f}
  <2>1. f \in S /\ f \in Spans /\ R \in SUBSET Spans
    BY <1>3, Rest
  <2>2. a[S] = lines[f] + a[R] /\ b[S] = more[f] + b[R] /\ a[R] \in Nat
    BY <1>1, <1>3, <2>1 DEF Adds
  <2>3. b[R] = IF e \in R THEN a[R] + 1 ELSE a[R]
    BY <1>3
  <2>4. more[f] = (IF f = e THEN lines[f] + 1 ELSE lines[f]) /\ lines[f] \in Nat
    BY <2>1
  <2>5. e \in R <=> e \in S /\ f # e
    OBVIOUS
  <2> HIDE DEF f, R
  <2>6. QED
    BY <2>1, <2>2, <2>3, <2>4, <2>5
<1>4. \A S \in SUBSET Spans : S \in T
  <2> HIDE DEF T
  <2> QED
    BY <1>2, <1>3, SpanInduction
<1>5. Spans \in T
  BY <1>4
<1>6. QED
  BY <1>5, CountIsSum DEF a, b

\* A log that holds no span more often than another counts no more.
LEMMA CountMonotone ==
    ASSUME NEW lines \in [Spans -> Nat], NEW more \in [Spans -> Nat],
           \A s \in Spans : lines[s] =< more[s]
    PROVE  Count(lines) =< Count(more)
<1> DEFINE a == Sum(lines)
           b == Sum(more)
           T == {S \in SUBSET Spans : a[S] =< b[S]}
<1>1. \A S \in SUBSET Spans : /\ a[S] \in Nat /\ Adds(lines, a, S)
                              /\ b[S] \in Nat /\ Adds(more, b, S)
  BY CountIsSum
<1> HIDE DEF a, b
<1>2. {} \in T
  BY <1>1 DEF Adds
<1>3. ASSUME NEW S \in SUBSET Spans, S # {}, S \ {First(S)} \in T PROVE S \in T
  <2> DEFINE f == First(S)
             R == S \ {f}
  <2>1. f \in Spans /\ R \in SUBSET Spans
    BY <1>3, Rest
  <2>2. a[S] = lines[f] + a[R] /\ b[S] = more[f] + b[R] /\ a[R] \in Nat /\ b[R] \in Nat
    BY <1>1, <1>3, <2>1 DEF Adds
  <2>3. a[R] =< b[R]
    BY <1>3
  <2>4. lines[f] =< more[f] /\ lines[f] \in Nat /\ more[f] \in Nat
    BY <2>1
  <2> HIDE DEF f, R
  <2>5. QED
    BY <2>2, <2>3, <2>4
<1>4. \A S \in SUBSET Spans : S \in T
  <2> HIDE DEF T
  <2> QED
    BY <1>2, <1>3, SpanInduction
<1>5. Spans \in T
  BY <1>4
<1>6. QED
  BY <1>5, CountIsSum DEF a, b

\* A log without lines counts none, and one with a line counts some.
LEMMA CountFacts ==
    ASSUME NEW lines \in [Spans -> Nat]
    PROVE  /\ Count(lines) \in Nat
           /\ lines = NoLines => Count(lines) = 0
           /\ \A e \in Spans : lines[e] > 0 => Count(lines) > 0
<1>1. Count(lines) \in Nat
  BY CountIsSum
<1>2. ASSUME lines = NoLines PROVE Count(lines) = 0
  <2> DEFINE a == Sum(lines)
             T == {S \in SUBSET Spans : a[S] = 0}
  <2>1. \A S \in SUBSET Spans : a[S] \in Nat /\ Adds(lines, a, S)
    BY CountIsSum
  <2> HIDE DEF a
  <2>2. {} \in T
    BY <2>1 DEF Adds
  <2>3. ASSUME NEW S \in SUBSET Spans, S # {}, S \ {First(S)} \in T PROVE S \in T
    <3>1. First(S) \in Spans
      BY <2>3, Rest
    <3>2. lines[First(S)] = 0 /\ a[S \ {First(S)}] = 0
      BY <1>2, <2>3, <3>1 DEF NoLines
    <3>3. a[S] = lines[First(S)] + a[S \ {First(S)}]
      BY <2>1, <2>3 DEF Adds
    <3>4. QED
      BY <3>2, <3>3
  <2>4. \A S \in SUBSET Spans : S \in T
    <3> HIDE DEF T
    <3> QED
      BY <2>2, <2>3, SpanInduction
  <2>5. QED
    BY <2>4, CountIsSum DEF a
<1>3. ASSUME NEW e \in Spans, lines[e] > 0 PROVE Count(lines) > 0
  <2> DEFINE less == [lines EXCEPT ![e] = @ - 1]
  <2>1. less \in [Spans -> Nat]
    BY <1>3
  <2>2. \A s \in Spans : lines[s] = IF s = e THEN less[s] + 1 ELSE less[s]
    BY <1>3
  <2> HIDE DEF less
  <2>3. Count(lines) = Count(less) + 1
    BY <2>1, <2>2, CountMore
  <2>4. Count(less) \in Nat
    BY <2>1, CountIsSum
  <2>5. QED
    BY <2>3, <2>4
<1>4. QED
  BY <1>1, <1>2, <1>3
-----------------------------------------------------------------------------
(* Types, and what a process at work has in its hands.                       *)

AtWork == \A p \in Procs :
    /\ pc[p] = "idle" => role[p] = "none"
    /\ pc[p] \in {"claim", "delete"} => role[p] = "finalize"
    /\ pc[p] \in {"open", "append"} => span[p] \in stored
    /\ pc[p] \in {"append", "rename", "encode"} => open[p] # None
    /\ pc[p] \in Loaded \ {"encode"} => left[p] = loaded[p]
\* A file that has a name or is open was created.
Created ==
    /\ name # None => name < next
    /\ \A p \in Procs : open[p] # None => open[p] < next

LogTyped == TypeOK /\ AtWork /\ Created

\* The processes begin at rest, and no file is there.
LEMMA InitLogTyped == Init => LogTyped
<1> SUFFICES ASSUME Init PROVE LogTyped
  OBVIOUS
<1>1. NoLines \in Lines
  BY DEF NoLines, Lines
<1>2. QED
  BY <1>1, LogAssumption
     DEF Init, LogTyped, TypeOK, AtWork, Created, Files, Steps, Roles, Loaded, Rewriting

\* Who leaves takes what is his.
LEMMA LeaveTyped ==
    ASSUME LogTyped, NEW p \in Procs, Leave(p),
           UNCHANGED <<vendor, name, file, next, stored, safe, crashes>>
    PROVE  LogTyped'
  BY LogAssumption
     DEF LogTyped, TypeOK, AtWork, Created, Files, Steps, Roles, Loaded, Rewriting, Leave, Goto,
         Releases, NoLines, Lines

\* Every step keeps the types.
LEMMA NextLogTyped == LogTyped /\ [Next]_vars => LogTyped'
<1> SUFFICES ASSUME LogTyped, [Next]_vars PROVE LogTyped'
  OBVIOUS
<1>0. NoLines \in Lines
  BY DEF NoLines, Lines
<1> USE <1>0, LogAssumption
        DEF LogTyped, TypeOK, AtWork, Created, Files, Steps, Roles, Loaded, Rewriting
<1>1. ASSUME NEW p \in Procs, NEW e \in Spans, Record(p, e) PROVE LogTyped'
  BY <1>1 DEF Record, Ensure, Goto
<1>2. ASSUME NEW p \in Procs, NEW r \in {"finalize", "refresh"}, Load(p, r) PROVE LogTyped'
  BY <1>2 DEF Load, Goto, Begin
<1>3. ASSUME NEW p \in Procs, NEW usage \in BOOLEAN, Proceed(p, usage) PROVE LogTyped'
  BY <1>3 DEF Proceed, Goto
<1>4. ASSUME NEW p \in Procs, NEW e \in Spans, Encode(p, e) PROVE LogTyped'
  BY <1>4 DEF Encode, Lines
<1>5. ASSUME NEW p \in Procs, Open(p) PROVE LogTyped'
  <2>1. CASE name = None
    BY ONLY LogTyped, <1>5, <2>1, LeaveTyped DEF Open
  <2>2. CASE name # None
    BY <1>5, <2>2 DEF Open, Goto
  <2>3. QED
    BY <2>1, <2>2
<1>6. ASSUME NEW p \in Procs, Append(p) PROVE LogTyped'
  BY <1>6 DEF Append, Leave, Goto, Releases, Lines
<1>7. ASSUME NEW p \in Procs, Delete(p) PROVE LogTyped'
  BY <1>7 DEF Delete, Leave, Goto, Releases
<1>8. ASSUME NEW p \in Procs, Claim(p) PROVE LogTyped'
  <2>1. CASE vendor = "codex"
    <3>0. name \in 1..MaxFiles /\ MaxFiles \in Nat
      BY <1>8, <2>1 DEF Claim
    <3>1. TypeOK'
      BY <1>8, <2>1, <3>0 DEF Claim, Goto
    <3>2. AtWork'
      BY <1>8, <2>1, <3>0 DEF Claim, Goto
    <3>3. Created'
      BY <1>8, <2>1, <3>0 DEF Claim, Goto
    <3>4. QED
      BY <3>1, <3>2, <3>3
  <2>2. CASE vendor # "codex"
    BY <1>8, <2>2 DEF Claim, Goto
  <2>3. QED
    BY <2>1, <2>2
<1>9. ASSUME NEW p \in Procs, ClaimFails(p) PROVE LogTyped'
  BY <1>9 DEF ClaimFails, Leave, Goto, Releases
<1>10. ASSUME NEW p \in Procs, NothingLater(p) PROVE LogTyped'
  BY <1>10 DEF NothingLater, Leave, Goto, Releases
<1>11. ASSUME NEW p \in Procs, Scan(p) PROVE LogTyped'
  <2>1. CASE name = None
    BY <1>11, <2>1 DEF Scan, Goto
  <2>2. CASE name # None
    <3>0. name \in 1..MaxFiles /\ MaxFiles \in Nat
      BY <2>2
    <3>1. TypeOK'
      <4>1. /\ next \in 1..MaxFiles /\ file' = [file EXCEPT ![next] = file[name]]
            /\ pc' = [pc EXCEPT ![p] = "rename"] /\ open' = [open EXCEPT ![p] = next]
            /\ next' = next + 1 /\ safe' \subseteq safe
            /\ UNCHANGED <<vendor, name, claim, role, span, loaded, left, stored, crashes>>
        BY <1>11, <2>2 DEF Scan, Goto, Begin
      <4>2. file' \in [1..MaxFiles -> Lines]
        BY <3>0, <4>1
      <4>3. open' \in [Procs -> 1..MaxFiles \cup {None}] /\ next' \in 1..(MaxFiles + 1)
        BY <3>0, <4>1
      <4>4. pc' \in [Procs -> Steps] /\ (claim' # None => pc'[claim'] # "claim")
        BY <4>1
      <4>5. QED
        BY <4>1, <4>2, <4>3, <4>4
    <3>2. AtWork'
      BY <1>11, <2>2, <3>0 DEF Scan, Goto, Begin
    <3>3. Created'
      BY <1>11, <2>2, <3>0 DEF Scan, Goto, Begin
    <3>4. QED
      BY <3>1, <3>2, <3>3
  <2>3. QED
    BY <2>1, <2>2
<1>12. ASSUME NEW p \in Procs, Rename(p) PROVE LogTyped'
  BY <1>12 DEF Rename, Goto
<1>13. ASSUME NEW p \in Procs, Keep(p) PROVE LogTyped'
  BY <1>13 DEF Keep, Leave, Goto, Releases, Grown
<1>14. ASSUME NEW p \in Procs, Rewrite(p) PROVE LogTyped'
  BY <1>14 DEF Rewrite, Goto, Begin, Grown
<1>15. ASSUME NEW p \in Procs, Remove(p) PROVE LogTyped'
  BY <1>15 DEF Remove, Goto
<1>16. ASSUME NEW p \in Procs, Recreate(p) PROVE LogTyped'
  BY <1>16 DEF Recreate, Goto, Ensure
<1>17. ASSUME NEW p \in Procs, Reopen(p) PROVE LogTyped'
  <2>1. CASE name = None
    BY ONLY LogTyped, <1>17, <2>1, LeaveTyped DEF Reopen
  <2>2. CASE name # None
    <3>0. name \in 1..MaxFiles /\ MaxFiles \in Nat
      BY <2>2
    <3>1. TypeOK'
      <4>1. /\ pc' = [pc EXCEPT ![p] = "encode"] /\ open' = [open EXCEPT ![p] = name]
            /\ UNCHANGED <<vendor, name, file, next, claim, role, span, loaded, left, stored,
                           safe, crashes>>
        BY <1>17, <2>2 DEF Reopen, Goto
      <4>2. open' \in [Procs -> 1..MaxFiles \cup {None}]
        BY <3>0, <4>1
      <4>3. pc' \in [Procs -> Steps] /\ (claim' # None => pc'[claim'] # "claim")
        BY <4>1
      <4>4. QED
        BY <4>1, <4>2, <4>3
    <3>2. AtWork'
      BY <1>17, <2>2, <3>0 DEF Reopen, Goto
    <3>3. Created'
      BY <1>17, <2>2, <3>0 DEF Reopen, Goto
    <3>4. QED
      BY <3>1, <3>2, <3>3
  <2>3. QED
    BY <2>1, <2>2
<1>18. ASSUME NEW p \in Procs, Finish(p) PROVE LogTyped'
  BY <1>18 DEF Finish, Leave, Goto, Releases, Written
<1>19. ASSUME NEW p \in Procs, Crash(p) PROVE LogTyped'
  BY <1>19 DEF Crash, Leave, Goto, Releases
<1>20. CASE UNCHANGED vars
  BY <1>20 DEF vars
<1>21. QED
  BY <1>1, <1>2, <1>3, <1>4, <1>5, <1>6, <1>7, <1>8, <1>9, <1>10,
     <1>11, <1>12, <1>13, <1>14, <1>15, <1>16, <1>17, <1>18, <1>19, <1>20 DEF Next

\* Every variable of the log keeps its type, and the claim is held by a finalizer
\* that is past it.
THEOREM LogTyping == Spec => []TypeOK
  BY InitLogTyped, NextLogTyped, PTL DEF Spec, LogTyped

-----------------------------------------------------------------------------
(* Safe spans.  While there is one, at most one rewrite is under way.  Until *)
(* it has removed the log, the log holds every safe span, and who has loaded *)
(* a log without one has loaded fewer lines than there are.  From then on    *)
(* the same is true of what the log holds and what is left to write to it.   *)

Dumping == {"ensure", "reopen", "encode"}
Has(lines) == safe \subseteq Holds(lines)
\* Nobody will put back fewer lines, n, without a safe span among them.
Outgrown(n) == \A q \in Procs : pc[q] \in Loaded => Has(loaded[q]) \/ Count(loaded[q]) < n
Named == IF name = None THEN NoLines ELSE file[name]

OneRewriter == \A p, q \in Procs :
    /\ pc[p] # "delete"
    /\ pc[p] \in Rewriting /\ pc[q] \in Rewriting => p = q
InLog == (\A p \in Procs : pc[p] \notin Dumping) =>
    name # None /\ Has(file[name]) /\ Outgrown(Count(file[name]))
InCopy == \A p \in Procs : pc[p] = "rename" =>
    Has(file[open[p]]) /\ Outgrown(Count(file[open[p]]))
InHand == \A p \in Procs : pc[p] = "remove" =>
    Has(loaded[p]) /\ Outgrown(Count(loaded[p]))
OnTheWay == \A p \in Procs : pc[p] \in Dumping =>
    /\ pc[p] # "ensure" => name # None
    /\ pc[p] = "encode" => open[p] = name
    /\ safe \subseteq Holds(Named) \cup Holds(left[p])
    /\ Outgrown(Count(Named) + Count(left[p]))

Covered == OneRewriter /\ InLog /\ InCopy /\ InHand /\ OnTheWay
SafeInv == safe \cap Quiet = {} /\ (safe # {} => Covered)

\* What a process may have in its hands after a step that gets n to m: what it had,
\* every safe span, or fewer lines than m.
Keeping(q, m) ==
    \/ pc[q] \in Loaded /\ loaded'[q] = loaded[q]
    \/ Has(loaded'[q]) \/ Count(loaded'[q]) < m

\* Who keeps what is in his hands stays outgrown.
LEMMA OutgrownNext ==
    ASSUME LogTyped, NEW n \in Nat, Outgrown(n), NEW m \in Nat, n =< m,
           NEW q \in Procs, Keeping(q, m)
    PROVE  Has(loaded'[q]) \/ Count(loaded'[q]) < m
<1> SUFFICES ASSUME pc[q] \in Loaded, loaded'[q] = loaded[q], Count(loaded[q]) < n
             PROVE  Count(loaded[q]) < m
  BY DEF Outgrown, Keeping
<1>1. Count(loaded[q]) \in Nat
  BY CountFacts DEF LogTyped, TypeOK, Lines
<1>2. QED
  BY <1>1

\* The numbers in question are numbers.
LEMMA Counts ==
    ASSUME LogTyped
    PROVE  /\ name # None => file[name] \in Lines /\ Count(file[name]) \in Nat
           /\ Named \in Lines /\ Count(Named) \in Nat
           /\ \A p \in Procs : /\ Count(loaded[p]) \in Nat /\ Count(left[p]) \in Nat
                               /\ loaded[p] \in Lines /\ left[p] \in Lines
                               /\ open[p] # None => /\ file[open[p]] \in Lines
                                                    /\ Count(file[open[p]]) \in Nat
<1>1. NoLines \in Lines
  BY DEF NoLines, Lines
<1>2. \A lines \in Lines : Count(lines) \in Nat
  BY CountFacts DEF Lines
<1>3. QED
  BY <1>1, <1>2 DEF LogTyped, TypeOK, Named

\* Steps that leave the log and the safe spans alone, and that neither begin a
\* rewrite nor end one that has removed the log.
LEMMA Steady ==
    ASSUME LogTyped, LogTyped', SafeInv, NEW p \in Procs, UNCHANGED <<name, file, safe>>,
           \A q \in Procs \ {p} : /\ pc'[q] = pc[q] /\ loaded'[q] = loaded[q]
                                  /\ left'[q] = left[q] /\ open'[q] = open[q],
           pc[p] \notin Dumping, pc'[p] \notin Rewriting,
           pc'[p] \in Loaded => \/ pc[p] \in Loaded /\ loaded'[p] = loaded[p]
                                \/ name # None /\ loaded'[p] = file[name]
    PROVE  SafeInv'
<1> SUFFICES ASSUME safe # {} PROVE Covered'
  BY DEF SafeInv
<1>1. OneRewriter /\ InLog /\ InCopy /\ InHand /\ OnTheWay
  BY DEF SafeInv, Covered
<1>2. ASSUME NEW n \in Nat, Outgrown(n),
             name # None => Has(file[name]) \/ Count(file[name]) < n
      PROVE  \A q \in Procs : pc'[q] \in Loaded => Has(loaded'[q]) \/ Count(loaded'[q]) < n
  <2> SUFFICES ASSUME NEW q \in Procs, pc'[q] \in Loaded PROVE Keeping(q, n)
    BY <1>2, OutgrownNext
  <2>1. QED
    BY <1>2 DEF Keeping
<1>3. OneRewriter'
  BY <1>1 DEF OneRewriter, Rewriting
<1>4. ASSUME NEW q \in Procs, pc[q] \in Rewriting \ Dumping
      PROVE  name # None /\ Has(file[name])
  BY <1>1, <1>4 DEF OneRewriter, InLog, Rewriting, Dumping
<1>5. InLog'
  <2> SUFFICES ASSUME \A q \in Procs : pc'[q] \notin Dumping
               PROVE  (name # None /\ Has(file[name]) /\ Outgrown(Count(file[name])))'
    BY DEF InLog
  <2>1. \A q \in Procs : pc[q] \notin Dumping
    OBVIOUS
  <2>2. name # None /\ Has(file[name]) /\ Outgrown(Count(file[name]))
    BY <1>1, <2>1 DEF InLog
  <2>3. QED
    BY <1>2, <2>2, Counts DEF Outgrown, Has
<1>6. InCopy'
  <2> SUFFICES ASSUME NEW q \in Procs, pc'[q] = "rename"
               PROVE  (Has(file[open[q]]) /\ Outgrown(Count(file[open[q]])))'
    BY DEF InCopy
  <2>1. q # p /\ pc[q] = "rename" /\ open'[q] = open[q] /\ open[q] # None
    BY DEF Rewriting, LogTyped, AtWork
  <2>2. Has(file[open[q]]) /\ Outgrown(Count(file[open[q]])) /\ Has(file[name])
    BY <1>1, <1>4, <2>1 DEF InCopy, Rewriting, Dumping
  <2>3. QED
    BY <1>2, <2>1, <2>2, Counts DEF Outgrown, Has
<1>7. InHand'
  <2> SUFFICES ASSUME NEW q \in Procs, pc'[q] = "remove"
               PROVE  (Has(loaded[q]) /\ Outgrown(Count(loaded[q])))'
    BY DEF InHand
  <2>1. q # p /\ pc[q] = "remove" /\ loaded'[q] = loaded[q]
    BY DEF Rewriting
  <2>2. Has(loaded[q]) /\ Outgrown(Count(loaded[q])) /\ Has(file[name])
    BY <1>1, <1>4, <2>1 DEF InHand, Rewriting, Dumping
  <2>3. QED
    BY <1>2, <2>1, <2>2, Counts DEF Outgrown, Has
<1>8. OnTheWay'
  <2> SUFFICES ASSUME NEW q \in Procs, pc'[q] \in Dumping
               PROVE  (/\ pc[q] # "ensure" => name # None
                       /\ pc[q] = "encode" => open[q] = name
                       /\ safe \subseteq Holds(Named) \cup Holds(left[q])
                       /\ Outgrown(Count(Named) + Count(left[q])))'
    BY DEF OnTheWay
  <2>1. q # p /\ pc[q] \in Dumping /\ pc'[q] = pc[q] /\ left'[q] = left[q] /\ open'[q] = open[q]
    BY DEF Rewriting, Dumping
  <2>2. /\ pc[q] # "ensure" => name # None
        /\ pc[q] = "encode" => open[q] = name
        /\ safe \subseteq Holds(Named) \cup Holds(left[q])
        /\ Outgrown(Count(Named) + Count(left[q]))
    BY <1>1, <2>1 DEF OnTheWay
  <2>3. name # None => Has(file[name]) \/ Count(file[name]) < Count(Named) + Count(left[q])
    <3> SUFFICES ASSUME name # None, NEW e \in safe, e \notin Holds(file[name])
                 PROVE  Count(file[name]) < Count(Named) + Count(left[q])
      BY DEF Has
    <3>1. Named = file[name] /\ e \in Holds(left[q])
      BY <2>2 DEF Named
    <3>2. Count(left[q]) > 0
      BY <2>1, <3>1, Counts, CountFacts DEF Holds, Lines
    <3>3. QED
      BY <3>1, <3>2, Counts
  <2>4. Count(Named) + Count(left[q]) \in Nat
    BY Counts
  <2>5. \A r \in Procs : pc'[r] \in Loaded =>
           Has(loaded'[r]) \/ Count(loaded'[r]) < Count(Named) + Count(left[q])
    BY <1>2, <2>2, <2>3, <2>4
  <2>6. Named' = Named
    BY DEF Named
  <2>7. QED
    BY <2>1, <2>2, <2>5, <2>6 DEF Outgrown, Has
<1>9. QED
  BY <1>3, <1>5, <1>6, <1>7, <1>8 DEF Covered

\* A log that is created where there was none, by a hook or by the rewriter, takes
\* nothing away.
LEMMA Creates ==
    ASSUME LogTyped, LogTyped', SafeInv, NEW p \in Procs,
           UNCHANGED <<file, safe, loaded, left, open>>,
           \/ pc[p] = "idle" /\ pc' = [pc EXCEPT ![p] = "open"]
           \/ pc[p] = "ensure" /\ pc' = [pc EXCEPT ![p] = "reopen"],
           name' # None, name # None => name' = name
    PROVE  SafeInv'
<1> SUFFICES ASSUME safe # {} PROVE Covered'
  BY DEF SafeInv
<1>1. OneRewriter /\ InLog /\ InCopy /\ InHand /\ OnTheWay
  BY DEF SafeInv, Covered
<1>2. \A q \in Procs : /\ pc'[q] \in Rewriting <=> pc[q] \in Rewriting
                       /\ pc'[q] \in Loaded <=> pc[q] \in Loaded
                       /\ pc'[q] \in Dumping <=> pc[q] \in Dumping
                       /\ pc'[q] \in {"rename", "remove", "encode", "ensure", "delete"} => pc'[q] = pc[q]
  BY DEF LogTyped, TypeOK, Rewriting, Loaded, Dumping
<1>3. OneRewriter'
  BY <1>1, <1>2 DEF OneRewriter
<1>4. InLog'
  BY <1>1, <1>2 DEF InLog, Outgrown, Has
<1>5. InCopy'
  BY <1>1, <1>2 DEF InCopy, Outgrown, Has
<1>6. InHand'
  BY <1>1, <1>2 DEF InHand, Outgrown, Has
<1>7. OnTheWay'
  <2> SUFFICES ASSUME NEW q \in Procs, pc'[q] \in Dumping
               PROVE  (/\ pc[q] # "ensure" => name # None
                       /\ pc[q] = "encode" => open[q] = name
                       /\ safe \subseteq Holds(Named) \cup Holds(left[q])
                       /\ Outgrown(Count(Named) + Count(left[q])))'
    BY DEF OnTheWay
  <2>1. /\ pc[q] # "ensure" => name # None
        /\ pc[q] = "encode" => open[q] = name
        /\ safe \subseteq Holds(Named) \cup Holds(left[q])
        /\ Outgrown(Count(Named) + Count(left[q]))
    BY <1>1, <1>2 DEF OnTheWay
  <2>2. pc'[q] = "encode" => open'[q] = name'
    BY <1>2, <2>1
  <2>3. /\ Named' \in Lines /\ Count(Named') \in Nat
        /\ Holds(Named) \subseteq Holds(Named') /\ Count(Named) =< Count(Named')
    <3>1. CASE name = None
      <4>1. Named = NoLines /\ Named \in Lines /\ Named' = file[name'] /\ file[name'] \in Lines
        BY <3>1 DEF Named, LogTyped, TypeOK, NoLines, Lines
      <4>2. Holds(NoLines) = {} /\ Count(Named) = 0 /\ Count(Named') \in Nat
        BY <4>1, CountFacts DEF Holds, NoLines, Lines
      <4>3. QED
        BY <4>1, <4>2
    <3>2. CASE name # None
      <4>1. Named' = Named
        BY <3>2 DEF Named
      <4>2. QED
        BY <4>1, Counts
    <3>3. QED
      BY <3>1, <3>2
  <2> DEFINE n == Count(Named) + Count(left[q])
             m == Count(Named') + Count(left[q])
  <2>4. n \in Nat /\ m \in Nat /\ n =< m
    BY <2>3, Counts
  <2>5. ASSUME NEW r \in Procs, pc'[r] \in Loaded PROVE Has(loaded'[r]) \/ Count(loaded'[r]) < m
    <3>1. Keeping(r, m)
      BY <1>2, <2>5 DEF Keeping
    <3> HIDE DEF n, m
    <3>2. Outgrown(n)
      BY <2>1 DEF n
    <3>3. QED
      BY <2>4, <3>1, <3>2, OutgrownNext
  <2>6. QED
    BY <2>1, <2>2, <2>3, <2>5 DEF Outgrown, Has
<1>8. QED
  BY <1>3, <1>4, <1>5, <1>6, <1>7 DEF Covered

\* What a hook appends makes a log more, and is safe only when it is in the log and
\* more than anybody has loaded.
LEMMA AppendsSafely == ASSUME LogTyped, LogTyped', SafeInv, NEW p \in Procs, Append(p) PROVE SafeInv'
<1> SUFFICES ASSUME safe' # {} PROVE Covered' /\ (safe \cap Quiet = {})'
  BY DEF SafeInv
<1> DEFINE e == span[p]
           f == open[p]
<1>1. /\ pc[p] = "append" /\ e \in Spans /\ f \in Files
      /\ file' = [file EXCEPT ![f][e] = @ + 1]
      /\ name' = name /\ pc' = [pc EXCEPT ![p] = "idle"]
      /\ \A q \in Procs \ {p} : loaded'[q] = loaded[q] /\ left'[q] = left[q] /\ open'[q] = open[q]
  BY DEF Append, Leave, Goto, LogTyped, TypeOK, AtWork
<1>2. ASSUME NEW i \in Files
      PROVE  /\ file[i] \in Lines /\ file'[i] \in Lines
             /\ Count(file[i]) \in Nat /\ Count(file'[i]) \in Nat
             /\ Holds(file[i]) \subseteq Holds(file'[i])
             /\ Count(file[i]) =< Count(file'[i])
             /\ i = f => e \in Holds(file'[i]) /\ Count(file'[i]) = Count(file[i]) + 1
  <2>1. file[i] \in Lines /\ file'[i] \in Lines
    BY DEF LogTyped, TypeOK
  <2>2. /\ i = f => \A s \in Spans : file'[i][s] = IF s = e THEN file[i][s] + 1 ELSE file[i][s]
        /\ i # f => file'[i] = file[i]
    BY <1>1, <2>1 DEF LogTyped, TypeOK, Lines
  <2>3. Count(file[i]) \in Nat /\ Count(file'[i]) \in Nat
    BY <2>1, CountFacts DEF Lines
  <2>4. i = f => Count(file'[i]) = Count(file[i]) + 1
    BY <1>1, <2>1, <2>2, CountMore DEF Lines
  <2>5. Holds(file[i]) \subseteq Holds(file'[i]) /\ (i = f => e \in Holds(file'[i]))
    BY <1>1, <2>1, <2>2 DEF Holds, Lines
  <2>6. QED
    BY <2>1, <2>2, <2>3, <2>4, <2>5
<1> HIDE DEF e, f
<1>3. \A q \in Procs : /\ pc'[q] \in Loaded \cup Rewriting \cup Dumping => q # p /\ pc'[q] = pc[q]
                       /\ pc[q] \in Loaded \cup Rewriting \cup Dumping => q # p /\ pc'[q] = pc[q]
  BY <1>1 DEF Loaded, Rewriting, Dumping
<1>4. CASE safe' = safe
  <2>1. OneRewriter /\ InLog /\ InCopy /\ InHand /\ OnTheWay /\ safe \cap Quiet = {}
    BY <1>4 DEF SafeInv, Covered
  <2>2. ASSUME NEW n \in Nat, NEW m \in Nat, n =< m, Outgrown(n), NEW q \in Procs, pc'[q] \in Loaded
        PROVE  safe' \subseteq Holds(loaded'[q]) \/ Count(loaded'[q]) < m
    <3>1. Keeping(q, m)
      BY <1>1, <1>3, <2>2 DEF Keeping
    <3>2. QED
      BY <1>4, <2>2, <3>1, OutgrownNext DEF Has
  <2>3. OneRewriter'
    BY <1>1, <1>3, <2>1 DEF OneRewriter, Rewriting
  <2>4. InLog'
    <3> SUFFICES ASSUME \A q \in Procs : pc'[q] \notin Dumping
                 PROVE  (name # None /\ Has(file[name]) /\ Outgrown(Count(file[name])))'
      BY DEF InLog
    <3>1. name # None /\ Has(file[name]) /\ Outgrown(Count(file[name])) /\ name \in Files
      BY <1>3, <2>1 DEF InLog, LogTyped, TypeOK
    <3>2. QED
      BY <1>1, <1>2, <1>4, <2>2, <3>1 DEF Outgrown, Has
  <2>5. InCopy'
    <3> SUFFICES ASSUME NEW q \in Procs, pc'[q] = "rename"
                 PROVE  (Has(file[open[q]]) /\ Outgrown(Count(file[open[q]])))'
      BY DEF InCopy
    <3>1. q # p /\ pc[q] = "rename" /\ open'[q] = open[q] /\ open[q] \in Files
      BY <1>1, <1>3 DEF Rewriting, LogTyped, TypeOK, AtWork
    <3>2. Has(file[open[q]]) /\ Outgrown(Count(file[open[q]]))
      BY <2>1, <3>1 DEF InCopy
    <3>3. QED
      BY <1>2, <1>4, <2>2, <3>1, <3>2 DEF Outgrown, Has
  <2>6. InHand'
    <3> SUFFICES ASSUME NEW q \in Procs, pc'[q] = "remove"
                 PROVE  (Has(loaded[q]) /\ Outgrown(Count(loaded[q])))'
      BY DEF InHand
    <3>1. q # p /\ pc[q] = "remove" /\ loaded'[q] = loaded[q]
      BY <1>1, <1>3 DEF Rewriting
    <3>2. Has(loaded[q]) /\ Outgrown(Count(loaded[q]))
      BY <2>1, <3>1 DEF InHand
    <3>3. Count(loaded[q]) \in Nat
      BY Counts
    <3>4. QED
      BY <1>4, <2>2, <3>1, <3>2, <3>3 DEF Outgrown, Has
  <2>7. OnTheWay'
    <3> SUFFICES ASSUME NEW q \in Procs, pc'[q] \in Dumping
                 PROVE  (/\ pc[q] # "ensure" => name # None
                         /\ pc[q] = "encode" => open[q] = name
                         /\ safe \subseteq Holds(Named) \cup Holds(left[q])
                         /\ Outgrown(Count(Named) + Count(left[q])))'
      BY DEF OnTheWay
    <3>1. q # p /\ pc'[q] = pc[q] /\ pc[q] \in Dumping /\ left'[q] = left[q] /\ open'[q] = open[q]
      BY <1>1, <1>3
    <3>2. /\ pc[q] # "ensure" => name # None
          /\ pc[q] = "encode" => open[q] = name
          /\ safe \subseteq Holds(Named) \cup Holds(left[q])
          /\ Outgrown(Count(Named) + Count(left[q]))
      BY <2>1, <3>1 DEF OnTheWay
    <3>3. /\ Holds(Named) \subseteq Holds(Named') /\ Count(Named) =< Count(Named')
          /\ Count(Named) \in Nat /\ Count(Named') \in Nat
      <4>1. CASE name = None
        BY <1>1, <4>1, Counts DEF Named
      <4>2. CASE name # None
        BY <1>1, <1>2, <4>2 DEF Named, LogTyped, TypeOK
      <4>3. QED
        BY <4>1, <4>2
    <3>4. Count(left[q]) \in Nat
      BY Counts
    <3>5. /\ Count(Named) + Count(left[q]) \in Nat /\ Count(Named') + Count(left[q]) \in Nat
          /\ Count(Named) + Count(left[q]) =< Count(Named') + Count(left[q])
      BY <3>3, <3>4
    <3>6. \A r \in Procs : pc'[r] \in Loaded =>
              \/ safe' \subseteq Holds(loaded'[r])
              \/ Count(loaded'[r]) < Count(Named') + Count(left[q])
      BY <2>2, <3>2, <3>5
    <3>7. QED
      BY <1>1, <1>4, <3>1, <3>2, <3>3, <3>6 DEF Outgrown, Has
  <2>8. QED
    BY <1>4, <2>1, <2>3, <2>4, <2>5, <2>6, <2>7 DEF Covered
<1>5. CASE safe' # safe
  <2>1. /\ f = name /\ name \in Files /\ ~RewriteUnderWay /\ NobodyAhead
        /\ safe' = safe \cup ({e} \ Quiet)
    BY <1>1, <1>5 DEF Append, LogTyped, TypeOK, e, f
  <2>2. \A q \in Procs : pc[q] \notin Rewriting /\ pc'[q] \notin Rewriting
    BY <1>1, <1>3, <2>1 DEF RewriteUnderWay
  <2>3. safe \subseteq Holds(file[name]) /\ safe \cap Quiet = {}
    <3>1. safe # {} => InLog
      BY DEF SafeInv, Covered
    <3>2. QED
      BY <2>2, <3>1 DEF InLog, SafeInv, Has, Rewriting, Dumping
  <2>4. ASSUME NEW q \in Procs, pc'[q] \in Loaded PROVE Count(loaded'[q]) < Count(file'[name])
    <3>1. pc[q] \in Loaded /\ loaded'[q] = loaded[q] /\ loaded[q] \in Lines
      BY <1>1, <1>3, <2>4 DEF LogTyped, TypeOK
    <3>2. \A s \in Spans : loaded[q][s] =< file[name][s]
      BY <2>1, <3>1 DEF NobodyAhead, LogHolds
    <3>3. file[name] \in Lines /\ Count(file'[name]) = Count(file[name]) + 1
      BY <1>2, <2>1
    <3>4. Count(loaded[q]) =< Count(file[name])
      BY <3>1, <3>2, <3>3, CountMonotone DEF Lines
    <3>5. Count(loaded[q]) \in Nat /\ Count(file[name]) \in Nat
      BY <1>2, <2>1, Counts
    <3>6. QED
      BY <3>1, <3>3, <3>4, <3>5
  <2>5. name # None /\ name' = name
    BY <1>1, <2>1, LogAssumption DEF Files
  <2>6. safe' \subseteq Holds(file'[name])
    BY <1>2, <2>1, <2>3
  <2>7. InLog'
    BY <2>4, <2>5, <2>6 DEF InLog, Outgrown, Has
  <2>8. OneRewriter' /\ InCopy' /\ InHand' /\ OnTheWay'
    BY <2>2 DEF OneRewriter, InCopy, InHand, OnTheWay, Rewriting, Dumping
  <2>9. QED
    BY <2>1, <2>3, <2>7, <2>8 DEF Covered
<1>6. QED
  BY <1>4, <1>5

\* The rewriter copies the log, and names the copy.
LEMMA ScansSafely ==
    ASSUME LogTyped, LogTyped', SafeInv, NEW p \in Procs, Scan(p), name # None PROVE SafeInv'
<1> SUFFICES ASSUME safe' # {} PROVE Covered'
  BY DEF SafeInv, Scan, Begin
<1>1. /\ pc[p] = "usage" /\ pc' = [pc EXCEPT ![p] = "rename"] /\ safe' = safe
      /\ \A q \in Procs \ {p} : pc[q] \notin Rewriting
      /\ next \in Files /\ name \in Files /\ name # next
      /\ file' = [file EXCEPT ![next] = file[name]]
      /\ open' = [open EXCEPT ![p] = next]
      /\ UNCHANGED <<name, loaded, left>>
  BY DEF Scan, Goto, Begin, LogTyped, TypeOK, Created, Files
<1>2. /\ file'[name] = file[name] /\ file'[next] = file[name] /\ open'[p] = next
  BY <1>1 DEF LogTyped, TypeOK
<1>3. \A q \in Procs : pc[q] \notin Dumping /\ pc'[q] \notin Dumping
  BY <1>1 DEF Rewriting, Dumping
<1>4. Has(file[name]) /\ Outgrown(Count(file[name])) /\ OneRewriter
  BY <1>1, <1>3 DEF SafeInv, Covered, InLog
<1>5. \A q \in Procs : pc'[q] \in Loaded <=> pc[q] \in Loaded
  BY <1>1 DEF Loaded, Rewriting, LogTyped, TypeOK
<1>6. \A q \in Procs : pc'[q] \in Loaded => Has(loaded[q]) \/ Count(loaded[q]) < Count(file[name])
  BY <1>4, <1>5 DEF Outgrown
<1>7. InLog'
  BY <1>1, <1>2, <1>4, <1>6 DEF InLog, Outgrown, Has
<1>8. InCopy'
  BY <1>1, <1>2, <1>4, <1>6 DEF InCopy, Outgrown, Has, Rewriting, LogTyped, TypeOK
<1>9. OneRewriter' /\ InHand' /\ OnTheWay'
  BY <1>1, <1>3, <1>4 DEF OneRewriter, InHand, OnTheWay, Rewriting, LogTyped, TypeOK
<1>10. QED
  BY <1>7, <1>8, <1>9 DEF Covered

\* Named, the copy is the log.
LEMMA RenamesSafely ==
    ASSUME LogTyped, LogTyped', SafeInv, NEW p \in Procs, Rename(p) PROVE SafeInv'
<1> SUFFICES ASSUME safe' # {} PROVE Covered'
  BY DEF SafeInv, Rename
<1>1. /\ pc[p] = "rename" /\ pc' = [pc EXCEPT ![p] = "count"] /\ name' = open[p]
      /\ open[p] \in Files /\ open[p] # None
      /\ UNCHANGED <<file, loaded, left, safe>>
  BY DEF Rename, Goto, LogTyped, TypeOK, AtWork
<1>2. OneRewriter /\ InCopy
  BY <1>1 DEF SafeInv, Covered
<1>3. \A q \in Procs : pc'[q] \notin Rewriting /\ pc'[q] # "delete"
  BY <1>1, <1>2 DEF OneRewriter, Rewriting, LogTyped, TypeOK
<1>4. \A q \in Procs : pc'[q] \in Loaded <=> pc[q] \in Loaded
  BY <1>1 DEF Loaded, Rewriting, LogTyped, TypeOK
<1>5. InLog'
  BY <1>1, <1>2, <1>4 DEF InLog, InCopy, Outgrown, Has
<1>6. OneRewriter' /\ InCopy' /\ InHand' /\ OnTheWay'
  BY <1>3 DEF OneRewriter, InCopy, InHand, OnTheWay, Rewriting, Dumping
<1>7. QED
  BY <1>5, <1>6 DEF Covered

\* The rewriter has every safe span in its hands before it removes the log.
LEMMA RewritesSafely ==
    ASSUME LogTyped, LogTyped', SafeInv, NEW p \in Procs, Rewrite(p) PROVE SafeInv'
<1> SUFFICES ASSUME safe' # {} PROVE Covered'
  BY DEF SafeInv, Rewrite, Begin
<1>1. /\ pc[p] = "count" /\ pc' = [pc EXCEPT ![p] = "remove"] /\ safe' = safe
      /\ \A q \in Procs \ {p} : pc[q] \notin Rewriting
      /\ ~Grown(p)
      /\ UNCHANGED <<name, file, open, loaded, left>>
  BY DEF Rewrite, Goto, Begin
<1>2. \A q \in Procs : pc[q] \notin Dumping /\ pc'[q] \notin Dumping
  BY <1>1 DEF Rewriting, Dumping
<1>3. name # None /\ Has(file[name]) /\ Outgrown(Count(file[name])) /\ OneRewriter
  BY <1>1, <1>2 DEF SafeInv, Covered, InLog
<1>4. Count(file[name]) \in Nat /\ \A q \in Procs : Count(loaded[q]) \in Nat
  BY <1>3, Counts
<1>5. Count(file[name]) =< Count(loaded[p])
  BY <1>1, <1>3, <1>4 DEF Grown
<1>6. Has(loaded[p])
  BY <1>1, <1>3, <1>4, <1>5 DEF Outgrown, Loaded
<1>7. \A q \in Procs : pc'[q] \in Loaded <=> pc[q] \in Loaded
  BY <1>1 DEF Loaded, Rewriting, LogTyped, TypeOK
<1>8. \A q \in Procs : pc'[q] \in Loaded => Has(loaded[q]) \/ Count(loaded[q]) < Count(file[name])
  BY <1>3, <1>7 DEF Outgrown
<1>9. \A q \in Procs : pc'[q] \in Loaded => Has(loaded[q]) \/ Count(loaded[q]) < Count(loaded[p])
  BY <1>4, <1>5, <1>8
<1>10. InLog'
  BY <1>1, <1>3, <1>8 DEF InLog, Outgrown, Has
<1>11. InHand'
  BY <1>1, <1>6, <1>9 DEF InHand, Outgrown, Has, Rewriting, LogTyped, TypeOK
<1>12. OneRewriter' /\ InCopy' /\ OnTheWay'
  BY <1>1, <1>2, <1>3 DEF OneRewriter, InCopy, OnTheWay, Rewriting, LogTyped, TypeOK
<1>13. QED
  BY <1>10, <1>11, <1>12 DEF Covered

\* When the log is gone, all of it is left to write.
LEMMA RemovesSafely ==
    ASSUME LogTyped, LogTyped', SafeInv, NEW p \in Procs, Remove(p) PROVE SafeInv'
<1> SUFFICES ASSUME safe' # {} PROVE Covered'
  BY DEF SafeInv, Remove
<1>1. /\ pc[p] = "remove" /\ pc' = [pc EXCEPT ![p] = "ensure"] /\ name' = None
      /\ left[p] = loaded[p]
      /\ UNCHANGED <<file, open, loaded, left, safe>>
  BY DEF Remove, Goto, LogTyped, AtWork, Loaded, Rewriting
<1>2. OneRewriter /\ InHand
  BY <1>1 DEF SafeInv, Covered
<1>3. \A q \in Procs \ {p} : pc'[q] \notin Rewriting /\ pc'[q] # "delete" /\ pc'[q] \notin Dumping
  BY <1>1, <1>2 DEF OneRewriter, Rewriting, Dumping
<1>4. pc'[p] = "ensure"
  BY <1>1 DEF LogTyped, TypeOK
<1>5. \A q \in Procs : pc'[q] \in Loaded <=> pc[q] \in Loaded
  BY <1>1 DEF Loaded, Rewriting, LogTyped, TypeOK
<1>6. Has(loaded[p]) /\ Outgrown(Count(loaded[p]))
  BY <1>1, <1>2 DEF InHand
<1>7. Named' = NoLines /\ Count(NoLines) = 0
  BY <1>1, CountFacts DEF Named, NoLines
<1>8. Count(NoLines) + Count(loaded[p]) = Count(loaded[p])
  BY <1>7, Counts
<1>9. OnTheWay'
  <2> SUFFICES ASSUME NEW q \in Procs, pc'[q] \in Dumping
               PROVE  (/\ pc[q] # "ensure" => name # None
                       /\ pc[q] = "encode" => open[q] = name
                       /\ safe \subseteq Holds(Named) \cup Holds(left[q])
                       /\ Outgrown(Count(Named) + Count(left[q])))'
    BY DEF OnTheWay
  <2>1. q = p
    BY <1>3
  <2>2. QED
    BY <1>1, <1>4, <1>5, <1>6, <1>7, <1>8, <2>1 DEF Outgrown, Has
<1>10. OneRewriter' /\ InLog' /\ InCopy' /\ InHand'
  BY <1>3, <1>4 DEF OneRewriter, InLog, InCopy, InHand, Rewriting, Dumping
<1>11. QED
  BY <1>9, <1>10 DEF Covered

\* The rewriter opens the log that it writes to.
LEMMA ReopensSafely ==
    ASSUME LogTyped, LogTyped', SafeInv, NEW p \in Procs, Reopen(p) PROVE SafeInv'
<1> SUFFICES ASSUME safe' # {} PROVE Covered'
  BY DEF SafeInv, Reopen
<1>1. OneRewriter /\ OnTheWay /\ safe # {} /\ safe' = safe
  BY DEF SafeInv, Covered, Reopen
<1>2. /\ pc[p] = "reopen" /\ pc' = [pc EXCEPT ![p] = "encode"] /\ name # None
      /\ open' = [open EXCEPT ![p] = name]
      /\ UNCHANGED <<name, file, loaded, left, safe>>
  BY <1>1 DEF Reopen, Goto, OnTheWay, Dumping
<1>3. \A q \in Procs : /\ pc'[q] \in Rewriting <=> pc[q] \in Rewriting
                       /\ pc'[q] \in Loaded <=> pc[q] \in Loaded
                       /\ q # p => pc'[q] \notin Rewriting /\ pc'[q] # "delete"
  BY <1>1, <1>2 DEF OneRewriter, Rewriting, Loaded, LogTyped, TypeOK
<1>4. pc'[p] = "encode" /\ open'[p] = name /\ pc'[p] # "delete"
  BY <1>2 DEF LogTyped, TypeOK
<1>5. OnTheWay'
  <2> SUFFICES ASSUME NEW q \in Procs, pc'[q] \in Dumping
               PROVE  (/\ pc[q] # "ensure" => name # None
                       /\ pc[q] = "encode" => open[q] = name
                       /\ safe \subseteq Holds(Named) \cup Holds(left[q])
                       /\ Outgrown(Count(Named) + Count(left[q])))'
    BY DEF OnTheWay
  <2>1. q = p
    BY <1>3 DEF Rewriting, Dumping
  <2>2. /\ safe \subseteq Holds(Named) \cup Holds(left[p])
        /\ Outgrown(Count(Named) + Count(left[p]))
    BY <1>1, <1>2 DEF OnTheWay, Dumping
  <2>3. QED
    BY <1>2, <1>3, <1>4, <2>1, <2>2 DEF Outgrown, Has, Named
<1>6. OneRewriter' /\ InLog' /\ InCopy' /\ InHand'
  BY <1>3, <1>4 DEF OneRewriter, InLog, InCopy, InHand, Rewriting, Dumping
<1>7. QED
  BY <1>5, <1>6 DEF Covered

\* A line that is written is in the log and no longer left: nothing is lost, and the
\* number of lines in both stays the same.
LEMMA EncodesSafely ==
    ASSUME LogTyped, LogTyped', SafeInv, NEW p \in Procs, NEW e \in Spans, Encode(p, e)
    PROVE  SafeInv'
<1> SUFFICES ASSUME safe' # {} PROVE Covered'
  BY DEF SafeInv, Encode
<1>1. OneRewriter /\ OnTheWay /\ safe # {}
  BY DEF SafeInv, Covered, Encode
<1>2. /\ pc[p] = "encode" /\ left[p][e] > 0 /\ open[p] = name /\ name # None /\ name \in Files
      /\ file' = [file EXCEPT ![name][e] = @ + 1]
      /\ left' = [left EXCEPT ![p][e] = @ - 1]
      /\ UNCHANGED <<name, pc, loaded, safe, open>>
  BY <1>1 DEF Encode, OnTheWay, Dumping, LogTyped, TypeOK
<1>3. \A q \in Procs \ {p} : pc[q] \notin Rewriting /\ pc[q] # "delete"
  BY <1>1, <1>2 DEF OneRewriter, Rewriting
<1>4. /\ Named = file[name] /\ Named' = file'[name]
      /\ Named \in Lines /\ Named' \in Lines /\ left[p] \in Lines /\ left'[p] \in Lines
  BY <1>2 DEF Named, LogTyped, TypeOK
<1>5. \A s \in Spans : /\ Named'[s] = IF s = e THEN Named[s] + 1 ELSE Named[s]
                       /\ left[p][s] = IF s = e THEN left'[p][s] + 1 ELSE left'[p][s]
  BY <1>2, <1>4 DEF LogTyped, TypeOK, Lines
<1>6. Count(Named') = Count(Named) + 1 /\ Count(left[p]) = Count(left'[p]) + 1
  <2>1. ASSUME NEW lines \in Lines, NEW more \in Lines,
               \A s \in Spans : more[s] = IF s = e THEN lines[s] + 1 ELSE lines[s]
        PROVE  Count(more) = Count(lines) + 1
    BY <2>1, CountMore DEF Lines
  <2>2. Count(Named') = Count(Named) + 1
    BY <1>4, <1>5, <2>1
  <2>3. Count(left[p]) = Count(left'[p]) + 1
    BY <1>4, <1>5, <2>1
  <2>4. QED
    BY <2>2, <2>3
<1>7. Count(Named') + Count(left'[p]) = Count(Named) + Count(left[p])
  <2>1. Count(Named) \in Nat /\ Count(left'[p]) \in Nat
    BY <1>4, CountFacts DEF Lines
  <2>2. QED
    BY <1>6, <2>1
<1>8. Holds(Named) \cup Holds(left[p]) \subseteq Holds(Named') \cup Holds(left'[p])
  BY <1>4, <1>5 DEF Holds, Lines
<1>9. OnTheWay'
  <2> SUFFICES ASSUME NEW q \in Procs, pc'[q] \in Dumping
               PROVE  (/\ pc[q] # "ensure" => name # None
                       /\ pc[q] = "encode" => open[q] = name
                       /\ safe \subseteq Holds(Named) \cup Holds(left[q])
                       /\ Outgrown(Count(Named) + Count(left[q])))'
    BY DEF OnTheWay
  <2>1. q = p
    BY <1>2, <1>3 DEF Rewriting, Dumping
  <2>2. /\ safe \subseteq Holds(Named) \cup Holds(left[p])
        /\ Outgrown(Count(Named) + Count(left[p]))
    BY <1>1, <1>2 DEF OnTheWay, Dumping
  <2>3. QED
    BY <1>2, <1>7, <1>8, <2>1, <2>2 DEF Outgrown, Has
<1>10. OneRewriter' /\ InLog' /\ InCopy' /\ InHand'
  BY <1>1, <1>2, <1>3 DEF OneRewriter, InLog, InCopy, InHand, Rewriting, Dumping
<1>11. QED
  BY <1>9, <1>10 DEF Covered

\* With nothing left to write, every safe span is in the log.
LEMMA FinishesSafely ==
    ASSUME LogTyped, LogTyped', SafeInv, NEW p \in Procs, Finish(p) PROVE SafeInv'
<1> SUFFICES ASSUME safe' # {} PROVE Covered'
  BY DEF SafeInv, Finish
<1>1. OneRewriter /\ OnTheWay /\ safe # {}
  BY DEF SafeInv, Covered, Finish
<1>2. /\ pc[p] = "encode" /\ left[p] = NoLines /\ name # None
      /\ pc' = [pc EXCEPT ![p] = "idle"]
      /\ \A q \in Procs \ {p} : loaded'[q] = loaded[q]
      /\ UNCHANGED <<name, file, safe>>
  BY <1>1 DEF Finish, Written, Leave, Goto, OnTheWay, Dumping, LogTyped, TypeOK
<1>3. \A q \in Procs : /\ pc'[q] \notin Rewriting /\ pc'[q] # "delete"
                       /\ pc'[q] \in Loaded => q # p /\ pc[q] \in Loaded
  BY <1>1, <1>2 DEF OneRewriter, Rewriting, Loaded, LogTyped, TypeOK
<1>4. /\ safe \subseteq Holds(Named) \cup Holds(left[p])
      /\ Outgrown(Count(Named) + Count(left[p]))
  BY <1>1, <1>2 DEF OnTheWay, Dumping
<1>5. Named = file[name] /\ Holds(left[p]) = {} /\ Count(left[p]) = 0
  BY <1>2, Counts, CountFacts DEF Named, Holds, NoLines, Lines
<1>6. Count(Named) + Count(left[p]) = Count(file[name])
  BY <1>2, <1>5, Counts
<1>7. Has(file[name]) /\ Outgrown(Count(file[name]))
  BY <1>4, <1>5, <1>6 DEF Has
<1>8. InLog'
  BY <1>2, <1>3, <1>7 DEF InLog, Outgrown, Has
<1>9. OneRewriter' /\ InCopy' /\ InHand' /\ OnTheWay'
  BY <1>3 DEF OneRewriter, InCopy, InHand, OnTheWay, Rewriting, Dumping
<1>10. QED
  BY <1>8, <1>9 DEF Covered

\* Nobody begins to delete a log that holds a safe span, and nobody deletes it then.
LEMMA DeletesSafely ==
    ASSUME LogTyped, LogTyped', SafeInv, NEW p \in Procs,
           \/ Delete(p)
           \/ Begin(p) /\ pc[p] = "idle" /\ name # None /\ Holds(file[name]) \subseteq Quiet
    PROVE  SafeInv'
<1> SUFFICES ASSUME safe' # {}, safe' = safe PROVE FALSE
  BY DEF SafeInv, Delete, Begin
<1>1. Covered /\ safe \cap Quiet = {}
  BY DEF SafeInv
<1>2. ~Delete(p)
  BY <1>1 DEF Delete, Covered, OneRewriter
<1>3. \A q \in Procs : pc[q] \notin Dumping
  BY <1>2 DEF Begin, Rewriting, Dumping
<1>4. QED
  BY <1>1, <1>2, <1>3 DEF Covered, InLog, Has

\* Nothing is safe at the beginning.
LEMMA InitSafeInv == Init => SafeInv
  BY DEF Init, SafeInv

\* Every step keeps the safe spans covered.
LEMMA NextSafeInv == LogTyped /\ LogTyped' /\ SafeInv /\ [Next]_vars => SafeInv'
<1> SUFFICES ASSUME LogTyped, LogTyped', SafeInv, [Next]_vars PROVE SafeInv'
  OBVIOUS
<1>0. \A p \in Procs : pc[p] \in Steps
  BY DEF LogTyped, TypeOK
\* The end of a process that has not removed the log.
<1>a. ASSUME NEW p \in Procs, Leave(p), UNCHANGED <<name, file, safe>>, pc[p] \notin Dumping
      PROVE  SafeInv'
  BY <1>a, Steady DEF Leave, Goto, Loaded, Rewriting, LogTyped, TypeOK
<1>1. ASSUME NEW p \in Procs, NEW e \in Spans, Record(p, e) PROVE SafeInv'
  <2>1. name' # None /\ (name # None => name' = name)
    BY <1>1, LogAssumption DEF Record, Ensure, LogTyped, TypeOK, Files
  <2>2. QED
    BY <1>1, <2>1, Creates DEF Record, Goto
<1>2. ASSUME NEW p \in Procs, NEW r \in {"finalize", "refresh"}, Load(p, r) PROVE SafeInv'
  <2>1. CASE Holds(file[name]) \subseteq Quiet
    BY <1>2, <2>1, DeletesSafely DEF Load
  <2>2. CASE ~(Holds(file[name]) \subseteq Quiet)
    BY <1>2, <2>2, Steady DEF Load, Goto, Dumping, Rewriting, LogTyped, TypeOK
  <2>3. QED
    BY <2>1, <2>2
<1>3. ASSUME NEW p \in Procs, NEW usage \in BOOLEAN, Proceed(p, usage) PROVE SafeInv'
  BY <1>3, Steady DEF Proceed, Goto, Dumping, Rewriting, Loaded, LogTyped, TypeOK
<1>4. ASSUME NEW p \in Procs, NEW e \in Spans, Encode(p, e) PROVE SafeInv'
  BY <1>4, EncodesSafely
<1>5. ASSUME NEW p \in Procs, Open(p) PROVE SafeInv'
  <2>1. CASE name = None
    BY <1>5, <1>a, <2>1 DEF Open, Dumping
  <2>2. CASE name # None
    BY <1>5, <2>2, Steady DEF Open, Goto, Dumping, Rewriting, Loaded, LogTyped, TypeOK
  <2>3. QED
    BY <2>1, <2>2
<1>6. ASSUME NEW p \in Procs, Append(p) PROVE SafeInv'
  BY <1>6, AppendsSafely
<1>7. ASSUME NEW p \in Procs, Delete(p) PROVE SafeInv'
  BY <1>7, DeletesSafely
<1>8. ASSUME NEW p \in Procs, Claim(p) PROVE SafeInv'
  <2>1. /\ pc[p] = "claim" /\ pc' = [pc EXCEPT ![p] = "check"]
        /\ \A q \in Procs \ {p} : loaded'[q] = loaded[q] /\ left'[q] = left[q]
        /\ UNCHANGED <<name, file, open, safe>>
        /\ loaded'[p] = loaded[p] \/ (name # None /\ loaded'[p] = file[name])
    BY <1>8 DEF Claim, Goto, LogTyped, TypeOK
  <2>2. QED
    BY <2>1, Steady DEF Dumping, Rewriting, Loaded, LogTyped, TypeOK
<1>9. ASSUME NEW p \in Procs, ClaimFails(p) PROVE SafeInv'
  BY <1>9, <1>a DEF ClaimFails, Dumping
<1>10. ASSUME NEW p \in Procs, NothingLater(p) PROVE SafeInv'
  BY <1>10, <1>a DEF NothingLater, Dumping
<1>11. ASSUME NEW p \in Procs, Scan(p) PROVE SafeInv'
  <2>1. CASE name = None
    BY <1>11, <2>1, Steady DEF Scan, Goto, Dumping, Rewriting, Loaded, LogTyped, TypeOK
  <2>2. CASE name # None
    BY <1>11, <2>2, ScansSafely
  <2>3. QED
    BY <2>1, <2>2
<1>12. ASSUME NEW p \in Procs, Rename(p) PROVE SafeInv'
  BY <1>12, RenamesSafely
<1>13. ASSUME NEW p \in Procs, Keep(p) PROVE SafeInv'
  BY <1>13, <1>a DEF Keep, Dumping
<1>14. ASSUME NEW p \in Procs, Rewrite(p) PROVE SafeInv'
  BY <1>14, RewritesSafely
<1>15. ASSUME NEW p \in Procs, Remove(p) PROVE SafeInv'
  BY <1>15, RemovesSafely
<1>16. ASSUME NEW p \in Procs, Recreate(p) PROVE SafeInv'
  <2>1. name' # None /\ (name # None => name' = name)
    BY <1>16, LogAssumption DEF Recreate, Ensure, LogTyped, TypeOK, Files
  <2>2. QED
    BY <1>16, <2>1, Creates DEF Recreate, Goto
<1>17. ASSUME NEW p \in Procs, Reopen(p) PROVE SafeInv'
  BY <1>17, ReopensSafely
<1>18. ASSUME NEW p \in Procs, Finish(p) PROVE SafeInv'
  BY <1>18, FinishesSafely
<1>19. ASSUME NEW p \in Procs, Crash(p) PROVE SafeInv'
  <2>1. CASE pc[p] \in Dumping
    BY <1>19, <2>1 DEF Crash, Dumping, SafeInv
  <2>2. CASE pc[p] \notin Dumping
    BY <1>19, <1>a, <2>2 DEF Crash, Dumping
  <2>3. QED
    BY <2>1, <2>2
<1>20. CASE UNCHANGED vars
  BY <1>20 DEF vars, SafeInv, Covered, OneRewriter, InLog, InCopy, InHand, OnTheWay, Outgrown,
               Has, Named
<1>21. QED
  BY <1>1, <1>2, <1>3, <1>4, <1>5, <1>6, <1>7, <1>8, <1>9, <1>10,
     <1>11, <1>12, <1>13, <1>14, <1>15, <1>16, <1>17, <1>18, <1>19, <1>20 DEF Next

\* A span with activity that was appended while no rewrite was under way, to a log that
\* held all that anybody had loaded, is in the log whenever no rewrite is under way,
\* until a rewriter dies halfway or two overlap.
THEOREM SafeSpansStay == Spec => []SafeSpansKept
<1>1. SafeInv => SafeSpansKept
  BY DEF SafeInv, Covered, InLog, Has, SafeSpansKept, RewriteUnderWay, Rewriting, Dumping
<1>2. Init => LogTyped /\ SafeInv
  BY InitLogTyped, InitSafeInv
<1>3. LogTyped /\ SafeInv /\ [Next]_vars => (LogTyped /\ SafeInv)'
  BY NextLogTyped, NextSafeInv
<1>4. QED
  BY <1>1, <1>2, <1>3, PTL DEF Spec
============================================================================
