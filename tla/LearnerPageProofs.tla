------------------------- MODULE LearnerPageProofs -------------------------
(***************************************************************************)
(* For every number of jobs, waits and events: the page shows no event     *)
(* twice and misses none, in the hook, after a reload and in the proof     *)
(* panel, and takes a running job from its registry only when a            *)
(* compilation runs on in a session that was rejected under it.            *)
(*                                                                         *)
(* The argument: until a wait is given up while its page is under way,     *)
(* only the monitor of the controller asks, from the cursor of the hook    *)
(* (OneFollows); a page then continues what is there (MergedPrefix).  What *)
(* the merges of a page and of the panel compute is shown by induction     *)
(* over their indices.  The library's theorems of induction are about      *)
(* predicates and cannot be applied here, so induction is first proved for *)
(* sets of numbers, from the pigeonhole principle (NatSetInduction).       *)
(***************************************************************************)
EXTENDS LearnerPage, FiniteSetTheorems, SequenceTheorems, TLAPS

\* A final page is of an ended job.
EndsAreReal ==
  \A i \in DOMAIN monitors :
    monitors[i].pc # "done" /\ monitors[i].page.status \in Ended =>
      status[monitors[i].job] \in Ended

SameKind(j, k) == k \in Compiles <=> j \in Compiles

\* Of each kind one job at most is under way or verified; a session that got past
\* its compilation or its run has the verified job that took it there, and a run
\* began in such a session.
Earned ==
  /\ \A j, k \in Jobs :
       SameKind(j, k) /\ {status[j], status[k]} \subseteq {"RUNNING", "VERIFIED"} => j = k
  /\ session \in {"LAB_VERIFIED", "EXPERIMENT_COMPLETED"} =>
       \E k \in Compiles : status[k] = "VERIFIED"
  /\ session = "EXPERIMENT_COMPLETED" => \E k \in Jobs \ Compiles : status[k] = "VERIFIED"
  /\ \A j \in Jobs \ Compiles :
       status[j] # "NONE" => session \in {"LAB_VERIFIED", "EXPERIMENT_COMPLETED"}

\* The controller is that of the monitor that was not aborted.
FollowedLives ==
  /\ controller # None =>
       monitors[controller].pc # "done" /\ monitors[controller].aborted = FALSE
  /\ \A i \in DOMAIN monitors :
       monitors[i].pc # "done" /\ ~ monitors[i].aborted => i = controller

\* No cursor is ahead of the stream it counts.
Behind ==
  /\ active # None => cursor <= stream[active]
  /\ \A j \in Jobs : snapshot[j] # None => snapshot[j].cursor <= stream[j]
  /\ \A i \in DOMAIN monitors : monitors[i].pc # "done" =>
       monitors[i].cursor <= stream[monitors[i].job]
  /\ \A i \in DOMAIN monitors : monitors[i].pc = "answered" =>
       /\ monitors[i].cursor <= monitors[i].page.next
       /\ monitors[i].page.next <= stream[monitors[i].job]

\* No event twice, in what is shown and in what a reload starts from.
Once ==
  /\ IsInjective(events)
  /\ \A j \in Jobs : snapshot[j] # None => IsInjective(snapshot[j].events)

\* Until a wait is given up while its page is under way, only the monitor of the
\* controller asks, for the job and from the cursor of the hook, and what the hook
\* and the snapshots hold is the stream up to their cursors.
OneFollows ==
  ~overlap =>
    /\ controller # None =>
         monitors[controller].job = active /\ monitors[controller].cursor = cursor
    /\ \A i \in DOMAIN monitors : monitors[i].pc \notin {"done", "session"} => i = controller
    /\ active # None => events = Prefix(active, cursor)
    /\ \A j \in Jobs : snapshot[j] # None =>
         snapshot[j].events = Prefix(j, snapshot[j].cursor)

Idle == active = None => events = <<>>

IInv ==
  /\ TypeOK /\ FollowedLives /\ EndsAreReal /\ Earned
  /\ Behind /\ Once /\ OneFollows /\ Idle


-----------------------------------------------------------------------------
(* Recursion and induction over the indices of a sequence *)

\* A set with 0 and every successor has every number: otherwise, below the missing
\* one, adding 1 would map a finite set one to one into itself without 0.
LEMMA NatSetInduction ==
  ASSUME NEW T, 0 \in T, \A n \in Nat : n \in T => n + 1 \in T
  PROVE  \A n \in Nat : n \in T
<1> SUFFICES ASSUME NEW k \in Nat, k \notin T PROVE FALSE OBVIOUS
<1> DEFINE A == {n \in 0..k : n \in T}
           f == [n \in A |-> n + 1]
<1>1. IsFiniteSet(A)
  <2>1. IsFiniteSet(0..k)  BY FS_Interval
  <2> QED BY <2>1, FS_Subset
<1>2. /\ IsFiniteSet(A \ {0}) /\ Cardinality(A \ {0}) = Cardinality(A) - 1
      /\ Cardinality(A) \in Nat
  <2>1. 0 \in A  OBVIOUS
  <2> QED BY <1>1, <2>1, FS_RemoveElement, FS_CardinalityType
<1>3. f \in [A -> A \ {0}]  OBVIOUS
<1>4. \A x, y \in A : f[x] = f[y] => x = y  OBVIOUS
<1>5. Cardinality(A \ {0}) < Cardinality(A)  BY <1>2
<1> HIDE DEF A, f
<1> QED BY <1>1, <1>2, <1>3, <1>4, <1>5, FS_PigeonHole

\* The same up to n.
LEMMA UpTo ==
  ASSUME NEW n \in Nat, NEW T, 0 \in T, \A k \in 1..n : k - 1 \in T => k \in T
  PROVE  \A k \in 0..n : k \in T
<1> DEFINE U == {k \in Nat : k <= n => k \in T}
<1>1. 0 \in U  OBVIOUS
<1>2. ASSUME NEW k \in Nat, k \in U PROVE k + 1 \in U
  <2>1. CASE k + 1 <= n
    <3>1. k + 1 \in 1..n /\ (k + 1) - 1 = k /\ k <= n  BY <2>1
    <3> QED BY <1>2, <3>1
  <2> QED BY <2>1
<1>3. \A k \in Nat : k \in U
  <2> HIDE DEF U
  <2> QED BY <1>1, <1>2, NatSetInduction
<1> QED BY <1>3

\* f starts with b and makes the n steps of h.
Makes(f, S, b, n, h) ==
  /\ f \in [0..n -> S] /\ f[0] = b
  /\ \A k \in 1..n : f[k] = h[k][f[k - 1]]

\* n steps can be made from everywhere.
LEMMA Recursion ==
  ASSUME NEW S, NEW b \in S, NEW n \in Nat, NEW h, h \in [1..n -> [S -> S]]
  PROVE  \E f : Makes(f, S, b, n, h)
<1> DEFINE Good(f, m) == f[0] = b /\ \A k \in 1..m : f[k] = h[k][f[k - 1]]
           T == {m \in 0..n : \E f \in [0..m -> S] : Good(f, m)}
<1>1. 0 \in T
  <2>1. [k \in 0..0 |-> b] \in [0..0 -> S] /\ Good([k \in 0..0 |-> b], 0)  OBVIOUS
  <2> HIDE DEF Good
  <2> QED BY <2>1
<1>2. ASSUME NEW m \in 1..n, m - 1 \in T PROVE m \in T
  <2>1. PICK f \in [0..(m - 1) -> S] : Good(f, m - 1)
    BY <1>2
  <2> DEFINE g == [k \in 0..m |-> IF k = m THEN h[m][f[m - 1]] ELSE f[k]]
  <2>2. g \in [0..m -> S]  OBVIOUS
  <2>3. Good(g, m)
    <3>1. g[0] = b  BY <2>1
    <3>2. ASSUME NEW k \in 1..m PROVE g[k] = h[k][g[k - 1]]
      <4>1. k - 1 \in 0..m /\ k - 1 # m  OBVIOUS
      <4>2. g[k - 1] = f[k - 1]  BY <4>1
      <4>3. k # m => k \in 1..(m - 1)  OBVIOUS
      <4> QED BY <2>1, <4>2, <4>3
    <3> HIDE DEF g
    <3> QED BY <3>1, <3>2
  <2> HIDE DEF Good, g
  <2> QED BY <2>2, <2>3
<1>3. n \in T
  <2> HIDE DEF T
  <2>1. \A m \in 0..n : m \in T  BY <1>1, <1>2, UpTo
  <2> QED BY <2>1
<1> QED BY <1>3 DEF Makes

-----------------------------------------------------------------------------
(* What rememberEvents keeps *)

\* A merge takes the events of the page one after the other.
LEMMA MergedSteps ==
  ASSUME NEW E, NEW es \in Seq(E), NEW page \in Seq(E)
  PROVE  \E f \in [0..Len(page) -> Seq(E)] :
           /\ f[0] = es /\ f[Len(page)] = Merged(es, page)
           /\ \A k \in 1..Len(page) :
                f[k] = IF page[k] \in Range(es) THEN f[k - 1] ELSE Append(f[k - 1], page[k])
<1> DEFINE n == Len(page)
           Rec(f) == f = [k \in 0..n |->
                            IF k = 0 THEN es
                            ELSE IF page[k] \in Range(es) THEN f[k - 1]
                            ELSE Append(f[k - 1], page[k])]
           h == [k \in 1..n |-> [acc \in Seq(E) |->
                   IF page[k] \in Range(es) THEN acc ELSE Append(acc, page[k])]]
           m == CHOOSE f : Rec(f)
<1>1. n \in Nat /\ \A k \in 1..n : page[k] \in E  OBVIOUS
<1>2. h \in [1..n -> [Seq(E) -> Seq(E)]]
  BY <1>1
<1>3. PICK f \in [0..n -> Seq(E)] : f[0] = es /\ \A k \in 1..n : f[k] = h[k][f[k - 1]]
  <2> DEFINE S == Seq(E)
  <2>1. es \in S /\ h \in [1..n -> [S -> S]]  BY <1>2
  <2> HIDE DEF n, h, S
  <2>2. n \in Nat  BY <1>1
  <2>3. \E f : Makes(f, S, es, n, h)
    BY <2>1, <2>2, Recursion
  <2> QED BY <2>3 DEF S, Makes
<1>4. Rec(f)
  <2>1. \A k \in 0..n : k # 0 => k \in 1..n /\ k - 1 \in 0..n  BY <1>1
  <2>2. \A k \in 1..n : f[k - 1] \in Seq(E)  BY <1>1
  <2> HIDE DEF n
  <2> QED BY <1>3, <2>1, <2>2
<1>5. Rec(m)
  <2> HIDE DEF Rec
  <2> QED BY <1>4
<1>6. Merged(es, page) = m[n]
  BY DEF Merged
<1> HIDE DEF m, h
<1>7. /\ m[0] = es
      /\ \A k \in 1..n : m[k] = IF page[k] \in Range(es) THEN m[k - 1] ELSE Append(m[k - 1], page[k])
  <2>1. 0 \in 0..n /\ \A k \in 1..n : k \in 0..n /\ k # 0  BY <1>1
  <2> HIDE DEF n
  <2> QED BY <1>5, <2>1
<1>8. m \in [0..n -> Seq(E)]
  <2>1. \A k \in 0..n : k \in {i \in Nat : m[i] \in Seq(E)}
    <3> DEFINE T == {i \in Nat : m[i] \in Seq(E)}
    <3>1. 0 \in T  BY <1>7
    <3>2. ASSUME NEW k \in 1..n, k - 1 \in T PROVE k \in T
      <4>1. m[k] = m[k - 1] \/ m[k] = Append(m[k - 1], page[k])  BY <1>7
      <4>2. m[k - 1] \in Seq(E) /\ page[k] \in E /\ k \in Nat  BY <1>1, <3>2
      <4>3. Append(m[k - 1], page[k]) \in Seq(E)  BY <4>2
      <4> QED BY <4>1, <4>2, <4>3
    <3> HIDE DEF T
    <3>3. \A k \in 0..n : k \in T  BY <1>1, <3>1, <3>2, UpTo
    <3> QED BY <3>3 DEF T
  <2> QED BY <1>5, <2>1
<1> QED BY <1>6, <1>7, <1>8

\* A merge has the type of its parts.
LEMMA MergedType ==
  ASSUME NEW E, NEW es \in Seq(E), NEW page \in Seq(E)
  PROVE  Merged(es, page) \in Seq(E)
<1>1. PICK f \in [0..Len(page) -> Seq(E)] : f[Len(page)] = Merged(es, page)
  BY MergedSteps
<1>2. Len(page) \in 0..Len(page)  OBVIOUS
<1> QED BY <1>1, <1>2

\* No event twice.
LEMMA MergedOnce ==
  ASSUME NEW E, NEW es \in Seq(E), NEW page \in Seq(E), IsInjective(es), IsInjective(page)
  PROVE  IsInjective(Merged(es, page))
<1> DEFINE n == Len(page)
<1>1. PICK f \in [0..n -> Seq(E)] :
        /\ f[0] = es /\ f[n] = Merged(es, page)
        /\ \A k \in 1..n :
             f[k] = IF page[k] \in Range(es) THEN f[k - 1] ELSE Append(f[k - 1], page[k])
  BY MergedSteps
<1> DEFINE Known(k) == {es[i] : i \in 1..Len(es)} \cup {page[i] : i \in 1..k}
           Sound(k) == /\ \A x, y \in 1..Len(f[k]) : f[k][x] = f[k][y] => x = y
                       /\ \A x \in 1..Len(f[k]) : f[k][x] \in Known(k)
           T == {k \in 0..n : Sound(k)}
<1>2. 0 \in T
  BY <1>1 DEF IsInjective
<1>3. ASSUME NEW k \in 1..n, k - 1 \in T PROVE k \in T
  <2>1. k - 1 \in 0..n /\ f[k - 1] \in Seq(E) /\ Sound(k - 1)  BY <1>3
  <2>2. Known(k - 1) \subseteq Known(k) /\ page[k] \in Known(k)  OBVIOUS
  <2>3. CASE page[k] \in Range(es)
    <3>1. f[k] = f[k - 1]  BY <1>1, <2>3
    <3> HIDE DEF Known
    <3> QED BY <2>1, <2>2, <3>1
  <2>4. CASE page[k] \notin Range(es)
    <3>1. f[k] = Append(f[k - 1], page[k])  BY <1>1, <2>4
    <3>2. page[k] \notin Known(k - 1)
      <4>1. \A i \in 1..Len(es) : es[i] # page[k]  BY <2>4 DEF Range
      <4>2. \A i \in 1..(k - 1) : i \in DOMAIN page /\ k \in DOMAIN page /\ i # k  OBVIOUS
      <4>3. \A i \in 1..(k - 1) : page[i] # page[k]  BY <4>2 DEF IsInjective
      <4> QED BY <4>1, <4>3
    <3>3. /\ Len(f[k]) = Len(f[k - 1]) + 1 /\ f[k][Len(f[k])] = page[k]
          /\ \A x \in 1..Len(f[k - 1]) : f[k][x] = f[k - 1][x]
          /\ Len(f[k - 1]) \in Nat
      BY <2>1, <3>1
    <3>4. \A x \in 1..Len(f[k]) : x = Len(f[k]) \/ x \in 1..Len(f[k - 1])
      BY <3>3
    <3> HIDE DEF Known
    <3>5. \A x \in 1..Len(f[k]) : f[k][x] \in Known(k)
      BY <2>1, <2>2, <3>3, <3>4
    <3>6. ASSUME NEW x \in 1..Len(f[k]), NEW y \in 1..Len(f[k]), f[k][x] = f[k][y]
          PROVE  x = y
      BY <2>1, <3>2, <3>3, <3>4, <3>6
    <3> QED BY <3>5, <3>6
  <2> QED BY <2>3, <2>4
<1>4. Sound(n)
  <2>1. n \in Nat  OBVIOUS
  <2> HIDE DEF Sound
  <2>2. \A k \in 1..n : k - 1 \in T => k \in T  BY <1>3
  <2>3. n \in 0..n  BY <2>1
  <2> HIDE DEF T
  <2>4. n \in T  BY <1>2, <2>1, <2>2, <2>3, UpTo
  <2> QED BY <2>4 DEF T
<1>5. DOMAIN f[n] = 1..Len(f[n])
  <2>1. n \in 0..n  OBVIOUS
  <2>2. f[n] \in Seq(E)  BY <2>1
  <2> QED BY <2>2
<1> QED BY <1>1, <1>4, <1>5 DEF IsInjective

\* The first n events of a job.
LEMMA PrefixFacts ==
  ASSUME NEW j, NEW n \in Nat
  PROVE  /\ Len(Prefix(j, n)) = n /\ DOMAIN Prefix(j, n) = 1..n
         /\ \A k \in 1..n : Prefix(j, n)[k] = <<j, k>>
         /\ Prefix(j, n) \in Seq({j} \X (1..n))
<1>1. Prefix(j, n) = [k \in 1..n |-> <<j, k>>]
  BY DEF Prefix, Slice
<1> QED BY <1>1

\* A page of a job's events.
LEMMA SliceFacts ==
  ASSUME NEW j, NEW c \in Nat, NEW n \in Nat, c <= n
  PROVE  /\ Len(Slice(j, c, n)) = n - c /\ DOMAIN Slice(j, c, n) = 1..(n - c)
         /\ \A k \in 1..(n - c) : Slice(j, c, n)[k] = <<j, c + k>>
         /\ Slice(j, c, n) \in Seq({j} \X (1..n))
         /\ IsInjective(Slice(j, c, n))
<1>1. Slice(j, c, n) = [k \in 1..(n - c) |-> <<j, c + k>>] /\ n - c \in Nat
  BY DEF Slice
<1>2. \A k \in 1..(n - c) : c + k \in 1..n /\ k \in Nat  OBVIOUS
<1>3. \A k, l \in 1..(n - c) : c + k = c + l => k = l  OBVIOUS
<1> QED BY <1>1, <1>2, <1>3 DEF IsInjective

\* The page after what is there continues it.
LEMMA MergedPrefix ==
  ASSUME NEW j, NEW c \in Nat, NEW n \in Nat, c <= n
  PROVE  Merged(Prefix(j, c), Slice(j, c, n)) = Prefix(j, n)
<1> DEFINE E == {j} \X (1..n)
           es == Prefix(j, c)
           page == Slice(j, c, n)
<1>1. /\ es \in Seq(E) /\ Len(es) = c /\ DOMAIN es = 1..c
      /\ \A k \in 1..c : es[k] = <<j, k>>
  <2>1. 1..c \subseteq 1..n  OBVIOUS
  <2> HIDE DEF es
  <2>2. Len(es) = c /\ DOMAIN es = 1..c /\ (\A k \in 1..c : es[k] = <<j, k>>)
        /\ es \in Seq({j} \X (1..c))
    BY PrefixFacts DEF es
  <2> QED BY <2>1, <2>2
<1>2. page \in Seq(E) /\ Len(page) = n - c /\ \A k \in 1..(n - c) : page[k] = <<j, c + k>>
  BY SliceFacts
<1> HIDE DEF es, page, E
<1>3. PICK f \in [0..Len(page) -> Seq(E)] :
        /\ f[0] = es /\ f[Len(page)] = Merged(es, page)
        /\ \A k \in 1..Len(page) :
             f[k] = IF page[k] \in Range(es) THEN f[k - 1] ELSE Append(f[k - 1], page[k])
  BY <1>1, <1>2, MergedSteps
<1> DEFINE T == {k \in Nat : f[k] = Prefix(j, c + k)}
<1>4. 0 \in T
  BY <1>3 DEF es
<1>5. ASSUME NEW k \in 1..(n - c), k - 1 \in T PROVE k \in T
  <2>1. page[k] = <<j, c + k>>  BY <1>2
  <2>2. page[k] \notin Range(es)
    <3>1. \A i \in 1..c : c + k # i  OBVIOUS
    <3> QED BY <1>1, <2>1, <3>1 DEF Range
  <2>3. f[k] = Append(f[k - 1], <<j, c + k>>)
    BY <1>2, <1>3, <2>1, <2>2
  <2>4. f[k - 1] = Prefix(j, c + (k - 1))  BY <1>5
  <2>5. Append(Prefix(j, c + (k - 1)), <<j, c + k>>) = Prefix(j, c + k)
    <3>1. c + (k - 1) \in Nat /\ c + k \in Nat /\ c + k = (c + (k - 1)) + 1  OBVIOUS
    <3>2. ASSUME NEW m \in Nat PROVE Append(Prefix(j, m), <<j, m + 1>>) = Prefix(j, m + 1)
      <4>1. /\ Prefix(j, m) = [i \in 1..m |-> <<j, i>>]
            /\ Prefix(j, m + 1) = [i \in 1..(m + 1) |-> <<j, i>>]
        BY DEF Prefix, Slice
      <4>2. \A i \in 1..(m + 1) : i = m + 1 \/ i \in 1..m  OBVIOUS
      <4> QED BY <4>1, <4>2
    <3> QED BY <3>1, <3>2
  <2>6. k \in Nat /\ f[k] = Prefix(j, c + k)  BY <2>3, <2>4, <2>5
  <2> QED BY <2>6
<1>6. f[n - c] = Prefix(j, c + (n - c))
  <2>1. n - c \in Nat /\ n - c \in 0..(n - c)  OBVIOUS
  <2> HIDE DEF T
  <2>2. n - c \in T  BY <1>4, <1>5, <2>1, UpTo
  <2> QED BY <2>2 DEF T
<1>7. c + (n - c) = n  OBVIOUS
<1> QED BY <1>2, <1>3, <1>6, <1>7 DEF es, page

-----------------------------------------------------------------------------
(* What the proof panel shows *)

\* Admitting an event keeps the type.
LEMMA AdmitType ==
  ASSUME NEW merged \in Seq(Events), NEW e \in Events
  PROVE  Admit(merged, e) \in Seq(Events)
BY DEF Admit

\* So does the panel.
LEMMA AdmittedSteps ==
  ASSUME NEW all \in Seq(Events)
  PROVE  \E f \in [0..Len(all) -> Seq(Events)] :
           /\ f[0] = <<>> /\ f[Len(all)] = Admitted(all)
           /\ \A k \in 1..Len(all) : f[k] = Admit(f[k - 1], all[k])
<1> DEFINE n == Len(all)
           Rec(f) == f = [k \in 0..n |-> IF k = 0 THEN <<>> ELSE Admit(f[k - 1], all[k])]
           S == Seq(Events)
           h == [k \in 1..n |-> [acc \in S |-> Admit(acc, all[k])]]
           m == CHOOSE f : Rec(f)
<1>1. n \in Nat /\ (\A k \in 1..n : all[k] \in Events) /\ <<>> \in S  OBVIOUS
<1>2. h \in [1..n -> [S -> S]]
  BY <1>1, AdmitType
<1>3. PICK f : Makes(f, S, <<>>, n, h)
  <2> HIDE DEF n, h, S
  <2>1. n \in Nat /\ <<>> \in S  BY <1>1
  <2> QED BY <1>2, <2>1, Recursion
<1>4. Rec(f)
  <2> HIDE DEF S
  <2>1. \A k \in 0..n : k # 0 => k \in 1..n /\ k - 1 \in 0..n  BY <1>1
  <2>2. f \in [0..n -> S] /\ f[0] = <<>> /\ \A k \in 1..n : f[k] = h[k][f[k - 1]]
    BY <1>3 DEF Makes
  <2>3. \A k \in 1..n : f[k] = Admit(f[k - 1], all[k])
    <3>1. \A k \in 1..n : k - 1 \in 0..n  BY <1>1
    <3> HIDE DEF n
    <3> QED BY <2>2, <3>1
  <2> HIDE DEF n, h
  <2> QED BY <2>1, <2>2, <2>3
<1>5. Rec(m)
  <2> HIDE DEF Rec
  <2> QED BY <1>4
<1>6. Admitted(all) = m[n]
  BY DEF Admitted
<1> HIDE DEF m, h
<1>7. m[0] = <<>> /\ \A k \in 1..n : m[k] = Admit(m[k - 1], all[k])
  <2>1. 0 \in 0..n /\ \A k \in 1..n : k \in 0..n /\ k # 0  BY <1>1
  <2> HIDE DEF n
  <2> QED BY <1>5, <2>1
<1>8. m \in [0..n -> S]
  <2> DEFINE T == {i \in Nat : m[i] \in S}
  <2>1. 0 \in T  BY <1>1, <1>7
  <2>2. ASSUME NEW k \in 1..n, k - 1 \in T PROVE k \in T
    <3>1. m[k] = Admit(m[k - 1], all[k]) /\ k \in Nat  BY <1>7
    <3>2. m[k - 1] \in S /\ all[k] \in Events  BY <1>1, <2>2
    <3> QED BY <3>1, <3>2, AdmitType
  <2> HIDE DEF T
  <2>3. \A k \in 0..n : k \in T  BY <1>1, <2>1, <2>2, UpTo
  <2> QED BY <1>5, <2>3 DEF T
<1> QED BY <1>6, <1>7, <1>8

\* What is admitted is in order, whatever it comes from, and without a gap if
\* nothing comes before its predecessor.
LEMMA AdmittedInOrder ==
  ASSUME NEW all \in Seq(Events)
  PROVE  InOrder(Admitted(all)) /\ (WithoutGap(all) => WithoutGap(Admitted(all)))
<1> DEFINE n == Len(all)
<1>1. PICK f \in [0..n -> Seq(Events)] :
        /\ f[0] = <<>> /\ f[n] = Admitted(all)
        /\ \A k \in 1..n : f[k] = Admit(f[k - 1], all[k])
  BY AdmittedSteps
<1> DEFINE Covers(k) == \A i \in 1..k : \E x \in 1..Len(f[k]) :
                          f[k][x][1] = all[i][1] /\ f[k][x][2] >= all[i][2]
           Sound(k) == /\ InOrder(f[k]) /\ Covers(k)
                       /\ WithoutGap(all) => WithoutGap(f[k])
           T == {k \in 0..n : Sound(k)}
<1>2. 0 \in T
  BY <1>1 DEF InOrder, WithoutGap
<1>3. ASSUME NEW k \in 1..n, k - 1 \in T PROVE k \in T
  <2> DEFINE g == f[k - 1]
             e == all[k]
  <2>1. k - 1 \in 0..n /\ g \in Seq(Events) /\ Sound(k - 1) /\ e \in Events
    BY <1>3
  <2>2. f[k] = Admit(g, e)  BY <1>1
  <2>3. Len(g) \in Nat /\ \A x \in 1..Len(g) : g[x] \in Events
    BY <2>1
  <2>4. \A v \in Events : v = <<v[1], v[2]>> /\ v[2] \in Nat /\ v[2] >= 1
    BY ConstantsOK DEF Events
  <2>5. \A i \in 1..k : i = k \/ i \in 1..(k - 1)  OBVIOUS
  <2>6. \A i \in 1..k : all[i] \in Events
    <3>1. \A i \in 1..k : i \in 1..Len(all)  OBVIOUS
    <3> QED BY <3>1
  <2> HIDE DEF g, e
  <2>7. CASE \E x \in 1..Len(g) : g[x][1] = e[1] /\ g[x][2] >= e[2]
    <3>1. f[k] = g
      <4>1. PICK x \in 1..Len(g) : g[x][1] = e[1] /\ g[x][2] >= e[2]  BY <2>7
      <4>2. g[x] \in Range(g)  BY <2>1, <4>1 DEF Range
      <4> QED BY <2>2, <4>1, <4>2 DEF Admit
    <3>2. Covers(k)
      BY <2>1, <2>5, <2>7, <3>1 DEF g, e
    <3>3. InOrder(g) /\ (WithoutGap(all) => WithoutGap(g))
      BY <2>1 DEF g
    <3> HIDE DEF Covers
    <3> QED BY <3>1, <3>2, <3>3
  <2>8. CASE \A x \in 1..Len(g) : ~ (g[x][1] = e[1] /\ g[x][2] >= e[2])
    <3>1. f[k] = Append(g, e)
      BY <2>1, <2>2, <2>8 DEF Admit, Range
    <3>2. /\ Len(f[k]) = Len(g) + 1 /\ f[k][Len(g) + 1] = e
          /\ \A x \in 1..Len(g) : f[k][x] = g[x]
          /\ DOMAIN f[k] = 1..(Len(g) + 1) /\ DOMAIN g = 1..Len(g)
      BY <2>1, <2>3, <3>1
    <3>3. \A x \in 1..(Len(g) + 1) : x = Len(g) + 1 \/ x \in 1..Len(g)
      BY <2>3
    <3>4. InOrder(f[k])
      <4> SUFFICES ASSUME NEW x \in 1..(Len(g) + 1), NEW y \in 1..(Len(g) + 1),
                          x < y, f[k][x][1] = f[k][y][1]
                   PROVE  f[k][x][2] < f[k][y][2]
        BY <3>2 DEF InOrder
      <4>1. x \in 1..Len(g)  BY <2>3
      <4>2. CASE y \in 1..Len(g)
        <5>1. InOrder(g)  BY <2>1 DEF g
        <5> QED BY <3>2, <4>1, <4>2, <5>1 DEF InOrder
      <4>3. CASE y = Len(g) + 1
        <5>1. f[k][x] = g[x] /\ f[k][y] = e  BY <3>2, <4>1, <4>3
        <5>2. ~ (g[x][2] >= e[2])  BY <2>8, <4>1, <5>1
        <5>3. g[x][2] \in Nat /\ e[2] \in Nat  BY <2>1, <2>3, <2>4, <4>1
        <5> QED BY <5>1, <5>2, <5>3
      <4> QED BY <3>3, <4>2, <4>3
    <3>5. Covers(k)
      <4> SUFFICES ASSUME NEW i \in 1..k
                   PROVE  \E x \in 1..Len(f[k]) :
                            f[k][x][1] = all[i][1] /\ f[k][x][2] >= all[i][2]
        OBVIOUS
      <4>1. CASE i = k
        <5>1. Len(g) + 1 \in 1..Len(f[k])  BY <2>3, <3>2
        <5>2. f[k][Len(g) + 1] = all[i] /\ all[i][2] >= all[i][2]
          BY <2>1, <2>4, <3>2, <4>1 DEF e
        <5> QED BY <5>1, <5>2
      <4>2. CASE i \in 1..(k - 1)
        <5>1. PICK x \in 1..Len(g) : g[x][1] = all[i][1] /\ g[x][2] >= all[i][2]
          BY <2>1, <4>2 DEF g
        <5>2. x \in 1..Len(f[k])  BY <2>3, <3>2
        <5> QED BY <3>2, <5>1, <5>2
      <4> QED BY <2>5, <4>1, <4>2
    <3>6. ASSUME WithoutGap(all) PROVE WithoutGap(f[k])
      <4> SUFFICES ASSUME NEW y \in 1..(Len(g) + 1), f[k][y][2] > 1
                   PROVE  \E x \in 1..(y - 1) : f[k][x] = <<f[k][y][1], f[k][y][2] - 1>>
        BY <3>2 DEF WithoutGap
      <4>1. CASE y \in 1..Len(g)
        <5>1. WithoutGap(g)  BY <2>1, <3>6 DEF g
        <5>2. PICK x \in 1..(y - 1) : g[x] = <<g[y][1], g[y][2] - 1>>
          BY <3>2, <4>1, <5>1 DEF WithoutGap
        <5>3. x \in 1..Len(g)  BY <2>3, <4>1
        <5> QED BY <3>2, <4>1, <5>2, <5>3
      <4>2. CASE y = Len(g) + 1
        <5>1. f[k][y] = e /\ e[2] > 1  BY <3>2, <4>2
        <5>2. PICK i \in 1..(k - 1) : all[i] = <<e[1], e[2] - 1>>
          <6>1. k \in DOMAIN all  OBVIOUS
          <6> QED BY <3>6, <5>1, <6>1 DEF WithoutGap, e
        <5>3. PICK x \in 1..Len(g) : g[x][1] = all[i][1] /\ g[x][2] >= all[i][2]
          BY <2>1 DEF g
        <5>4. g[x][1] = e[1] /\ g[x][2] >= e[2] - 1
          BY <5>2, <5>3
        <5>5. g[x] = <<g[x][1], g[x][2]>> /\ g[x][2] \in Nat /\ e[2] \in Nat
          BY <2>1, <2>3, <2>4
        <5>6. ~ (g[x][2] >= e[2])  BY <2>8, <5>4
        <5>7. g[x] = <<e[1], e[2] - 1>>
          <6>1. g[x][2] = e[2] - 1  BY <5>4, <5>5, <5>6
          <6> QED BY <5>4, <5>5, <6>1
        <5>8. x \in 1..(y - 1)  BY <2>3, <4>2
        <5> QED BY <3>2, <5>1, <5>7, <5>8
      <4> QED BY <3>3, <4>1, <4>2
    <3> QED BY <3>4, <3>5, <3>6
  <2> QED BY <2>7, <2>8
<1>4. n \in T
  <2>1. n \in Nat  OBVIOUS
  <2> HIDE DEF Sound
  <2>2. \A k \in 1..n : k - 1 \in T => k \in T  BY <1>3
  <2>3. n \in 0..n  BY <2>1
  <2> HIDE DEF T
  <2> QED BY <1>2, <2>1, <2>2, <2>3, UpTo
<1> QED BY <1>1, <1>4

\* Two sequences without a gap, one after the other, have none.
LEMMA ConcatWithoutGap ==
  ASSUME NEW a \in Seq(Events), NEW b \in Seq(Events), WithoutGap(a), WithoutGap(b)
  PROVE  a \o b \in Seq(Events) /\ WithoutGap(a \o b)
<1> DEFINE c == a \o b
<1>1. /\ c \in Seq(Events) /\ Len(c) = Len(a) + Len(b) /\ Len(a) \in Nat /\ Len(b) \in Nat
      /\ \A k \in 1..Len(a) : c[k] = a[k]
      /\ \A k \in 1..Len(b) : c[Len(a) + k] = b[k]
      /\ DOMAIN c = 1..(Len(a) + Len(b)) /\ DOMAIN a = 1..Len(a) /\ DOMAIN b = 1..Len(b)
  OBVIOUS
<1> HIDE DEF c
<1>2. ASSUME NEW k \in 1..(Len(a) + Len(b)), c[k][2] > 1
      PROVE  \E i \in 1..(k - 1) : c[i] = <<c[k][1], c[k][2] - 1>>
  <2>1. CASE k \in 1..Len(a)
    <3>1. PICK i \in 1..(k - 1) : a[i] = <<a[k][1], a[k][2] - 1>>
      BY <1>1, <1>2, <2>1 DEF WithoutGap
    <3>2. i \in 1..Len(a)  BY <1>1, <2>1
    <3> QED BY <1>1, <2>1, <3>1, <3>2
  <2>2. CASE k \notin 1..Len(a)
    <3>1. k - Len(a) \in 1..Len(b) /\ Len(a) + (k - Len(a)) = k
      BY <1>1, <2>2
    <3>2. PICK l \in 1..Len(b) : k = Len(a) + l  BY <3>1
    <3>3. c[k] = b[l]  BY <1>1, <3>2
    <3>4. PICK i \in 1..(l - 1) : b[i] = <<b[l][1], b[l][2] - 1>>
      BY <1>1, <1>2, <3>2, <3>3 DEF WithoutGap
    <3>5. i \in 1..Len(b) /\ Len(a) + i \in 1..(k - 1)
      BY <1>1, <3>2
    <3>6. c[Len(a) + i] = b[i]  BY <1>1, <3>5
    <3> QED BY <3>3, <3>4, <3>5, <3>6
  <2> QED BY <2>1, <2>2
<1> QED BY <1>1, <1>2 DEF WithoutGap, c

\* Prefixes put one after the other have no gap.
LEMMA FlattenWithoutGap ==
  ASSUME NEW seqs \in Seq({es \in Seq(Events) : WithoutGap(es)})
  PROVE  FlattenSeq(seqs) \in Seq(Events) /\ WithoutGap(FlattenSeq(seqs))
<1> DEFINE n == Len(seqs)
           S == {es \in Seq(Events) : WithoutGap(es)}
           Rec(f) == f = [k \in 1..n |-> IF k = 1 THEN seqs[k] ELSE f[k - 1] \o seqs[k]]
           h == [k \in 1..n |-> [acc \in S |-> acc \o seqs[k]]]
           m == CHOOSE f : Rec(f)
<1>1. n \in Nat /\ (\A k \in 1..n : seqs[k] \in S) /\ <<>> \in S
  <2>1. <<>> \in S  BY DEF WithoutGap
  <2> HIDE DEF WithoutGap
  <2>2. n \in Nat /\ \A k \in 1..n : seqs[k] \in S  OBVIOUS
  <2> QED BY <2>1, <2>2
<1>2. \A a, b \in S : a \o b \in S
  BY ConcatWithoutGap
<1>3. CASE n = 0
  BY <1>1, <1>3 DEF FlattenSeq
<1>4. CASE n # 0
  <2>1. h \in [1..n -> [S -> S]]
    <3> HIDE DEF S, n
    <3> QED BY <1>1, <1>2
  <2>2. PICK f : Makes(f, S, <<>>, n, h)
    <3> HIDE DEF n, h, S
    <3>1. n \in Nat /\ <<>> \in S  BY <1>1
    <3> QED BY <2>1, <3>1, Recursion
  <2>3. f \in [0..n -> S] /\ f[0] = <<>> /\ \A k \in 1..n : f[k] = h[k][f[k - 1]]
    BY <2>2 DEF Makes
  <2>4. \A k \in 1..n : f[k - 1] \in S /\ f[k] = f[k - 1] \o seqs[k]
    <3>1. \A k \in 1..n : k - 1 \in 0..n  BY <1>1
    <3> HIDE DEF n, S
    <3> QED BY <2>3, <3>1
  <2> DEFINE g == [k \in 1..n |-> f[k]]
  <2>5. Rec(g)
    <3>1. ASSUME NEW k \in 1..n
          PROVE  g[k] = IF k = 1 THEN seqs[k] ELSE g[k - 1] \o seqs[k]
      <4>1. CASE k = 1
        <5>1. f[1] = <<>> \o seqs[1] /\ seqs[1] \in Seq(Events)
          <6>1. 1 \in 1..n /\ 1 - 1 = 0  BY <4>1
          <6>2. f[1] = f[1 - 1] \o seqs[1]  BY <2>4, <6>1
          <6> QED BY <1>1, <2>3, <6>1, <6>2
        <5> QED BY <4>1, <5>1
      <4>2. CASE k # 1
        <5>1. k - 1 \in 1..n  BY <1>1, <4>2
        <5> QED BY <2>4, <4>2, <5>1
      <4> QED BY <4>1, <4>2
    <3> HIDE DEF n
    <3> QED BY <3>1
  <2>6. Rec(m)
    <3> HIDE DEF Rec, g
    <3> QED BY <2>5
  <2>7. FlattenSeq(seqs) = m[n]
    BY <1>4 DEF FlattenSeq
  <2> HIDE DEF m
  <2>8. m[n] \in S
    <3> DEFINE T == {k \in Nat : k # 0 => m[k] \in S}
    <3>1. 0 \in T  OBVIOUS
    <3>2. ASSUME NEW k \in 1..n, k - 1 \in T PROVE k \in T
      <4>1. k \in Nat /\ m[k] = IF k = 1 THEN seqs[k] ELSE m[k - 1] \o seqs[k]
        <5>1. k \in Nat  BY <1>1
        <5> HIDE DEF n
        <5>2. m[k] = IF k = 1 THEN seqs[k] ELSE m[k - 1] \o seqs[k]
          BY <2>6
        <5> QED BY <5>1, <5>2
      <4>2. seqs[k] \in S  BY <1>1
      <4>3. k # 1 => m[k - 1] \in S  BY <3>2
      <4> HIDE DEF S
      <4> QED BY <1>2, <4>1, <4>2, <4>3
    <3>3. n \in 0..n  BY <1>1
    <3> HIDE DEF T
    <3>4. n \in T  BY <1>1, <3>1, <3>2, <3>3, UpTo
    <3> QED BY <1>4, <3>4 DEF T
  <2> QED BY <2>7, <2>8
<1> QED BY <1>3, <1>4

\* A stream from its first event has no gap.
LEMMA PrefixWithoutGap ==
  ASSUME NEW j \in Jobs, NEW n \in 0..MaxEvents
  PROVE  Prefix(j, n) \in Seq(Events) /\ WithoutGap(Prefix(j, n))
<1>1. n \in Nat /\ 1..n \subseteq 1..MaxEvents  BY ConstantsOK
<1>2. /\ DOMAIN Prefix(j, n) = 1..n
      /\ \A k \in 1..n : Prefix(j, n)[k] = <<j, k>>
      /\ Prefix(j, n) = [k \in 1..n |-> <<j, k>>]
  <2>1. Prefix(j, n) = [k \in 1..n |-> <<j, k>>]
    BY <1>1 DEF Prefix, Slice
  <2> QED BY <2>1
<1>3. Prefix(j, n) \in Seq(Events)
  BY <1>1, <1>2 DEF Events
<1>4. ASSUME NEW k \in 1..n, k > 1
      PROVE  \E i \in 1..(k - 1) : Prefix(j, n)[i] = <<j, k - 1>>
  <2>1. k - 1 \in 1..(k - 1) /\ k - 1 \in 1..n  BY <1>1, <1>4
  <2> QED BY <1>2, <2>1
<1>5. \A k \in 1..n : Prefix(j, n)[k][1] = j /\ Prefix(j, n)[k][2] = k
  BY <1>2
<1>6. WithoutGap(Prefix(j, n))
  BY <1>2, <1>4, <1>5 DEF WithoutGap
<1> QED BY <1>3, <1>6

\* Whatever the server had recorded, the panel shows it and what the hook
\* follows in order and without a gap.
LEMMA PanelInOrder ==
  ASSUME NEW recorded \in [Jobs -> 0..MaxEvents], events \in Seq(Events), WithoutGap(events)
  PROVE  InOrder(Panel(recorded)) /\ WithoutGap(Panel(recorded))
<1> DEFINE order == SetToSeq(Jobs)
           parts == [k \in DOMAIN order |-> Prefix(order[k], recorded[order[k]])]
           N == Cardinality(Jobs)
<1>1. order \in [1..N -> Jobs] /\ N \in Nat
  <2>1. N \in Nat /\ ExistsBijection(1..N, Jobs)
    BY FS_CardinalityType, ConstantsOK
  <2>2. \E f \in [1..N -> Jobs] : IsInjective(f)
    BY <2>1 DEF ExistsBijection, Bijection, Injection, IsInjective
  <2> QED BY <2>1, <2>2 DEF SetToSeq
<1> HIDE DEF order
<1>2. parts \in Seq({es \in Seq(Events) : WithoutGap(es)})
  <2>1. DOMAIN order = 1..N /\ \A k \in 1..N : order[k] \in Jobs  BY <1>1
  <2>2. \A k \in 1..N : recorded[order[k]] \in 0..MaxEvents  BY <2>1
  <2>3. \A k \in 1..N : parts[k] \in {es \in Seq(Events) : WithoutGap(es)}
    BY <2>1, <2>2, PrefixWithoutGap
  <2>4. DOMAIN parts = 1..N  BY <2>1
  <2> HIDE DEF parts
  <2>5. parts = [k \in 1..N |-> parts[k]]
    BY <2>1 DEF parts
  <2> DEFINE S == {es \in Seq(Events) : WithoutGap(es)}
  <2>6. N \in Nat /\ \A k \in 1..N : parts[k] \in S  BY <1>1, <2>3
  <2> HIDE DEF N, S
  <2>7. parts \in Seq(S)  BY <2>5, <2>6
  <2> QED BY <2>7 DEF S
<1>3. FlattenSeq(parts) \in Seq(Events) /\ WithoutGap(FlattenSeq(parts))
  <2> HIDE DEF parts
  <2> QED BY <1>2, FlattenWithoutGap
<1>4. FlattenSeq(parts) \o events \in Seq(Events) /\ WithoutGap(FlattenSeq(parts) \o events)
  <2> HIDE DEF parts
  <2> QED BY <1>3, ConcatWithoutGap
<1>5. Panel(recorded) = Admitted(FlattenSeq(parts) \o events)
  BY DEF Panel, order
<1> HIDE DEF parts
<1> QED BY <1>4, <1>5, AdmittedInOrder

-----------------------------------------------------------------------------
(* Monitors *)

\* The types of the monitors.
LEMMA MonitorFacts ==
  ASSUME TypeOK
  PROVE  /\ Len(monitors) \in Nat /\ DOMAIN monitors = 1..Len(monitors)
         /\ \A i \in DOMAIN monitors :
              /\ monitors[i] \in Monitors
              /\ monitors[i].pc # "done" => monitors[i] \in Live
<1>1. Len(monitors) \in Nat /\ DOMAIN monitors = 1..Len(monitors)
      /\ \A i \in DOMAIN monitors : monitors[i] \in Monitors
  BY DEF TypeOK
<1> QED BY <1>1 DEF Monitors, Done

\* One monitor is written.
LEMMA BecomeFacts ==
  ASSUME TypeOK, NEW i \in DOMAIN monitors, NEW m, Become(i, m)
  PROVE  /\ DOMAIN monitors' = DOMAIN monitors /\ monitors'[i] = m
         /\ \A k \in DOMAIN monitors : k # i => monitors'[k] = monitors[k]
         /\ m \in Monitors => monitors' \in Seq(Monitors)
<1>1. monitors \in Seq(Monitors) /\ monitors' = [monitors EXCEPT ![i] = m]
  BY DEF TypeOK, Become
<1> QED BY <1>1

\* What cancel() leaves of the monitors.
LEMMA AbortedFacts ==
  ASSUME TypeOK, FollowedLives
  PROVE  /\ Aborted \in Seq(Monitors) /\ DOMAIN Aborted = DOMAIN monitors
         /\ Len(Aborted) = Len(monitors)
         /\ \A i \in DOMAIN monitors : i # controller => Aborted[i] = monitors[i]
         /\ controller # None => LET m == monitors[controller] IN
              /\ m \in Live /\ controller \in DOMAIN monitors
              /\ IF m.pc = "waiting" THEN Aborted[controller] = Done
                 ELSE /\ Aborted[controller] \in Live
                      /\ Aborted[controller].job = m.job /\ Aborted[controller].pc = m.pc
                      /\ Aborted[controller].cursor = m.cursor
                      /\ Aborted[controller].page = m.page
                      /\ Aborted[controller].aborted
<1>1. monitors \in Seq(Monitors)  BY DEF TypeOK
<1>2. CASE controller = None
  <2>1. Aborted = monitors  BY <1>2 DEF Aborted
  <2>2. \A i \in DOMAIN monitors : Aborted[i] = monitors[i]  BY <2>1
  <2> QED BY <1>1, <1>2, <2>1, <2>2
<1>3. CASE controller # None
  <2> DEFINE m == monitors[controller]
             a == IF m.pc = "waiting" THEN Done ELSE [m EXCEPT !.aborted = TRUE]
  <2>1. controller \in DOMAIN monitors  BY <1>3 DEF TypeOK
  <2>2. m \in Live  BY <1>3, <2>1, MonitorFacts DEF FollowedLives
  <2>3. Aborted = [monitors EXCEPT ![controller] = a]
    BY <1>3 DEF Aborted
  <2>4. m.pc # "waiting" =>
          /\ a \in Live /\ a.job = m.job /\ a.pc = m.pc /\ a.cursor = m.cursor /\ a.page = m.page
          /\ a.aborted
    BY <2>2 DEF Live
  <2>5. m.pc = "waiting" => a = Done  OBVIOUS
  <2>6. a \in Monitors  BY <2>4, <2>5 DEF Monitors
  <2> HIDE DEF a, m
  <2> QED BY <1>1, <1>3, <2>1, <2>2, <2>3, <2>4, <2>5, <2>6 DEF m
<1> QED BY <1>2, <1>3

\* Pages are sequences of events.
LEMMA EventsFacts ==
  /\ \A j \in Jobs, n \in 0..MaxEvents : Prefix(j, n) \in Seq(Events)
  /\ \A j \in Jobs, c \in 0..MaxEvents, n \in 0..MaxEvents :
       Slice(j, c, n) \in Seq(Events)
<1>1. ASSUME NEW j \in Jobs, NEW c \in 0..MaxEvents, NEW n \in 0..MaxEvents
      PROVE  Slice(j, c, n) \in Seq(Events)
  <2>1. CASE c <= n
    <3>1. n - c \in Nat /\ Slice(j, c, n) = [k \in 1..(n - c) |-> <<j, c + k>>]
      BY <2>1, ConstantsOK DEF Slice
    <3>2. \A k \in 1..(n - c) : c + k \in 1..MaxEvents
      BY ConstantsOK
    <3>3. \A k \in 1..(n - c) : <<j, c + k>> \in Events
      BY <3>2 DEF Events
    <3> DEFINE d == n - c
    <3>4. d \in Nat /\ Slice(j, c, n) = [k \in 1..d |-> <<j, c + k>>]
          /\ \A k \in 1..d : <<j, c + k>> \in Events
      BY <3>1, <3>3
    <3> HIDE DEF d
    <3>5. Slice(j, c, n) \in [1..d -> Events]
      BY <3>4
    <3> QED BY <3>4, <3>5, SeqDef
  <2>2. CASE n < c
    <3>1. 1..(n - c) = {}  BY <2>2
    <3>2. Slice(j, c, n) = <<>>  BY <3>1 DEF Slice
    <3> QED BY <3>2
  <2>3. c \in Int /\ n \in Int  BY ConstantsOK
  <2> QED BY <2>1, <2>2, <2>3
<1>2. 0 \in 0..MaxEvents  BY ConstantsOK
<1> QED BY <1>1, <1>2 DEF Prefix

-----------------------------------------------------------------------------
(* The types *)

\* The invariant holds at the start.
LEMMA InitInv == Init => IInv
<1> SUFFICES ASSUME Init PROVE IInv  OBVIOUS
<1> USE ConstantsOK DEF Init
<1>1. TypeOK
  <2>1. 0 \in 0..MaxEvents /\ monitors \in Seq(Monitors) /\ events \in Seq(Events)  OBVIOUS
  <2> QED BY <2>1 DEF TypeOK, Statuses, States
<1>2. FollowedLives /\ EndsAreReal /\ Idle
  BY DEF FollowedLives, EndsAreReal, Idle
<1>3. Behind
  BY DEF Behind
<1>4. Once
  BY DEF Once, IsInjective
<1>5. OneFollows
  BY DEF OneFollows
<1>6. Earned
  BY DEF Earned
<1> QED BY <1>1, <1>2, <1>3, <1>4, <1>5, <1>6 DEF IInv

\* TypeOK by the parts that a step may leave alone.
ServerTypes ==
  /\ stream \in [Jobs -> 0..MaxEvents] /\ status \in [Jobs -> Statuses]
  /\ session \in States
HookTypes ==
  /\ active \in Jobs \cup {None} /\ events \in Seq(Events) /\ cursor \in 0..MaxEvents
SnapshotTypes ==
  /\ snapshot \in [Jobs -> {None} \cup [events : Seq(Events), cursor : 0..MaxEvents]]
  /\ \A j \in Jobs : snapshot[j] # None => Valid(j, snapshot[j].events, snapshot[j].cursor)
MonitorTypes ==
  /\ monitors \in Seq(Monitors) /\ controller \in {None} \cup DOMAIN monitors
TabTypes == registry \subseteq Jobs /\ overlap \in BOOLEAN

\* The steps that leave the hook, its monitors and the snapshots alone.
Outside ==
  \/ StartCompilation
  \/ \E j \in Jobs :
       \/ Begin(j) \/ Produce(j) \/ Project(j) \/ CancelJob(j) \/ Retry(j)
       \/ \E s \in Ended : Conclude(j, s)

\* What they leave alone, and what they do with the registry.
LEMMA OutsideFacts ==
  ASSUME Outside
  PROVE  /\ UNCHANGED <<hook, controller, monitors, snapshot, overlap>>
         /\ registry' \subseteq registry \cup Jobs
BY DEF Outside, StartCompilation, Begin, Produce, Project, CancelJob, Retry, Register, Conclude,
       browser, tab

\* A job takes the session on, or leaves it.
LEMMA ProjectedFacts ==
  ASSUME NEW j \in Jobs, NEW s \in Ended
  PROVE  /\ session \in States => Projected(j, s) \in States
         /\ \/ Projected(j, s) = session
            \/ session = "LAB_COMPILING" /\ s # "VERIFIED" /\ Projected(j, s) = "LAB_REJECTED"
            \/ /\ session = "LAB_COMPILING" /\ s = "VERIFIED" /\ j \in Compiles
               /\ Projected(j, s) = "LAB_VERIFIED"
            \/ /\ session = "LAB_VERIFIED" /\ s = "VERIFIED" /\ j \notin Compiles
               /\ Projected(j, s) = "EXPERIMENT_COMPLETED"
BY DEF Projected, States, Ended

\* The types by what they are of.
LEMMA TypeParts ==
  TypeOK <=> ServerTypes /\ HookTypes /\ SnapshotTypes /\ MonitorTypes /\ TabTypes
BY DEF TypeOK, ServerTypes, HookTypes, SnapshotTypes, MonitorTypes, TabTypes

\* The same, after a step.
LEMMA TypePartsNext ==
  TypeOK' <=> ServerTypes' /\ HookTypes' /\ SnapshotTypes' /\ MonitorTypes' /\ TabTypes'
BY DEF TypeOK, ServerTypes, HookTypes, SnapshotTypes, MonitorTypes, TabTypes

\* Steps outside the hook keep the types.
LEMMA OutsideTypesStep ==
  ASSUME TypeOK, Outside
  PROVE  TypeOK'
<1> USE TypeParts
<1>1. HookTypes' /\ SnapshotTypes' /\ MonitorTypes' /\ TabTypes'
  <2>1. /\ UNCHANGED <<hook, snapshot, monitors, controller, overlap>>
        /\ registry' \subseteq registry \cup Jobs
    BY OutsideFacts
  <2> QED BY <2>1 DEF hook, HookTypes, SnapshotTypes, MonitorTypes, TabTypes
<1>2. ServerTypes'
  <2>1. ASSUME NEW j \in Jobs, Produce(j) PROVE ServerTypes'
    <3>1. /\ stream[j] < MaxEvents /\ stream' = [stream EXCEPT ![j] = stream[j] + 1]
          /\ UNCHANGED <<status, session>>
      BY <2>1 DEF Produce
    <3>2. stream[j] + 1 \in 0..MaxEvents
      BY <3>1, ConstantsOK DEF ServerTypes
    <3> QED BY <3>1, <3>2 DEF ServerTypes
  <2>2. ASSUME NEW j \in Jobs, Project(j) PROVE ServerTypes'
    BY <2>2, ProjectedFacts DEF Project, ServerTypes
  <2>3. ASSUME NEW j \in Jobs, CancelJob(j) PROVE ServerTypes'
    <3>1. "FAILED" \in Ended /\ "FAILED" \in Statuses  BY DEF Ended, Statuses
    <3> QED BY <2>3, <3>1, ProjectedFacts DEF CancelJob, ServerTypes
  <2>4. ASSUME NEW j \in Jobs, Begin(j) \/ Retry(j) \/ \E s \in Ended : Conclude(j, s)
        PROVE  ServerTypes'
    BY <2>4 DEF Begin, Retry, Conclude, server, ServerTypes, Statuses
  <2>5. CASE StartCompilation
    BY <2>5 DEF StartCompilation, ServerTypes, States
  <2> QED BY <2>1, <2>2, <2>3, <2>4, <2>5 DEF Outside
<1> QED BY <1>1, <1>2, TypePartsNext

\* What a wait resumes from has its type.
LEMMA ResumedType ==
  ASSUME TypeOK, NEW j \in Jobs
  PROVE  Resumed(j).events \in Seq(Events) /\ Resumed(j).cursor \in 0..MaxEvents
<1>1. HookTypes /\ SnapshotTypes  BY TypeParts
<1>2. CASE snapshot[j] # None
  <2>1. snapshot[j] \in [events : Seq(Events), cursor : 0..MaxEvents]
    BY <1>1, <1>2 DEF SnapshotTypes
  <2> QED BY <1>2, <2>1 DEF Resumed
<1>3. CASE snapshot[j] = None
  <2>1. 0 \in 0..MaxEvents /\ <<>> \in Seq(Events)  BY ConstantsOK
  <2> QED BY <1>1, <1>3, <2>1 DEF Resumed, HookTypes
<1> QED BY <1>2, <1>3

\* Steps of the hook keep the types.
LEMMA HookTypesStep ==
  ASSUME TypeOK, FollowedLives,
         Leave \/ Clear \/ Reload \/ \E j \in Jobs : Wait(j)
  PROVE  TypeOK'
<1> USE TypeParts
<1>1. Aborted \in Seq(Monitors) /\ DOMAIN Aborted = DOMAIN monitors
      /\ Len(Aborted) = Len(monitors) /\ Len(monitors) \in Nat
  BY AbortedFacts, MonitorFacts
<1>2. ServerTypes'
  <2>1. UNCHANGED server  BY DEF Leave, Clear, Reload, Wait
  <2> QED BY <2>1 DEF server, ServerTypes
<1>3. Overlapped \in BOOLEAN
  <2>1. overlap \in BOOLEAN  BY DEF TabTypes
  <2> QED BY <2>1 DEF Overlapped
<1>4. 0 \in 0..MaxEvents /\ <<>> \in Seq(Events)  BY ConstantsOK
<1>5. CASE Leave
  <2>1. MonitorTypes'  BY <1>1, <1>5 DEF Leave, MonitorTypes
  <2>2. HookTypes' /\ SnapshotTypes'  BY <1>5 DEF Leave, hook, HookTypes, SnapshotTypes
  <2>3. TabTypes'  BY <1>3, <1>5 DEF Leave, TabTypes
  <2> QED BY <1>2, <2>1, <2>2, <2>3, TypePartsNext
<1>6. CASE Clear
  <2>1. MonitorTypes'  BY <1>1, <1>6 DEF Clear, MonitorTypes
  <2>2. HookTypes'  BY <1>4, <1>6 DEF Clear, HookTypes
  <2>3. SnapshotTypes'
    <3>1. snapshot' = [snapshot EXCEPT ![active] = None]  BY <1>6 DEF Clear
    <3>2. \A j \in Jobs : snapshot'[j] # None => snapshot'[j] = snapshot[j]
      BY <3>1 DEF SnapshotTypes
    <3>3. snapshot' \in [Jobs -> {None} \cup [events : Seq(Events), cursor : 0..MaxEvents]]
      BY <3>1 DEF SnapshotTypes
    <3> QED BY <3>2, <3>3 DEF SnapshotTypes
  <2>4. TabTypes'  BY <1>3, <1>6 DEF Clear, TabTypes
  <2> QED BY <1>2, <2>1, <2>2, <2>3, <2>4, TypePartsNext
<1>7. CASE Reload
  <2>1. MonitorTypes'
    <3>1. monitors \in Seq(Monitors) /\ Done \in Monitors  BY DEF MonitorTypes, Monitors
    <3>2. [i \in DOMAIN monitors |-> Done] \in Seq(Monitors)  BY <3>1
    <3> QED BY <1>7, <3>2 DEF Reload, MonitorTypes
  <2>2. HookTypes'  BY <1>4, <1>7 DEF Reload, HookTypes
  <2>3. SnapshotTypes' /\ TabTypes'  BY <1>7 DEF Reload, tab, SnapshotTypes, TabTypes
  <2> QED BY <1>2, <2>1, <2>2, <2>3, TypePartsNext
<1>8. ASSUME NEW j \in Jobs, Wait(j) PROVE TypeOK'
  <2> DEFINE from == Resumed(j)
             m == [job |-> j, cursor |-> from.cursor, grace |-> 0, aborted |-> FALSE,
                   pc |-> "asked", page |-> NoPage]
  <2>1. from.events \in Seq(Events) /\ from.cursor \in 0..MaxEvents
    BY ResumedType
  <2>2. m \in Monitors
    <3>1. NoPage \in Pages /\ 0 \in 0..GracePolls  BY ConstantsOK DEF NoPage, Pages, Statuses
    <3> HIDE DEF from
    <3> QED BY <2>1, <3>1 DEF Monitors, Live
  <2>3. /\ active' = j /\ events' = from.events /\ cursor' = from.cursor
        /\ monitors' = Append(Aborted, m) /\ controller' = Len(monitors) + 1
    BY <1>8 DEF Wait
  <2>4. UNCHANGED snapshot /\ registry' \in {registry, registry \cup {j}}
        /\ overlap' = Overlapped
    BY <1>8 DEF Wait, Register
  <2> HIDE DEF m, from
  <2>5. MonitorTypes'
    BY <1>1, <2>2, <2>3 DEF MonitorTypes
  <2>6. HookTypes'  BY <2>1, <2>3 DEF HookTypes
  <2>7. SnapshotTypes'  BY <2>4 DEF SnapshotTypes
  <2>8. TabTypes'  BY <1>3, <2>4 DEF TabTypes
  <2> QED BY <1>2, <2>5, <2>6, <2>7, <2>8, TypePartsNext
<1> QED BY <1>5, <1>6, <1>7, <1>8

\* The steps of a monitor that leave the hook alone.
Polling(i) == Look(i) \/ List(i) \/ Lose(i) \/ Judge(i) \/ Supersede(i) \/ Poll(i)

\* The monitor i goes on as n, for the same job and from the same cursor, and not
\* after a session that came in when it was aborted.
GoesOn(i, n) ==
  /\ n \in Live /\ Become(i, n) /\ controller' = controller
  /\ n.job = monitors[i].job /\ n.cursor = monitors[i].cursor
  /\ n.aborted = monitors[i].aborted /\ n.pc # "session"
  /\ monitors[i].pc = "session" => ~ n.aborted
  /\ n.pc = "answered" => n.page.next = stream[n.job]
  /\ n.page.status \in Ended => n.page.status \in {monitors[i].page.status, status[n.job]}

\* A monitor that receives no page ends or goes on.
LEMMA PollingFacts ==
  ASSUME TypeOK, NEW i \in DOMAIN monitors, Polling(i)
  PROVE  /\ monitors[i] \in Live
         /\ \/ Become(i, Done) /\ controller' = Released(i)
            \/ \E n : GoesOn(i, n)
         /\ UNCHANGED <<stream, status, hook, snapshot, overlap>>
         /\ \/ session' = session
            \/ \E j \in Jobs : status[j] = "TIMED_OUT" /\ session' = Projected(j, "TIMED_OUT")
         /\ \/ registry' = registry
            \/ /\ registry' = registry \ {monitors[i].job}
               /\ monitors[i].page.status \in Ended \/ session \in Ends(monitors[i].job)
<1> DEFINE m == monitors[i]
<1>1. m \in Live
  <2>1. m.pc # "done"
    BY DEF Polling, Look, List, Lose, Judge, Supersede, Poll
  <2> QED BY <2>1, MonitorFacts
<1>2. /\ UNCHANGED <<stream, status, hook, snapshot, overlap>>
      /\ \/ session' = session
         \/ \E j \in Jobs : status[j] = "TIMED_OUT" /\ session' = Projected(j, "TIMED_OUT")
      /\ \/ registry' = registry
         \/ /\ registry' = registry \ {m.job}
            /\ m.page.status \in Ended \/ session \in Ends(m.job)
  <2>1. m.job \in Jobs  BY <1>1 DEF Live
  <2>2. CASE Look(i)
    BY <2>1, <2>2 DEF Look, tab
  <2>3. CASE Judge(i)
    BY <2>3 DEF Judge, Seen, server
  <2>4. CASE List(i) \/ Lose(i) \/ Supersede(i) \/ Poll(i)
    BY <2>4 DEF List, Lose, Supersede, Poll, server, tab
  <2> QED BY <2>2, <2>3, <2>4 DEF Polling
<1>3. m.page \in Pages /\ m.job \in Jobs /\ m.aborted \in BOOLEAN /\ m.grace \in 0..GracePolls
  BY <1>1 DEF Live
<1>4. ServerTypes  BY TypeParts
<1>5. CASE Look(i)
  <2> DEFINE n == [m EXCEPT !.pc = "looked", !.page.status = status[m.job]]
  <2>1. Become(i, n) /\ controller' = controller /\ m.pc = "asked"
    BY <1>5 DEF Look
  <2>2. [m.page EXCEPT !.status = status[m.job]] \in Pages
    BY <1>3, <1>4 DEF Pages, ServerTypes
  <2>3. n = [m EXCEPT !.pc = "looked", !.page = [m.page EXCEPT !.status = status[m.job]]]
    BY <1>1 DEF Live
  <2>4. /\ n \in Live /\ n.job = m.job /\ n.cursor = m.cursor /\ n.aborted = m.aborted
        /\ n.pc = "looked" /\ n.page.status = status[n.job]
    BY <1>1, <1>3, <2>2, <2>3 DEF Live, Pages
  <2> HIDE DEF n
  <2>5. GoesOn(i, n)  BY <2>1, <2>4 DEF GoesOn
  <2> QED BY <1>1, <1>2, <2>5
<1>6. CASE List(i)
  <2> DEFINE n == [m EXCEPT !.pc = "answered", !.page.next = stream[m.job]]
  <2>1. Become(i, n) /\ controller' = controller /\ m.pc = "looked"
    BY <1>6 DEF List
  <2>2. [m.page EXCEPT !.next = stream[m.job]] \in Pages
    BY <1>3, <1>4 DEF Pages, ServerTypes
  <2>3. n = [m EXCEPT !.pc = "answered", !.page = [m.page EXCEPT !.next = stream[m.job]]]
    BY <1>1 DEF Live
  <2>4. /\ n \in Live /\ n.job = m.job /\ n.cursor = m.cursor /\ n.aborted = m.aborted
        /\ n.pc = "answered" /\ n.page.next = stream[n.job]
        /\ n.page.status = m.page.status
    BY <1>1, <1>3, <2>2, <2>3 DEF Live, Pages
  <2> HIDE DEF n
  <2>5. GoesOn(i, n)  BY <2>1, <2>4 DEF GoesOn
  <2> QED BY <1>1, <1>2, <2>5
<1>7. CASE Lose(i) \/ Supersede(i)
  <2>1. Become(i, Done) /\ controller' = Released(i)
    BY <1>7 DEF Lose, Supersede
  <2> QED BY <1>1, <1>2, <2>1
<1>8. CASE Poll(i)
  <2> DEFINE n == [m EXCEPT !.pc = "asked"]
  <2>1. Become(i, n) /\ controller' = controller /\ m.pc = "waiting"
    BY <1>8 DEF Poll
  <2>2. /\ n \in Live /\ n.job = m.job /\ n.cursor = m.cursor /\ n.aborted = m.aborted
        /\ n.pc = "asked" /\ n.page = m.page
    BY <1>1 DEF Live
  <2> HIDE DEF n
  <2>3. GoesOn(i, n)  BY <2>1, <2>2 DEF GoesOn
  <2> QED BY <1>1, <1>2, <2>3
<1>9. CASE Judge(i)
  <2> DEFINE failed == m.page.status \in {"FAILED", "TIMED_OUT"}
             returns == ~failed /\ session \in Ends(m.job)
             again == \/ m.page.status = "RUNNING"
                      \/ m.page.status = "VERIFIED" /\ m.grace < GracePolls
             goesOn == ~failed /\ ~returns /\ again /\ ~m.aborted
             grace == IF m.page.status = "VERIFIED" THEN m.grace + 1 ELSE m.grace
             n == [m EXCEPT !.pc = "waiting", !.page = NoPage, !.grace = grace]
  <2>1. /\ Become(i, IF ~goesOn THEN Done ELSE n)
        /\ controller' = IF goesOn THEN controller ELSE Released(i)
    BY <1>9 DEF Judge
  <2>2. CASE ~goesOn
    BY <1>1, <1>2, <2>1, <2>2
  <2>3. CASE goesOn
    <3>1. grace \in 0..GracePolls
      BY <1>3, <2>3, ConstantsOK
    <3>2. NoPage \in Pages  BY ConstantsOK DEF NoPage, Pages, Statuses
    <3> HIDE DEF grace
    <3>3. /\ n \in Live /\ n.job = m.job /\ n.cursor = m.cursor /\ n.aborted = m.aborted
          /\ n.pc = "waiting" /\ n.page.status = "RUNNING"
      BY <1>1, <3>1, <3>2 DEF Live, NoPage
    <3>4. Become(i, n) /\ controller' = controller /\ ~ m.aborted
      BY <2>1, <2>3
    <3> HIDE DEF n
    <3>5. GoesOn(i, n)  BY <3>3, <3>4 DEF GoesOn, Ended
    <3> QED BY <1>1, <1>2, <3>5
  <2> QED BY <2>2, <2>3
<1> QED BY <1>5, <1>6, <1>7, <1>8, <1>9 DEF Polling

\* Steps of a monitor keep the types.
LEMMA MonitorTypesStep ==
  ASSUME TypeOK, NEW i \in DOMAIN monitors, Polling(i) \/ Receive(i)
  PROVE  TypeOK'
<1> USE TypeParts
<1> DEFINE m == monitors[i]
<1>1. Done \in Monitors /\ Live \subseteq Monitors  BY DEF Monitors
<1>2. CASE Polling(i)
  <2>1. \E n \in Monitors : Become(i, n) /\ controller' \in {controller, None}
    BY <1>1, <1>2, PollingFacts DEF GoesOn, Released
  <2>2. MonitorTypes'  BY <2>1, BecomeFacts DEF MonitorTypes
  <2>3. UNCHANGED <<stream, status, hook, snapshot, overlap>> /\ registry' \subseteq registry
    BY <1>2, PollingFacts
  <2>4. session' \in States
    <3>1. session \in States /\ "TIMED_OUT" \in Ended  BY DEF ServerTypes, Ended
    <3> QED BY <1>2, <3>1, PollingFacts, ProjectedFacts
  <2>5. ServerTypes' /\ HookTypes' /\ SnapshotTypes' /\ TabTypes'
    BY <2>3, <2>4 DEF hook, ServerTypes, HookTypes, SnapshotTypes, TabTypes
  <2> QED BY <2>2, <2>5, TypePartsNext
<1>3. CASE Receive(i)
  <2> DEFINE page == Slice(m.job, m.cursor, m.page.next)
             n == [m EXCEPT !.pc = "session", !.cursor = m.page.next]
             merged == Merged(events, page)
  <2>1. m.pc = "answered" /\ Become(i, n)
    BY <1>3 DEF Receive
  <2>2. m \in Live  BY <2>1, MonitorFacts
  <2>3. m.job \in Jobs /\ m.cursor \in 0..MaxEvents /\ m.page.next \in 0..MaxEvents
    BY <2>2 DEF Live, Pages
  <2>4. n \in Live  BY <2>2, <2>3 DEF Live
  <2>5. UNCHANGED <<server, controller, registry, overlap>>
    BY <1>3 DEF Receive, tab
  <2>6. merged \in Seq(Events)
    <3>1. page \in Seq(Events)  BY <2>3, EventsFacts
    <3>2. events \in Seq(Events)  BY DEF HookTypes
    <3> HIDE DEF page
    <3> QED BY <3>1, <3>2, MergedType
  <2> HIDE DEF n, page, merged
  <2>7. MonitorTypes'  BY <1>1, <2>1, <2>4, <2>5, BecomeFacts DEF MonitorTypes
  <2>8. ServerTypes' /\ TabTypes'  BY <2>5 DEF server, ServerTypes, TabTypes
  <2>9. HookTypes' /\ SnapshotTypes'
    <3>1. CASE m.page.next = m.cursor
      <4>1. UNCHANGED <<hook, snapshot>>  BY <1>3, <3>1 DEF Receive
      <4> QED BY <4>1 DEF hook, HookTypes, SnapshotTypes
    <3>2. CASE m.page.next # m.cursor
      <4>1. /\ active' = m.job /\ events' = merged /\ cursor' = m.page.next
            /\ WriteSnapshot(m.job, merged, m.page.next)
        BY <1>3, <3>2 DEF Receive, merged, page
      <4>2. HookTypes'  BY <2>3, <2>6, <4>1 DEF HookTypes
      <4>3. SnapshotTypes'
        <5> DEFINE kept == [events |-> merged, cursor |-> m.page.next]
        <5>1. CASE /\ Valid(m.job, merged, m.page.next)
                   /\ snapshot' = [snapshot EXCEPT ![m.job] = kept]
          <6>1. kept \in [events : Seq(Events), cursor : 0..MaxEvents]
                /\ kept.events = merged /\ kept.cursor = m.page.next
            BY <2>3, <2>6
          <6> HIDE DEF kept
          <6>2. snapshot' \in [Jobs -> {None} \cup [events : Seq(Events), cursor : 0..MaxEvents]]
            BY <5>1, <6>1 DEF SnapshotTypes
          <6>3. \A j \in Jobs : IF j = m.job THEN snapshot'[j] = kept
                                ELSE snapshot'[j] = snapshot[j]
            BY <5>1 DEF SnapshotTypes
          <6> QED BY <5>1, <6>1, <6>2, <6>3 DEF SnapshotTypes
        <5>2. CASE snapshot' = [snapshot EXCEPT ![m.job] = None]
          <6>1. snapshot' \in [Jobs -> {None} \cup [events : Seq(Events), cursor : 0..MaxEvents]]
            BY <5>2 DEF SnapshotTypes
          <6>2. \A j \in Jobs : snapshot'[j] # None => snapshot'[j] = snapshot[j]
            BY <5>2 DEF SnapshotTypes
          <6> QED BY <6>1, <6>2 DEF SnapshotTypes
        <5> QED BY <4>1, <5>1, <5>2 DEF WriteSnapshot
      <4> QED BY <4>2, <4>3
    <3> QED BY <3>1, <3>2
  <2> QED BY <2>7, <2>8, <2>9, TypePartsNext
<1> QED BY <1>2, <1>3

\* Next by the kinds of steps.
LEMMA Steps ==
  ASSUME Next
  PROVE  \/ Outside
         \/ Leave \/ Clear \/ Reload \/ \E j \in Jobs : Wait(j)
         \/ \E i \in DOMAIN monitors : Polling(i)
         \/ \E i \in DOMAIN monitors : Receive(i)
BY DEF Next, Polling, Outside

\* Every step keeps the types.
LEMMA TypeStep ==
  ASSUME TypeOK, FollowedLives, [Next]_vars
  PROVE  TypeOK'
<1>1. CASE UNCHANGED vars
  BY <1>1 DEF vars, server, hook, tab, TypeOK, Valid
<1>2. CASE Next
  BY <1>2, Steps, OutsideTypesStep, HookTypesStep, MonitorTypesStep
<1> QED BY <1>1, <1>2

-----------------------------------------------------------------------------
(* Ended jobs *)

\* The steps of the hook and its monitors leave the jobs alone.
LEMMA HookMoves ==
  ASSUME Next, ~ Outside PROVE UNCHANGED <<stream, status>>
<1>1. ASSUME NEW i \in DOMAIN monitors, Polling(i) \/ Receive(i)
      PROVE  UNCHANGED <<stream, status>>
  BY <1>1 DEF Polling, Look, List, Lose, Judge, Supersede, Poll, Receive, server
<1>2. Leave \/ Clear \/ Reload \/ (\E j \in Jobs : Wait(j)) => UNCHANGED <<stream, status>>
  BY DEF Leave, Clear, Reload, Wait, server
<1> QED BY <1>1, <1>2, Steps

\* A stream only grows, an ended job stays as it ended, and one begins where no other
\* of its kind is under way or verified.
LEMMA ServerMoves ==
  ASSUME TypeOK, Next
  PROVE  \A j \in Jobs :
           /\ status[j] \in Ended => status'[j] = status[j]
           /\ status'[j] # status[j] => (status[j] = "RUNNING" /\ status'[j] \in Ended) \/ Begin(j)
           /\ stream'[j] \in Nat /\ stream[j] \in Nat /\ stream[j] <= stream'[j]
<1>1. ServerTypes /\ \A j \in Jobs : stream[j] \in Nat
  BY TypeParts, ConstantsOK DEF ServerTypes
<1>2. CASE UNCHANGED <<stream, status>>
  BY <1>1, <1>2
<1>3. ASSUME NEW k \in Jobs, Produce(k)
      PROVE  \A j \in Jobs :
               /\ status'[j] = status[j]
               /\ stream'[j] \in Nat /\ stream[j] <= stream'[j]
  <2>1. status' = status /\ stream' = [stream EXCEPT ![k] = stream[k] + 1]
    BY <1>3 DEF Produce
  <2>2. \A j \in Jobs : stream'[j] = IF j = k THEN stream[j] + 1 ELSE stream[j]
    BY <1>1, <2>1 DEF ServerTypes
  <2> QED BY <1>1, <2>1, <2>2
<1>4. ASSUME NEW k \in Jobs, CancelJob(k) \/ (\E s \in Ended : Conclude(k, s))
      PROVE  /\ stream' = stream
             /\ \A j \in Jobs : status'[j] = status[j]
                               \/ (status[j] = "RUNNING" /\ status'[j] \in Ended)
  BY <1>1, <1>4 DEF CancelJob, Conclude, ServerTypes, Ended
<1>5. ASSUME NEW k \in Jobs, Begin(k)
      PROVE  /\ stream' = stream /\ status[k] = "NONE"
             /\ \A j \in Jobs : j # k => status'[j] = status[j]
  BY <1>1, <1>5 DEF Begin, ServerTypes
<1>6. ASSUME NEW k \in Jobs, Project(k) \/ Retry(k) PROVE UNCHANGED <<stream, status>>
  BY <1>6 DEF Project, Retry, server
<1>7. StartCompilation => UNCHANGED <<stream, status>>
  BY DEF StartCompilation
<1>8. "RUNNING" \notin Ended /\ "NONE" \notin Ended  BY DEF Ended
<1>9. CASE ~ Outside  BY <1>2, <1>9, HookMoves
<1>10. CASE Outside
  <2>1. ASSUME NEW k \in Jobs, CancelJob(k) \/ (\E s \in Ended : Conclude(k, s))
        PROVE  \A j \in Jobs :
                 /\ status[j] \in Ended => status'[j] = status[j]
                 /\ status'[j] # status[j] => status[j] = "RUNNING" /\ status'[j] \in Ended
                 /\ stream'[j] \in Nat /\ stream[j] <= stream'[j]
    BY <1>1, <1>4, <1>8, <2>1
  <2>2. ASSUME NEW k \in Jobs, Begin(k)
        PROVE  \A j \in Jobs :
                 /\ status[j] \in Ended => status'[j] = status[j]
                 /\ status'[j] # status[j] => Begin(j)
                 /\ stream'[j] \in Nat /\ stream[j] <= stream'[j]
    BY <1>1, <1>5, <1>8, <2>2
  <2> QED BY <1>1, <1>2, <1>3, <1>6, <1>7, <1>10, <2>1, <2>2 DEF Outside
<1> QED BY <1>9, <1>10

\* A monitor that cancel() leaves is aborted, was not between two polls, and is for the
\* rest as it was.
LEMMA AbortedMonitors ==
  ASSUME TypeOK, FollowedLives, NEW i \in DOMAIN monitors, Aborted[i].pc # "done"
  PROVE  /\ monitors[i] \in Live /\ Aborted[i] \in Live
         /\ Aborted[i].job = monitors[i].job /\ Aborted[i].pc = monitors[i].pc
         /\ Aborted[i].cursor = monitors[i].cursor /\ Aborted[i].page = monitors[i].page
         /\ Aborted[i].aborted
         /\ i = controller => monitors[i].pc # "waiting"
         /\ i # controller => Aborted[i] = monitors[i]
<1>1. CASE i = controller
  <2>1. controller # None
    <3>1. i \in Nat  BY MonitorFacts
    <3> QED BY <1>1, <3>1, ConstantsOK
  <2> QED BY <1>1, <2>1, AbortedFacts DEF Done
<1>2. CASE i # controller
  <2>1. Aborted[i] = monitors[i]  BY <1>2, AbortedFacts
  <2>2. monitors[i] \in Live  BY <2>1, MonitorFacts
  <2>3. monitors[i].aborted  BY <1>2, <2>1 DEF FollowedLives
  <2> QED BY <1>2, <2>1, <2>2, <2>3
<1> QED BY <1>1, <1>2

\* Every step keeps final pages of ended jobs.
LEMMA EndsStep ==
  ASSUME TypeOK, FollowedLives, EndsAreReal, Next
  PROVE  EndsAreReal'
<1>1. \A j \in Jobs : status[j] \in Ended => status'[j] = status[j]
  BY ServerMoves
<1>2. "RUNNING" \notin Ended  BY DEF Ended
<1>3. \A i \in DOMAIN monitors : monitors[i].pc # "done" =>
        monitors[i] \in Live /\ monitors[i].job \in Jobs
  BY MonitorFacts DEF Live
<1>4. CASE Outside
  BY <1>1, <1>3, <1>4, OutsideFacts DEF EndsAreReal
<1>5. CASE Leave \/ Clear
  <2>1. monitors' = Aborted
    BY <1>5 DEF Leave, Clear
  <2>2. DOMAIN Aborted = DOMAIN monitors  BY AbortedFacts
  <2>3. \A i \in DOMAIN monitors : Aborted[i].pc # "done" =>
          /\ monitors[i].pc # "done" /\ Aborted[i].page = monitors[i].page
          /\ Aborted[i].job = monitors[i].job
    BY AbortedMonitors DEF Live
  <2> QED BY <1>1, <1>3, <2>1, <2>2, <2>3 DEF EndsAreReal
<1>6. CASE Reload
  BY <1>6 DEF Reload, EndsAreReal, Done
<1>7. ASSUME NEW j \in Jobs, Wait(j) PROVE EndsAreReal'
  <2> DEFINE m == [job |-> j, cursor |-> Resumed(j).cursor, grace |-> 0, aborted |-> FALSE,
                   pc |-> "asked", page |-> NoPage]
  <2>1. monitors' = Append(Aborted, m)
    BY <1>7 DEF Wait
  <2>2. m.page.status = "RUNNING"  BY DEF NoPage
  <2> HIDE DEF m
  <2>3. /\ Aborted \in Seq(Monitors) /\ DOMAIN Aborted = DOMAIN monitors
        /\ Len(Aborted) = Len(monitors)
    BY AbortedFacts
  <2>4. \A i \in DOMAIN monitors' : \/ i \in DOMAIN monitors /\ monitors'[i] = Aborted[i]
                                    \/ monitors'[i] = m
    BY <2>1, <2>3
  <2>5. \A i \in DOMAIN monitors : Aborted[i].pc # "done" =>
          /\ monitors[i].pc # "done" /\ Aborted[i].page = monitors[i].page
          /\ Aborted[i].job = monitors[i].job
    BY AbortedMonitors DEF Live
  <2> QED BY <1>1, <1>2, <1>3, <2>2, <2>4, <2>5 DEF EndsAreReal
<1>8. ASSUME NEW i \in DOMAIN monitors, Polling(i) PROVE EndsAreReal'
  <2>1. status' = status  BY <1>8, PollingFacts
  <2>2. monitors[i] \in Live /\ monitors[i].job \in Jobs /\ monitors[i].pc # "done"
    BY <1>8, PollingFacts DEF Live
  <2>3. CASE Become(i, Done)
    <3>1. \A k \in DOMAIN monitors' : k \in DOMAIN monitors
            /\ (monitors'[k].pc # "done" => monitors'[k] = monitors[k])
      BY <2>3, BecomeFacts DEF Done
    <3> QED BY <2>1, <3>1 DEF EndsAreReal
  <2>4. ASSUME NEW n, GoesOn(i, n) PROVE EndsAreReal'
    <3>1. \A k \in DOMAIN monitors' : k \in DOMAIN monitors
            /\ (k # i => monitors'[k] = monitors[k]) /\ monitors'[i] = n
      BY <2>4, BecomeFacts DEF GoesOn
    <3>2. n.page.status \in Ended => status[n.job] \in Ended
      BY <2>2, <2>4 DEF GoesOn, EndsAreReal
    <3> QED BY <2>1, <3>1, <3>2 DEF EndsAreReal
  <2> QED BY <1>8, <2>3, <2>4, PollingFacts
<1>9. ASSUME NEW i \in DOMAIN monitors, Receive(i) PROVE EndsAreReal'
  <2> DEFINE n == [monitors[i] EXCEPT !.pc = "session", !.cursor = monitors[i].page.next]
  <2>1. UNCHANGED server /\ Become(i, n) /\ monitors[i].pc = "answered"
    BY <1>9 DEF Receive
  <2>2. n.page = monitors[i].page /\ n.job = monitors[i].job
    BY <1>3, <2>1 DEF Live
  <2> HIDE DEF n
  <2>3. \A k \in DOMAIN monitors' : k \in DOMAIN monitors
          /\ (k # i => monitors'[k] = monitors[k]) /\ monitors'[i] = n
    BY <2>1, BecomeFacts
  <2> QED BY <2>1, <2>2, <2>3 DEF server, EndsAreReal
<1> QED BY <1>4, <1>5, <1>6, <1>7, <1>8, <1>9, Steps

\* Where a step takes the session, and the verified job that does.
LEMMA SessionMoves ==
  ASSUME TypeOK, Next
  PROVE  \/ session' = session
         \/ session \in {"PREDICTION_COMMITTED", "LAB_REJECTED"} /\ session' = "LAB_COMPILING"
         \/ session = "LAB_COMPILING" /\ session' = "LAB_REJECTED"
         \/ /\ session = "LAB_COMPILING" /\ session' = "LAB_VERIFIED"
            /\ \E k \in Compiles : status[k] = "VERIFIED"
         \/ /\ session = "LAB_VERIFIED" /\ session' = "EXPERIMENT_COMPLETED"
            /\ \E k \in Jobs \ Compiles : status[k] = "VERIFIED"
<1>1. CASE StartCompilation
  BY <1>1 DEF StartCompilation
<1>2. ASSUME NEW j \in Jobs, Project(j)
      PROVE  \/ session' = session
             \/ session = "LAB_COMPILING" /\ session' = "LAB_REJECTED"
             \/ /\ session = "LAB_COMPILING" /\ session' = "LAB_VERIFIED"
                /\ j \in Compiles /\ status[j] = "VERIFIED"
             \/ /\ session = "LAB_VERIFIED" /\ session' = "EXPERIMENT_COMPLETED"
                /\ j \notin Compiles /\ status[j] = "VERIFIED"
  BY <1>2, ProjectedFacts DEF Project
<1>3. ASSUME NEW j \in Jobs, NEW s \in Ended, s # "VERIFIED", session' \in {session, Projected(j, s)}
      PROVE  \/ session' = session
             \/ session = "LAB_COMPILING" /\ session' = "LAB_REJECTED"
  BY <1>3, ProjectedFacts
<1>4. "FAILED" \in Ended /\ "TIMED_OUT" \in Ended  BY DEF Ended
<1>5. ASSUME NEW j \in Jobs, CancelJob(j)
      PROVE  \/ session' = session
             \/ session = "LAB_COMPILING" /\ session' = "LAB_REJECTED"
  <2>1. session' \in {session, Projected(j, "FAILED")}  BY <1>5 DEF CancelJob
  <2> QED BY <1>3, <1>4, <2>1
<1>6. ASSUME NEW i \in DOMAIN monitors, Polling(i)
      PROVE  \/ session' = session
             \/ session = "LAB_COMPILING" /\ session' = "LAB_REJECTED"
  BY <1>3, <1>4, <1>6, PollingFacts
<1>7. ASSUME NEW j \in Jobs, Begin(j) \/ Produce(j) \/ Retry(j) \/ \E s \in Ended : Conclude(j, s)
      PROVE  session' = session
  BY <1>7 DEF Begin, Produce, Retry, Conclude, server
<1>8. ASSUME NEW i \in DOMAIN monitors, Receive(i) PROVE session' = session
  BY <1>8 DEF Receive, server
<1>9. Leave \/ Clear \/ Reload \/ (\E j \in Jobs : Wait(j)) => session' = session
  BY DEF Leave, Clear, Reload, Wait, server
<1>10. CASE Outside
  BY <1>1, <1>2, <1>5, <1>7, <1>10 DEF Outside
<1> QED BY <1>6, <1>8, <1>9, <1>10, Steps

\* Every step keeps the jobs behind the session.
LEMMA EarnedStep ==
  ASSUME TypeOK, Earned, Next
  PROVE  Earned'
<1>1. Compiles \subseteq Jobs /\ session \in States
  BY ConstantsOK, TypeParts DEF ServerTypes
<1>2. \A j \in Jobs :
        /\ status[j] \in Ended => status'[j] = status[j]
        /\ status'[j] # status[j] => (status[j] = "RUNNING" /\ status'[j] \in Ended) \/ Begin(j)
  BY ServerMoves
<1>3. \A j \in Jobs : status[j] = "VERIFIED" => status'[j] = "VERIFIED"
  BY <1>2 DEF Ended
\* A job that begins is alone of its kind, and the others are as they were.
<1>4. ASSUME NEW j \in Jobs, Begin(j)
      PROVE  /\ session' = session
             /\ \A k \in Jobs : k # j => status'[k] = status[k]
             /\ \A k \in Jobs : SameKind(j, k) => status[k] \notin {"RUNNING", "VERIFIED"}
             /\ j \notin Compiles => session \in {"LAB_VERIFIED", "EXPERIMENT_COMPLETED"}
  <2>1. status' = [status EXCEPT ![j] = "RUNNING"] /\ session' = session
    BY <1>4 DEF Begin
  <2>2. \A k \in Jobs : k # j => status'[k] = status[k]
    BY <2>1, TypeParts DEF ServerTypes
  <2> QED BY <1>4, <2>1, <2>2 DEF Begin, SameKind
<1>5. \A j, k \in Jobs :
        SameKind(j, k) /\ {status'[j], status'[k]} \subseteq {"RUNNING", "VERIFIED"} => j = k
  <2>1. CASE \E b \in Jobs : Begin(b)
    <3>1. PICK b \in Jobs : Begin(b)  BY <2>1
    <3>2. /\ \A k \in Jobs : k # b => status'[k] = status[k]
          /\ \A k \in Jobs : SameKind(b, k) => status[k] \notin {"RUNNING", "VERIFIED"}
      BY <1>4, <3>1
    <3>3. \A j, k \in Jobs : SameKind(j, k) => SameKind(k, j)  BY DEF SameKind
    <3> SUFFICES ASSUME NEW j \in Jobs, NEW k \in Jobs, SameKind(j, k), j # k,
                        status'[j] \in {"RUNNING", "VERIFIED"}, status'[k] \in {"RUNNING", "VERIFIED"}
                 PROVE  FALSE
      OBVIOUS
    <3>4. CASE j = b  BY <3>2, <3>4
    <3>5. CASE k = b  BY <3>2, <3>3, <3>5
    <3>6. CASE j # b /\ k # b
      <4>1. status'[j] = status[j] /\ status'[k] = status[k]  BY <3>2, <3>6
      <4> QED BY <4>1 DEF Earned
    <3> QED BY <3>4, <3>5, <3>6
  <2>2. CASE ~ \E b \in Jobs : Begin(b)
    <3>1. \A j \in Jobs : status'[j] \in {"RUNNING", "VERIFIED"} => status[j] \in {"RUNNING", "VERIFIED"}
      BY <1>2, <2>2
    <3> QED BY <3>1 DEF Earned
  <2> QED BY <2>1, <2>2
<1>6. session' \in {"LAB_VERIFIED", "EXPERIMENT_COMPLETED"} =>
        \E k \in Compiles : status'[k] = "VERIFIED"
  <2>1. session' \in {"LAB_VERIFIED", "EXPERIMENT_COMPLETED"} =>
          \E k \in Compiles : status[k] = "VERIFIED"
    BY SessionMoves DEF Earned
  <2> QED BY <1>1, <1>3, <2>1
<1>7. session' = "EXPERIMENT_COMPLETED" => \E k \in Jobs \ Compiles : status'[k] = "VERIFIED"
  <2>1. session' = "EXPERIMENT_COMPLETED" => \E k \in Jobs \ Compiles : status[k] = "VERIFIED"
    BY SessionMoves DEF Earned
  <2> QED BY <1>3, <2>1
<1>8. ASSUME NEW j \in Jobs \ Compiles, status'[j] # "NONE"
      PROVE  session' \in {"LAB_VERIFIED", "EXPERIMENT_COMPLETED"}
  <2>1. CASE Begin(j)
    BY <1>4, <2>1
  <2>2. CASE ~ Begin(j)
    <3>1. status[j] # "NONE"  BY <1>2, <1>8, <2>2
    <3>2. session \in {"LAB_VERIFIED", "EXPERIMENT_COMPLETED"}  BY <3>1 DEF Earned
    <3> QED BY <3>2, SessionMoves
  <2> QED BY <2>1, <2>2
<1> QED BY <1>5, <1>6, <1>7, <1>8 DEF Earned, SameKind

\* A running job leaves the registry only as a compilation of a rejected session.
LEMMA RegistryStep ==
  ASSUME TypeOK, EndsAreReal, Earned, Next, NEW j \in registry \ registry', status'[j] = "RUNNING"
  PROVE  j \in Compiles /\ session = "LAB_REJECTED"
<1>1. j \in Jobs /\ ServerTypes  BY TypeParts DEF TabTypes
<1>2. "RUNNING" \notin Ended  BY DEF Ended
<1>3. ~ Outside
  <2>1. ASSUME NEW k \in Jobs, CancelJob(k) PROVE FALSE
    <3>1. j = k  BY <2>1 DEF CancelJob
    <3> QED BY <1>1, <2>1, <3>1 DEF CancelJob, ServerTypes
  <2>2. ASSUME NEW k \in Jobs, \/ Begin(k) \/ Produce(k) \/ Project(k) \/ Retry(k)
                               \/ \E s \in Ended : Conclude(k, s)
        PROVE  FALSE
    BY <2>2 DEF Begin, Produce, Project, Retry, Register, Conclude, browser, tab
  <2>3. ~ StartCompilation  BY DEF StartCompilation, browser, tab
  <2> QED BY <2>1, <2>2, <2>3 DEF Outside
<1>4. ~ (Leave \/ Clear \/ Reload \/ \E k \in Jobs : Wait(k))
  BY DEF Leave, Clear, Reload, Wait, Register, tab
<1>5. ~ \E i \in DOMAIN monitors : Receive(i)
  BY DEF Receive, tab
<1>6. PICK i \in DOMAIN monitors : Polling(i)
  BY <1>3, <1>4, <1>5, Steps
<1>7. /\ monitors[i] \in Live /\ status' = status /\ j = monitors[i].job
      /\ monitors[i].page.status \in Ended \/ session \in Ends(j)
  BY <1>6, PollingFacts
<1>8. session \in Ends(j)
  <2>1. monitors[i].pc # "done"  BY <1>7 DEF Live
  <2> QED BY <1>2, <1>7, <2>1 DEF EndsAreReal
<1>9. status[j] = "RUNNING"  BY <1>7
<1>10. \A k \in Jobs : SameKind(j, k) => status[k] # "VERIFIED"
  BY <1>1, <1>9 DEF Earned
<1>11. CASE j \in Compiles
  <2>1. session # "LAB_VERIFIED"
    BY <1>10, <1>11, ConstantsOK DEF Earned, SameKind
  <2> QED BY <1>8, <1>11, <2>1 DEF Ends
<1>12. CASE j \notin Compiles
  <2>1. session # "EXPERIMENT_COMPLETED"
    BY <1>10, <1>12 DEF Earned, SameKind
  <2>2. session # "LAB_REJECTED"
    BY <1>1, <1>9, <1>12 DEF Earned
  <2> QED BY <1>8, <1>12, <2>1, <2>2 DEF Ends
<1> QED BY <1>11, <1>12

-----------------------------------------------------------------------------
(* The monitors and the hook *)

\* What a page changes.
LEMMA ReceiveFacts ==
  ASSUME TypeOK, NEW i \in DOMAIN monitors, Receive(i)
  PROVE  LET m == monitors[i] IN
         /\ m \in Live /\ m.pc = "answered" /\ m.job \in Jobs
         /\ m.cursor \in 0..MaxEvents /\ m.page.next \in 0..MaxEvents
         /\ UNCHANGED <<server, controller, registry, overlap>>
         /\ \E n \in Live :
              /\ Become(i, n) /\ n.pc = "session" /\ n.cursor = m.page.next
              /\ n.job = m.job /\ n.aborted = m.aborted
         /\ \/ m.page.next = m.cursor /\ UNCHANGED <<hook, snapshot>>
            \/ LET merged == Merged(events, Slice(m.job, m.cursor, m.page.next)) IN
               /\ active' = m.job /\ events' = merged /\ cursor' = m.page.next
               /\ \A j \in Jobs : snapshot'[j] # None =>
                    \/ snapshot'[j] = snapshot[j] /\ snapshot[j] # None
                    \/ /\ j = m.job
                       /\ snapshot'[j].events = merged /\ snapshot'[j].cursor = m.page.next
<1> DEFINE m == monitors[i]
           n == [m EXCEPT !.pc = "session", !.cursor = m.page.next]
           merged == Merged(events, Slice(m.job, m.cursor, m.page.next))
<1>1. m.pc = "answered" /\ Become(i, n)
      /\ UNCHANGED <<server, controller, registry, overlap>>
  BY DEF Receive, tab
<1>2. m \in Live  BY <1>1, MonitorFacts
<1>3. m.job \in Jobs /\ m.cursor \in 0..MaxEvents /\ m.page.next \in 0..MaxEvents
  BY <1>2 DEF Live, Pages
<1>4. /\ n \in Live /\ n.pc = "session" /\ n.cursor = m.page.next
      /\ n.job = m.job /\ n.aborted = m.aborted
  BY <1>2, <1>3 DEF Live
<1>5. \/ m.page.next = m.cursor /\ UNCHANGED <<hook, snapshot>>
      \/ /\ active' = m.job /\ events' = merged /\ cursor' = m.page.next
         /\ WriteSnapshot(m.job, merged, m.page.next)
  BY DEF Receive
<1> HIDE DEF n, merged
<1>6. ASSUME WriteSnapshot(m.job, merged, m.page.next), NEW j \in Jobs, snapshot'[j] # None
      PROVE  \/ snapshot'[j] = snapshot[j] /\ snapshot[j] # None
             \/ /\ j = m.job
                /\ snapshot'[j].events = merged /\ snapshot'[j].cursor = m.page.next
  <2>1. SnapshotTypes  BY TypeParts
  <2> DEFINE kept == [events |-> merged, cursor |-> m.page.next]
  <2>2. CASE snapshot' = [snapshot EXCEPT ![m.job] = kept]
    <3>1. kept.events = merged /\ kept.cursor = m.page.next  OBVIOUS
    <3>2. snapshot'[j] = IF j = m.job THEN kept ELSE snapshot[j]
      BY <2>1, <2>2 DEF SnapshotTypes
    <3> HIDE DEF kept
    <3> QED BY <1>6, <3>1, <3>2
  <2>3. CASE snapshot' = [snapshot EXCEPT ![m.job] = None]
    BY <1>6, <2>1, <2>3 DEF SnapshotTypes
  <2> QED BY <1>6, <2>2, <2>3 DEF WriteSnapshot
<1>7. \E k \in Live :
        /\ Become(i, k) /\ k.pc = "session" /\ k.cursor = m.page.next
        /\ k.job = m.job /\ k.aborted = m.aborted
  BY <1>1, <1>4
<1> HIDE DEF m
<1>8. \/ m.page.next = m.cursor /\ UNCHANGED <<hook, snapshot>>
      \/ /\ active' = m.job /\ events' = merged /\ cursor' = m.page.next
         /\ \A j \in Jobs : snapshot'[j] # None =>
              \/ snapshot'[j] = snapshot[j] /\ snapshot[j] # None
              \/ /\ j = m.job
                 /\ snapshot'[j].events = merged /\ snapshot'[j].cursor = m.page.next
  BY <1>5, <1>6
<1> QED BY <1>1, <1>2, <1>3, <1>7, <1>8 DEF m, merged

\* What the begin of a wait changes.
LEMMA WaitFacts ==
  ASSUME TypeOK, FollowedLives, NEW j \in Jobs, Wait(j)
  PROVE  /\ active' = j /\ events' = Resumed(j).events /\ cursor' = Resumed(j).cursor
         /\ UNCHANGED <<server, snapshot>> /\ overlap' = Overlapped
         /\ controller' = Len(monitors) + 1 /\ controller' \notin DOMAIN monitors
         /\ controller' # None
         /\ DOMAIN monitors' = DOMAIN monitors \cup {controller'}
         /\ \A i \in DOMAIN monitors : monitors'[i] = Aborted[i]
         /\ monitors'[controller'].job = j
         /\ monitors'[controller'].cursor = Resumed(j).cursor
         /\ monitors'[controller'].pc = "asked" /\ monitors'[controller'].aborted = FALSE
<1> DEFINE m == [job |-> j, cursor |-> Resumed(j).cursor, grace |-> 0, aborted |-> FALSE,
                 pc |-> "asked", page |-> NoPage]
<1>1. /\ monitors' = Append(Aborted, m) /\ controller' = Len(monitors) + 1
      /\ active' = j /\ events' = Resumed(j).events /\ cursor' = Resumed(j).cursor
      /\ UNCHANGED <<server, snapshot>> /\ overlap' = Overlapped
  BY DEF Wait
<1>2. m.job = j /\ m.cursor = Resumed(j).cursor /\ m.pc = "asked" /\ m.aborted = FALSE
  OBVIOUS
<1> HIDE DEF m
<1>3. /\ Aborted \in Seq(Monitors) /\ DOMAIN Aborted = DOMAIN monitors
      /\ Len(Aborted) = Len(monitors)
      /\ Len(monitors) \in Nat /\ DOMAIN monitors = 1..Len(monitors)
  BY AbortedFacts, MonitorFacts
<1>4. /\ DOMAIN monitors' = 1..(Len(monitors) + 1) /\ monitors'[Len(monitors) + 1] = m
      /\ \A i \in DOMAIN monitors : monitors'[i] = Aborted[i]
  BY <1>1, <1>3
<1>5. /\ Len(monitors) + 1 \notin 1..Len(monitors)
      /\ 1..(Len(monitors) + 1) = 1..Len(monitors) \cup {Len(monitors) + 1}
      /\ Len(monitors) + 1 # None
  BY <1>3, ConstantsOK
<1> QED BY <1>1, <1>2, <1>3, <1>4, <1>5

\* Every step leaves only the controller's monitor unaborted.
LEMMA LivesStep ==
  ASSUME TypeOK, FollowedLives, Next
  PROVE  FollowedLives'
<1>1. controller # None => controller \in DOMAIN monitors  BY DEF TypeOK
<1>2. CASE Outside
  BY <1>2, OutsideFacts DEF FollowedLives
<1>3. CASE Leave \/ Clear
  <2>1. monitors' = Aborted /\ controller' = None
    BY <1>3 DEF Leave, Clear
  <2>2. DOMAIN Aborted = DOMAIN monitors  BY AbortedFacts
  <2> QED BY <2>1, <2>2, AbortedMonitors DEF FollowedLives
<1>4. CASE Reload
  BY <1>4 DEF Reload, FollowedLives, Done
<1>5. ASSUME NEW j \in Jobs, Wait(j) PROVE FollowedLives'
  BY <1>5, WaitFacts, AbortedMonitors DEF FollowedLives
<1>6. ASSUME NEW i \in DOMAIN monitors, Polling(i) PROVE FollowedLives'
  <2>1. CASE Become(i, Done) /\ controller' = Released(i)
    BY <1>1, <2>1, BecomeFacts DEF FollowedLives, Released, Done
  <2>2. ASSUME NEW n, GoesOn(i, n) PROVE FollowedLives'
    <3>1. /\ Become(i, n) /\ controller' = controller /\ n.aborted = monitors[i].aborted
          /\ n \in Live /\ n.pc # "done"
      BY <2>2 DEF GoesOn, Live
    <3>2. monitors[i].pc # "done"  BY <1>6, PollingFacts DEF Live
    <3> QED BY <1>1, <3>1, <3>2, BecomeFacts DEF FollowedLives
  <2> QED BY <1>6, <2>1, <2>2, PollingFacts
<1>7. ASSUME NEW i \in DOMAIN monitors, Receive(i) PROVE FollowedLives'
  <2>1. PICK n \in Live :
          Become(i, n) /\ n.pc = "session" /\ n.aborted = monitors[i].aborted
    BY <1>7, ReceiveFacts
  <2>2. monitors[i].pc # "done" /\ controller' = controller
    BY <1>7, ReceiveFacts
  <2> QED BY <1>1, <2>1, <2>2, BecomeFacts DEF FollowedLives
<1> QED BY <1>2, <1>3, <1>4, <1>5, <1>6, <1>7, Steps

\* A wait resumes within the stream, with nothing twice and, without overlap, with all of it.
LEMMA ResumedFacts ==
  ASSUME TypeOK, Behind, Once, Idle, OneFollows, NEW j \in Jobs
  PROVE  /\ Resumed(j).cursor \in 0..MaxEvents /\ Resumed(j).cursor <= stream[j]
         /\ IsInjective(Resumed(j).events)
         /\ ~overlap => Resumed(j).events = Prefix(j, Resumed(j).cursor)
<1>1. ServerTypes /\ HookTypes /\ SnapshotTypes  BY TypeParts
<1>2. stream[j] \in Nat  BY <1>1, ConstantsOK DEF ServerTypes
<1>3. Resumed(j).cursor \in 0..MaxEvents  BY ResumedType
<1>4. CASE snapshot[j] # None
  BY <1>3, <1>4 DEF Resumed, Behind, Once, OneFollows
<1>5. CASE snapshot[j] = None /\ active = j
  <2>1. active # None  BY <1>5, ConstantsOK
  <2>2. Resumed(j).events = events /\ Resumed(j).cursor = cursor
    BY <1>5 DEF Resumed
  <2> QED BY <1>3, <1>5, <2>1, <2>2 DEF Behind, Once, OneFollows
<1>6. CASE snapshot[j] = None /\ active # j
  <2>1. Resumed(j).events = <<>> /\ Resumed(j).cursor = 0
    BY <1>6 DEF Resumed
  <2>2. Prefix(j, 0) = <<>>  BY DEF Prefix, Slice
  <2>3. IsInjective(<<>>)  BY DEF IsInjective
  <2> QED BY <1>2, <1>3, <2>1, <2>2, <2>3
<1> QED BY <1>4, <1>5, <1>6

\* Every step keeps cursors behind their streams.
LEMMA BehindStep ==
  ASSUME TypeOK, FollowedLives, Behind, Once, Idle, OneFollows, Next
  PROVE  Behind'
<1>1. ServerTypes /\ HookTypes /\ SnapshotTypes  BY TypeParts
<1>2. \A i \in DOMAIN monitors : monitors[i].pc # "done" =>
        /\ monitors[i] \in Live /\ monitors[i].job \in Jobs
        /\ monitors[i].cursor \in Nat /\ monitors[i].page.next \in Nat
  BY MonitorFacts DEF Live, Pages
<1>3. \A j \in Jobs : snapshot[j] # None => snapshot[j].cursor \in Nat
  BY <1>1 DEF SnapshotTypes
<1>4. cursor \in Nat /\ (active # None => active \in Jobs)  BY <1>1 DEF HookTypes
<1>5. \A j \in Jobs : stream[j] \in Nat /\ stream'[j] \in Nat /\ stream[j] <= stream'[j]
  BY ServerMoves
<1>6. CASE Outside
  <2>1. UNCHANGED <<hook, snapshot, monitors>>
    BY <1>6, OutsideFacts
  <2>2. \A c \in Nat, j \in Jobs : c <= stream[j] => c <= stream'[j]
    BY <1>5
  <2> QED BY <1>2, <1>3, <1>4, <2>1, <2>2 DEF hook, Behind
<1>7. CASE Leave \/ Clear
  <2>1. /\ UNCHANGED server /\ monitors' = Aborted
        /\ UNCHANGED <<active, cursor>> \/ active' = None
    BY <1>7 DEF Leave, Clear, hook
  <2>2. \A j \in Jobs : snapshot'[j] # None => snapshot'[j] = snapshot[j]
    BY <1>1, <1>7 DEF Leave, Clear, SnapshotTypes
  <2>3. DOMAIN Aborted = DOMAIN monitors  BY AbortedFacts
  <2>4. \A i \in DOMAIN monitors : Aborted[i].pc # "done" =>
          /\ monitors[i].pc = Aborted[i].pc /\ Aborted[i].page = monitors[i].page
          /\ Aborted[i].job = monitors[i].job /\ Aborted[i].cursor = monitors[i].cursor
    BY AbortedMonitors
  <2> QED BY <2>1, <2>2, <2>3, <2>4 DEF server, Behind
<1>8. CASE Reload
  BY <1>8 DEF Reload, server, Behind, Done
<1>9. ASSUME NEW j \in Jobs, Wait(j) PROVE Behind'
  <2>1. /\ active' = j /\ cursor' = Resumed(j).cursor
        /\ UNCHANGED <<server, snapshot>>
        /\ DOMAIN monitors' = DOMAIN monitors \cup {controller'}
        /\ \A i \in DOMAIN monitors : monitors'[i] = Aborted[i]
        /\ monitors'[controller'].job = j
        /\ monitors'[controller'].cursor = Resumed(j).cursor
        /\ monitors'[controller'].pc = "asked"
    BY <1>9, WaitFacts
  <2>2. Resumed(j).cursor <= stream[j]  BY ResumedFacts
  <2>3. \A i \in DOMAIN monitors : Aborted[i].pc # "done" =>
          /\ monitors[i].pc = Aborted[i].pc /\ Aborted[i].page = monitors[i].page
          /\ Aborted[i].job = monitors[i].job /\ Aborted[i].cursor = monitors[i].cursor
    BY AbortedMonitors
  <2> QED BY <2>1, <2>2, <2>3 DEF server, Behind
<1>10. ASSUME NEW i \in DOMAIN monitors, Polling(i) PROVE Behind'
  <2>1. UNCHANGED <<stream, hook, snapshot>>  BY <1>10, PollingFacts
  <2>2. monitors[i].pc # "done"  BY <1>10, PollingFacts DEF Live
  <2>3. CASE Become(i, Done)
    BY <2>1, <2>3, BecomeFacts DEF server, hook, Behind, Done
  <2>4. ASSUME NEW n, GoesOn(i, n) PROVE Behind'
    <3>1. /\ \A k \in DOMAIN monitors' : k \in DOMAIN monitors
             /\ (k # i => monitors'[k] = monitors[k])
          /\ monitors'[i] = n
      BY <2>4, BecomeFacts DEF GoesOn
    <3>2. /\ n.cursor = monitors[i].cursor /\ n.job = monitors[i].job
          /\ n.pc = "answered" => n.page.next = stream[n.job]
      BY <2>4 DEF GoesOn
    <3>3. n.cursor <= stream[n.job]  BY <2>2, <3>2 DEF Behind
    <3>4. stream[n.job] \in Nat  BY <1>2, <1>5, <2>2, <3>2
    <3>5. n.pc = "answered" => n.cursor <= n.page.next /\ n.page.next <= stream[n.job]
      BY <3>2, <3>3, <3>4
    <3> QED BY <2>1, <3>1, <3>3, <3>5 DEF server, hook, Behind
  <2> QED BY <1>10, <2>3, <2>4, PollingFacts
<1>11. ASSUME NEW i \in DOMAIN monitors, Receive(i) PROVE Behind'
  <2> DEFINE m == monitors[i]
  <2>1. PICK n \in Live : Become(i, n) /\ n.pc = "session" /\ n.cursor = m.page.next
                          /\ n.job = m.job
    BY <1>11, ReceiveFacts
  <2>2. /\ m.pc = "answered" /\ UNCHANGED server
        /\ \/ UNCHANGED <<hook, snapshot>>
           \/ /\ active' = m.job /\ cursor' = m.page.next
              /\ \A j \in Jobs : snapshot'[j] # None =>
                   \/ snapshot'[j] = snapshot[j] /\ snapshot[j] # None
                   \/ j = m.job /\ snapshot'[j].cursor = m.page.next
    BY <1>11, ReceiveFacts
  <2>3. m.page.next <= stream[m.job]  BY <2>2 DEF Behind
  <2>4. /\ \A k \in DOMAIN monitors' : k \in DOMAIN monitors
           /\ (k # i => monitors'[k] = monitors[k])
        /\ monitors'[i] = n
    BY <2>1, BecomeFacts
  <2> HIDE DEF m
  <2> QED BY <2>1, <2>2, <2>3, <2>4 DEF server, hook, Behind
<1> QED BY <1>6, <1>7, <1>8, <1>9, <1>10, <1>11, Steps

\* Every step shows an event at most once.
LEMMA OnceStep ==
  ASSUME TypeOK, FollowedLives, Behind, Once, Idle, OneFollows, Next
  PROVE  Once' /\ Idle'
<1>1. ServerTypes /\ HookTypes /\ SnapshotTypes  BY TypeParts
<1>2. IsInjective(<<>>)  BY DEF IsInjective
<1>3. CASE UNCHANGED <<hook, snapshot>>
  BY <1>3 DEF hook, Once, Idle
<1>4. CASE Clear \/ Reload
  <2>1. /\ events' = <<>>
        /\ \A j \in Jobs : snapshot'[j] # None => snapshot'[j] = snapshot[j]
    BY <1>1, <1>4 DEF Clear, Reload, SnapshotTypes
  <2> QED BY <1>2, <2>1 DEF Once, Idle
<1>5. ASSUME NEW j \in Jobs, Wait(j) PROVE Once' /\ Idle'
  <2>1. active' = j /\ events' = Resumed(j).events /\ UNCHANGED snapshot
    BY <1>5, WaitFacts
  <2>2. j # None /\ IsInjective(Resumed(j).events)  BY ResumedFacts, ConstantsOK
  <2> QED BY <2>1, <2>2 DEF Once, Idle
<1>6. ASSUME NEW i \in DOMAIN monitors, Receive(i) PROVE Once' /\ Idle'
  <2> DEFINE m == monitors[i]
             page == Slice(m.job, m.cursor, m.page.next)
  <2>1. /\ m.pc = "answered" /\ m.job \in Jobs /\ m.cursor \in 0..MaxEvents
        /\ m.page.next \in 0..MaxEvents
        /\ \/ UNCHANGED <<hook, snapshot>>
           \/ /\ active' = m.job /\ events' = Merged(events, page)
              /\ \A j \in Jobs : snapshot'[j] # None =>
                   \/ snapshot'[j] = snapshot[j] /\ snapshot[j] # None
                   \/ snapshot'[j].events = Merged(events, page)
    BY <1>6, ReceiveFacts
  <2>2. m.cursor <= m.page.next /\ m.cursor \in Nat /\ m.page.next \in Nat
    BY <2>1 DEF Behind
  <2>3. page \in Seq(Events) /\ IsInjective(page)
    <3>1. IsInjective(page)  BY <2>2, SliceFacts
    <3> QED BY <2>1, <3>1, EventsFacts
  <2>4. events \in Seq(Events)  BY <1>1 DEF HookTypes
  <2> HIDE DEF page
  <2>5. IsInjective(Merged(events, page))
    BY <2>3, <2>4, MergedOnce DEF Once
  <2>6. m.job # None  BY <2>1, ConstantsOK
  <2> HIDE DEF m
  <2> QED BY <1>3, <2>1, <2>5, <2>6 DEF Once, Idle
<1>7. ASSUME NEW i \in DOMAIN monitors, Polling(i) PROVE Once' /\ Idle'
  BY <1>3, <1>7, PollingFacts
<1>8. CASE Leave \/ Outside
  BY <1>3, <1>8, OutsideFacts DEF Leave
<1> QED BY <1>4, <1>5, <1>6, <1>7, <1>8, Steps

\* Every step, until an overlap, leaves one monitor that follows the hook.
LEMMA FollowsStep ==
  ASSUME TypeOK, FollowedLives, Behind, Once, Idle, OneFollows, Next
  PROVE  OneFollows'
<1>1. ServerTypes /\ HookTypes /\ SnapshotTypes  BY TypeParts
<1>2. controller # None => controller \in DOMAIN monitors  BY DEF TypeOK
<1>3. CASE UNCHANGED <<hook, snapshot, monitors, controller, overlap>>
  BY <1>3 DEF hook, OneFollows
\* What cancel() leaves, if no page was under way: nobody asks.
<1>4. ASSUME ~Overlapped, NEW i \in DOMAIN monitors
      PROVE  ~overlap /\ Aborted[i].pc \in {"done", "session"}
  <2>1. ~overlap /\ (controller # None => ~Asking(monitors[controller]))
    BY <1>4 DEF Overlapped
  <2>2. CASE Aborted[i].pc # "done"
    <3>1. Aborted[i].pc = monitors[i].pc /\ monitors[i] \in Live
          /\ (i = controller => monitors[i].pc # "waiting")
      BY <2>2, AbortedMonitors
    <3>2. i = controller => controller # None
      BY MonitorFacts, ConstantsOK
    <3>3. i = controller => monitors[i].pc = "session"
      BY <2>1, <3>1, <3>2 DEF Asking, Live
    <3>4. i # controller => monitors[i].pc \in {"done", "session"}
      BY <2>1 DEF OneFollows
    <3> QED BY <2>1, <3>1, <3>3, <3>4
  <2> QED BY <2>1, <2>2
<1>5. CASE Leave \/ Clear
  <2>1. /\ monitors' = Aborted /\ controller' = None /\ overlap' = Overlapped
        /\ UNCHANGED <<active, events, cursor>> \/ active' = None
    BY <1>5 DEF Leave, Clear, hook
  <2>2. \A j \in Jobs : snapshot'[j] # None => snapshot'[j] = snapshot[j]
    BY <1>1, <1>5 DEF Leave, Clear, SnapshotTypes
  <2>3. DOMAIN Aborted = DOMAIN monitors  BY AbortedFacts
  <2>4. Overlapped \/ ~overlap  BY DEF Overlapped
  <2> QED BY <1>4, <2>1, <2>2, <2>3, <2>4 DEF OneFollows
<1>6. CASE Reload
  BY <1>6 DEF Reload, tab, OneFollows, Done
<1>7. ASSUME NEW j \in Jobs, Wait(j) PROVE OneFollows'
  <2>1. /\ active' = j /\ events' = Resumed(j).events /\ cursor' = Resumed(j).cursor
        /\ UNCHANGED snapshot /\ overlap' = Overlapped
        /\ DOMAIN monitors' = DOMAIN monitors \cup {controller'}
        /\ \A i \in DOMAIN monitors : monitors'[i] = Aborted[i]
        /\ monitors'[controller'].job = j
        /\ monitors'[controller'].cursor = Resumed(j).cursor
    BY <1>7, WaitFacts
  <2>2. ~overlap => Resumed(j).events = Prefix(j, Resumed(j).cursor)
    BY ResumedFacts
  <2>3. Overlapped \/ ~overlap  BY DEF Overlapped
  <2> QED BY <1>4, <2>1, <2>2, <2>3 DEF OneFollows
<1>8. ASSUME NEW i \in DOMAIN monitors, Polling(i) PROVE OneFollows'
  <2>1. UNCHANGED <<hook, snapshot, overlap>>  BY <1>8, PollingFacts
  <2>2. monitors[i].pc # "done"  BY <1>8, PollingFacts DEF Live
  <2>3. CASE Become(i, Done) /\ controller' = Released(i)
    <3>1. /\ \A k \in DOMAIN monitors' : k \in DOMAIN monitors
             /\ (monitors'[k].pc # "done" => k # i /\ monitors'[k] = monitors[k])
          /\ \A k \in DOMAIN monitors : k # i => monitors'[k] = monitors[k]
      BY <2>3, BecomeFacts DEF Done
    <3>2. /\ controller' # None => controller' = controller /\ controller # i
          /\ controller # i => controller' = controller
      BY <2>3 DEF Released
    <3> QED BY <1>2, <2>1, <3>1, <3>2 DEF hook, OneFollows
  <2>4. ASSUME NEW n, GoesOn(i, n) PROVE OneFollows'
    <3>1. /\ \A k \in DOMAIN monitors' : k \in DOMAIN monitors
             /\ (k # i => monitors'[k] = monitors[k])
          /\ \A k \in DOMAIN monitors : k # i => monitors'[k] = monitors[k]
          /\ monitors'[i] = n
      BY <2>4, BecomeFacts DEF GoesOn
    <3>2. /\ n.cursor = monitors[i].cursor /\ n.job = monitors[i].job
          /\ controller' = controller
          /\ monitors[i].pc = "session" => ~ monitors[i].aborted
      BY <2>4 DEF GoesOn
    <3>3. ~overlap => i = controller
      BY <2>2, <3>2 DEF OneFollows, FollowedLives
    <3> QED BY <1>2, <2>1, <3>1, <3>2, <3>3 DEF hook, OneFollows
  <2> QED BY <1>8, <2>3, <2>4, PollingFacts
<1>9. ASSUME NEW i \in DOMAIN monitors, Receive(i) PROVE OneFollows'
  <2> DEFINE m == monitors[i]
  <2>1. PICK n \in Live : Become(i, n) /\ n.pc = "session" /\ n.cursor = m.page.next
                          /\ n.job = m.job
    BY <1>9, ReceiveFacts
  <2>2. /\ m.pc = "answered" /\ m.job \in Jobs /\ m.cursor \in Nat /\ m.page.next \in Nat
        /\ UNCHANGED <<controller, overlap>>
        /\ \/ m.page.next = m.cursor /\ UNCHANGED <<hook, snapshot>>
           \/ LET merged == Merged(events, Slice(m.job, m.cursor, m.page.next)) IN
              /\ active' = m.job /\ events' = merged /\ cursor' = m.page.next
              /\ \A j \in Jobs : snapshot'[j] # None =>
                   \/ snapshot'[j] = snapshot[j] /\ snapshot[j] # None
                   \/ /\ j = m.job
                      /\ snapshot'[j].events = merged /\ snapshot'[j].cursor = m.page.next
    BY <1>9, ReceiveFacts
  <2>3. m.cursor <= m.page.next  BY <2>2 DEF Behind
  <2>4. /\ \A k \in DOMAIN monitors' : k \in DOMAIN monitors
           /\ (k # i => monitors'[k] = monitors[k])
        /\ \A k \in DOMAIN monitors : k # i => monitors'[k] = monitors[k]
        /\ monitors'[i] = n
    BY <2>1, BecomeFacts
  <2> SUFFICES ASSUME ~overlap PROVE OneFollows'
    BY <2>2 DEF OneFollows
  <2>5. i = controller /\ m.job = active /\ m.cursor = cursor /\ active # None
        /\ events = Prefix(m.job, m.cursor)
    <3>1. i = controller  BY <2>2 DEF OneFollows
    <3>2. controller # None  BY <3>1, MonitorFacts, ConstantsOK
    <3>3. m.job = active /\ m.cursor = cursor  BY <3>1, <3>2 DEF OneFollows
    <3>4. active # None  BY <2>2, <3>3, ConstantsOK
    <3> QED BY <3>1, <3>3, <3>4 DEF OneFollows
  <2>6. Merged(events, Slice(m.job, m.cursor, m.page.next)) = Prefix(m.job, m.page.next)
    BY <2>2, <2>3, <2>5, MergedPrefix
  <2>7. /\ active' = m.job /\ cursor' = m.page.next /\ events' = Prefix(m.job, m.page.next)
        /\ \A j \in Jobs : snapshot'[j] # None =>
             \/ snapshot'[j] = snapshot[j] /\ snapshot[j] # None
             \/ /\ j = m.job /\ snapshot'[j].cursor = m.page.next
                /\ snapshot'[j].events = Prefix(m.job, m.page.next)
    BY <2>2, <2>5, <2>6 DEF hook
  <2>8. \A k \in DOMAIN monitors' : monitors'[k].pc \notin {"done", "session"} => k = controller
    BY <2>1, <2>4 DEF OneFollows
  <2>9. monitors'[controller].job = active' /\ monitors'[controller].cursor = cursor'
    BY <2>1, <2>4, <2>5, <2>7
  <2>10. \A j \in Jobs : snapshot'[j] # None =>
           snapshot'[j].events = Prefix(j, snapshot'[j].cursor)
    BY <2>7 DEF OneFollows
  <2> HIDE DEF m
  <2> QED BY <2>2, <2>7, <2>8, <2>9, <2>10 DEF OneFollows
<1>10. CASE Outside
  BY <1>3, <1>10, OutsideFacts
<1> QED BY <1>5, <1>6, <1>7, <1>8, <1>9, <1>10, Steps

-----------------------------------------------------------------------------
(* What holds of the page *)

\* Every step keeps the invariant.
LEMMA NextPreserves == IInv /\ [Next]_vars => IInv'
<1> SUFFICES ASSUME IInv, [Next]_vars PROVE IInv'  OBVIOUS
<1> USE DEF IInv
<1>1. CASE UNCHANGED vars
  <2>1. UNCHANGED <<stream, status, session, active, events, cursor, controller, monitors,
                    snapshot, registry, overlap>>
    BY <1>1 DEF vars, server, hook, tab
  <2>2. TypeOK'  BY TypeStep
  <2> QED BY <2>1, <2>2 DEF FollowedLives, EndsAreReal, Earned, Behind, Once,
                            OneFollows, Idle
<1>2. CASE Next
  BY <1>2, TypeStep, LivesStep, EndsStep, EarnedStep, BehindStep, OnceStep, FollowsStep
<1> QED BY <1>1, <1>2

\* IInv is an invariant: the base of the theorems below.
THEOREM Invariance == Spec => []IInv
<1> QED BY InitInv, NextPreserves, PTL DEF Spec

\* The variables keep their types, a cursor and the indices of monitors included.
THEOREM TypeCorrect == Spec => []TypeOK
<1>1. IInv => TypeOK  BY DEF IInv
<1> QED BY <1>1, Invariance, PTL

\* For every number of jobs, waits and events: a registered job that runs is taken
\* from the registry only as a compilation whose session was rejected under it, by an
\* older one, and a run of the fixed kernel never (RunningStaysKnown).
THEOREM RegistryCorrect == Spec => RunningStaysKnown
<1> DEFINE A == \A j \in registry \ registry' :
                  status'[j] = "RUNNING" => j \in Compiles /\ session = "LAB_REJECTED"
<1>1. IInv /\ [Next]_vars => [A]_vars
  BY RegistryStep DEF IInv
<1> QED BY <1>1, Invariance, PTL DEF Spec, RunningStaysKnown

\* For every number of jobs, waits and events: no event is shown twice and, until a
\* wait is given up while its page is under way, none is missed, in the hook, in what
\* a reload starts from and in the proof panel (NothingIsMissed).
THEOREM EventsCorrect == Spec => []NothingIsMissed
<1>1. ASSUME IInv PROVE NothingIsMissed
  <2> USE DEF IInv
  <2>1. HookTypes  BY <1>1, TypeParts
  <2>2. IsInjective(events)  BY <1>1 DEF Once
  <2>3. ASSUME ~overlap
        PROVE  /\ active # None => events = Prefix(active, cursor)
               /\ \A j \in Jobs : snapshot[j] # None =>
                    snapshot[j].events = Prefix(j, snapshot[j].cursor)
    BY <1>1, <2>3 DEF OneFollows
  <2>4. ASSUME ~overlap PROVE WithoutGap(events)
    <3>1. CASE active # None
      BY <2>1, <2>3, <2>4, <3>1, PrefixWithoutGap DEF HookTypes
    <3>2. CASE active = None
      BY <1>1, <3>2 DEF Idle, WithoutGap
    <3> QED BY <3>1, <3>2
  <2>5. ASSUME ~overlap, NEW recorded \in [Jobs -> 0..MaxEvents]
        PROVE  InOrder(Panel(recorded)) /\ WithoutGap(Panel(recorded))
    BY <2>1, <2>4, <2>5, PanelInOrder DEF HookTypes
  <2> QED BY <2>2, <2>3, <2>5 DEF NothingIsMissed
<1> QED BY <1>1, Invariance, PTL
=============================================================================
