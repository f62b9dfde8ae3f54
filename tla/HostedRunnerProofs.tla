------------------------- MODULE HostedRunnerProofs -------------------------
(***************************************************************************)
(* Proofs about HostedRunner: the safety properties of run hosted_runner.  *)
(*                                                                         *)
(* The invariant says of every live run where it is in its work (Shape)    *)
(* and that what it has been told is true of the job (Truthful); of every  *)
(* request, that it is what its run asked (Matches), or a callback that is *)
(* warranted however late it comes; and of a run that nobody disturbed,    *)
(* that run and job are at the same point (Parallel).                      *)
(***************************************************************************)
EXTENDS HostedRunner, SequenceTheorems, TLAPS

-----------------------------------------------------------------------------
(* The invariant *)

\* What a run still has to do: start first, resume before the next turn, and
\* call back last.
Shape(s) ==
  /\ s \in Seq(Operations) /\ s # <<>>
  /\ \A i \in DOMAIN s :
       /\ s[i] = "callback" <=> i = Len(s)
       /\ s[i] = "input" => i = 1 /\ s[2] = "start"
       /\ s[i] = "start" => i = 1 \/ (i = 2 /\ s[1] = "input")
       /\ s[i] = "resume" => i = 1 \/ (i = 2 /\ s[1] = "event")

\* The cursor the run knows, or is just being told.
Known(r) ==
  IF r.result = "ok" THEN Cursor(r, Head(r.todo))
  ELSE IF r.result \in {"repair", "rejected"} THEN r.next ELSE r.cursor

\* No candidate is left to be judged.
Passed(r) ==
  \/ r.todo[1] = "candidate" /\ r.result = "ok"
  \/ \A i \in DOMAIN r.todo : r.todo[i] # "candidate"

\* A success that closes at the cursor follows a verified candidate, a rejection the
\* last one.
Backed(cursor) == kind = "run" \/ job.judged = "verified" \/ cursor < job.cursor
Exhausted(cursor) ==
  (job.judged = "rejected" /\ job.attempt = MaxAttempts) \/ cursor < job.cursor

\* The job is settled, and not by the run.
Closed(d) == job.status \in Terminal /\ job.by # d

Explained(d) == run[d].stumbled \/ run[d].doubt \/ ~FirstRun(d) \/ Closed(d)

\* A live run by itself.
Sound(r) ==
  /\ Shape(r.todo)
  /\ r.verdict # "VERIFIED" => r.todo = <<"callback">>
  /\ r.asked => r.todo[1] \notin Local
  /\ r.result # "none" => r.asked
  /\ r.result \in {"error", "lost"} => r.doubt
  /\ r.result \in {"repair", "rejected"} => r.todo[1] = "candidate"
  /\ r.result = "repair" => r.repairs + 1 < MaxAttempts
  /\ r.result = "refused" => r.todo[1] # "input"
  /\ r.told <= r.cursor
  /\ Shared \/ r.verdict = "REJECTED" => r.told = r.cursor
  /\ r.verdict = "FAILED" /\ r.told # r.cursor => r.stale

\* A live run and the job.
Truthful(d) ==
  LET r == run[d] IN
  /\ r.cursor <= job.cursor /\ Known(r) <= job.cursor
  /\ r.verdict = "VERIFIED" /\ Passed(r) => Backed(Known(r))
  /\ r.result = "rejected" => Exhausted(r.next)
  /\ r.verdict = "REJECTED" => Exhausted(r.told)
  /\ r.verdict = "FAILED" => Explained(d)
  /\ r.aborted \/ (r.result = "ok" /\ r.todo[1] = "callback") => job.status \in Terminal

RunsSound ==
  \A d \in Try :
    /\ run[d].state = "live" => Sound(run[d]) /\ Truthful(d)
    /\ run[d].state # "live" => ~run[d].asked /\ run[d].result = "none"

PostsSound == \A d \in Try : run[d].state # "none" => posts[d] = "over"

OneLive == \A d, e \in Live : d = e

\* What a run that waits has asked.
Matches(q, r) ==
  /\ r.state = "live" /\ r.asked /\ r.result = "none"
  /\ q.op = r.todo[1] /\ q.attempt = r.repairs + 1 /\ q.verdict = r.verdict
  /\ q.cursor = IF q.op \in Events THEN r.cursor + 1
                ELSE IF r.verdict = "VERIFIED" THEN r.cursor ELSE r.told

\* A callback on its way says what happened, or comes too late.
Warranted(q) ==
  /\ q.cursor <= job.cursor
  /\ q.verdict = "VERIFIED" => Backed(q.cursor)
  /\ q.verdict = "REJECTED" => Exhausted(q.cursor)
  /\ q.verdict = "FAILED" => Explained(q.by)

RequestsSound ==
  \A q \in net :
    /\ run[q.by].state # "none"
    /\ q.awaited => Matches(q, run[q.by])
    /\ q.op = "callback" => Warranted(q)

JobSound ==
  /\ job.attempt <= MaxAttempts /\ job.status # "QUEUED"
  /\ job.by # 0 => job.status \in Terminal /\ run[job.by].state # "none"

\* Before the first run only others touch the job.
Untouched ==
  (\A d \in Try : run[d].state = "none") =>
    /\ net = {} /\ job.by = 0
    /\ \/ job.status = "CANCELLED"
       \/ job.status = "STARTING" /\ job.cursor = 0 /\ job.attempt = 1

\* Where a run is, the job is.
Starts(r) == r.todo[1] = "input" \/ (r.todo[1] = "start" /\ r.result # "ok")
Repairs(r) ==
  \/ r.todo[1] = "event" /\ r.todo[2] = "resume"
  \/ r.todo[1] = "resume" /\ r.result # "ok"
  \/ r.result = "repair"

Expected(r) ==
  IF Starts(r) THEN "STARTING" ELSE IF Repairs(r) THEN "REPAIRING" ELSE "RUNNING"

\* The job's first run, whose answers all came, while nobody else closes the job.
Undisturbed(d) ==
  run[d].state = "live" /\ ~run[d].doubt /\ FirstRun(d) /\ ~Closed(d)

Follows(d) ==
  LET r == run[d] IN
  /\ \A q \in net : q.by = d /\ q.awaited
  /\ job.by = d => r.result = "ok" /\ r.todo[1] = "callback"
  /\ job.by # d =>
       /\ job.by = 0 /\ job.cursor = Known(r)
       /\ r.verdict = "VERIFIED" =>
            /\ job.status = Expected(r)
            /\ job.attempt = r.repairs + IF r.result = "repair" THEN 2 ELSE 1
       /\ r.verdict = "REJECTED" => job.status = "RUNNING"
  /\ r.result = "refused" => MayBeStale(d) /\ r.verdict = "FAILED"

Parallel == \A d \in Try : Undisturbed(d) => Follows(d)

IInv ==
  /\ TypeOK /\ RunsSound /\ PostsSound /\ OneLive /\ RequestsSound /\ JobSound
  /\ Untouched /\ Parallel
  /\ AnsweredRunSettles /\ OutcomeIsEarned

-----------------------------------------------------------------------------
(* What is left to do *)

\* What the shape says of the head of the work.
LEMMA ShapeBasics ==
  ASSUME NEW s, Shape(s)
  PROVE  /\ Len(s) \in Nat /\ Len(s) >= 1 /\ DOMAIN s = 1..Len(s)
         /\ Head(s) = s[1] /\ s[1] \in Operations
         /\ s[1] # "callback" => Len(s) >= 2 /\ s[2] \in Operations
         /\ s[1] = "callback" => s = <<"callback">>
<1>1. s \in Seq(Operations) /\ s # <<>> BY DEF Shape
<1>2. Len(s) \in Nat /\ Len(s) >= 1 /\ DOMAIN s = 1..Len(s) /\ Head(s) = s[1]
  BY <1>1
<1>3. \A i \in 1..Len(s) : s[i] \in Operations
  BY <1>1, ElementOfSeq
<1>4. s[Len(s)] = "callback"
  BY <1>2 DEF Shape
<1>5. s[1] = "callback" => Len(s) = 1
  BY <1>2 DEF Shape
<1>6. s[1] = "callback" => s = <<"callback">>
  <2> SUFFICES ASSUME s[1] = "callback" PROVE s = <<"callback">> OBVIOUS
  <2>1. <<"callback">> \in Seq(Operations) /\ Len(<<"callback">>) = 1
    BY DEF Operations
  <2> QED BY <1>1, <1>5, <2>1, SeqEqual
<1> QED BY <1>2, <1>3, <1>4, <1>6

\* What is left after a step keeps the shape.
LEMMA ShapeTail ==
  ASSUME NEW s, Shape(s), s[1] # "callback"
  PROVE  /\ Shape(Tail(s)) /\ DOMAIN Tail(s) = 1..(Len(s) - 1)
         /\ \A i \in 1..(Len(s) - 1) : Tail(s)[i] = s[i + 1]
<1>1. /\ s \in Seq(Operations) /\ s # <<>> /\ Len(s) \in Nat /\ Len(s) >= 2
      /\ DOMAIN s = 1..Len(s)
  BY ShapeBasics DEF Shape
<1>2. /\ Tail(s) \in Seq(Operations) /\ Len(Tail(s)) = Len(s) - 1
      /\ DOMAIN Tail(s) = 1..(Len(s) - 1)
      /\ \A i \in 1..(Len(s) - 1) : Tail(s)[i] = s[i + 1]
  BY <1>1
<1>3. Tail(s) # <<>>
  BY <1>1, <1>2, EmptySeq
<1>4. ASSUME NEW i \in 1..(Len(s) - 1)
      PROVE  /\ Tail(s)[i] = "callback" <=> i = Len(s) - 1
             /\ Tail(s)[i] # "input"
             /\ Tail(s)[i] = "start" => i = 1
             /\ Tail(s)[i] = "resume" => i = 1
  <2> DEFINE k == i + 1
  <2>1. k \in DOMAIN s /\ k > 1 /\ Tail(s)[i] = s[k] BY <1>1, <1>2
  <2>2. /\ s[k] = "callback" <=> k = Len(s)
        /\ s[k] # "input" /\ (s[k] \in {"start", "resume"} => k = 2)
    <3> HIDE DEF k
    <3> QED BY <2>1 DEF Shape
  <2>3. i \in Nat /\ (k = Len(s) <=> i = Len(s) - 1) /\ (k = 2 <=> i = 1)
    BY <1>1
  <2> HIDE DEF k
  <2> QED BY <2>1, <2>2, <2>3
<1> QED BY <1>2, <1>3, <1>4 DEF Shape

Plain == Operations \ {"input", "start", "resume", "callback"}

IsPlain(s) == \A i \in DOMAIN s : s[i] \notin {"input", "start", "resume"}

\* A turn compiles, announces and uploads its files, and offers the candidate last.
LEMMA TurnShape ==
  /\ Turn \in Seq(Plain) /\ Len(Turn) = 2 * Files + 2
  /\ Turn[1] = "compile" /\ Turn[2 * Files + 2] = "candidate"
<1> DEFINE outputs == [i \in 1..(2 * Files) |-> IF i % 2 = 1 THEN "upload" ELSE "file"]
<1>1. Files \in Nat /\ Files >= 1 /\ 2 * Files \in Nat
  BY ConstantsOK
<1>2. outputs \in Seq(Plain) /\ Len(outputs) = 2 * Files
  <2>1. outputs \in [1..(2 * Files) -> Plain] BY DEF Plain, Operations, Local
  <2> QED BY <1>1, <2>1
<1>3. <<"compile">> \in Seq(Plain) /\ <<"candidate">> \in Seq(Plain)
  BY DEF Plain, Operations, Local
<1> DEFINE first == <<"compile">> \o outputs
<1>4. first \in Seq(Plain) /\ Len(first) = 2 * Files + 1 /\ first[1] = "compile"
  BY <1>1, <1>2, <1>3
<1> HIDE DEF outputs, first
<1>5. Turn = first \o <<"candidate">> BY DEF Turn, first, outputs
<1> QED BY <1>1, <1>3, <1>4, <1>5

\* Operations of a turn are put before what is left of a run.
LEMMA PlainThen ==
  ASSUME NEW s, Shape(s), IsPlain(s), NEW w \in Seq(Plain), w # <<>>
  PROVE  /\ Shape(w \o s) /\ IsPlain(w \o s)
         /\ \A i \in DOMAIN w : i \in DOMAIN (w \o s) /\ (w \o s)[i] = w[i]
<1> DEFINE n == Len(w)
           t == w \o s
<1>1. /\ n \in Nat /\ n >= 1 /\ w \in Seq(Operations) /\ DOMAIN w = 1..n
      /\ \A i \in 1..n : w[i] \in Plain
  <2>1. Plain \subseteq Operations BY DEF Plain
  <2>2. w \in Seq(Operations) BY <2>1, SeqMonotonic
  <2>3. \A i \in 1..n : w[i] \in Plain BY ElementOfSeq
  <2> QED BY <2>2, <2>3, LenProperties, EmptySeq
<1>2. s \in Seq(Operations) /\ Len(s) \in Nat /\ Len(s) >= 1 /\ DOMAIN s = 1..Len(s)
  BY ShapeBasics DEF Shape
<1> HIDE DEF n
<1>3. /\ t \in Seq(Operations) /\ Len(t) = n + Len(s) /\ DOMAIN t = 1..(n + Len(s))
      /\ \A i \in 1..(n + Len(s)) : t[i] = IF i <= n THEN w[i] ELSE s[i - n]
  <2>1. /\ t \in Seq(Operations) /\ Len(t) = n + Len(s)
        /\ \A i \in 1..(n + Len(s)) : t[i] = IF i <= n THEN w[i] ELSE s[i - n]
    BY <1>1, <1>2, ConcatProperties DEF n
  <2> QED BY <2>1, LenProperties
<1> HIDE DEF t
<1>4. t # <<>> BY <1>1, <1>2, <1>3, EmptySeq
<1>5. ASSUME NEW i \in DOMAIN t
      PROVE  /\ t[i] \notin {"input", "start", "resume"}
             /\ t[i] = "callback" <=> i = Len(t)
  <2>1. CASE i <= n
    <3>1. t[i] \in Plain BY <1>1, <1>3, <2>1
    <3> QED BY <1>1, <1>2, <1>3, <2>1, <3>1 DEF Plain
  <2>2. CASE i > n
    <3>1. i - n \in DOMAIN s /\ t[i] = s[i - n] BY <1>1, <1>2, <1>3, <2>2
    <3>2. s[i - n] = "callback" <=> i - n = Len(s) BY <3>1 DEF Shape
    <3>3. s[i - n] \notin {"input", "start", "resume"} BY <3>1 DEF IsPlain
    <3>4. i - n = Len(s) <=> i = Len(t)
      <4>1. i \in Nat /\ Len(t) = n + Len(s) BY <1>1, <1>2, <1>3
      <4>2. n \in Nat /\ Len(s) \in Nat BY <1>1, <1>2
      <4> QED BY <4>1, <4>2
    <3> QED BY <3>1, <3>2, <3>3, <3>4
  <2> QED BY <1>1, <1>3, <2>1, <2>2
<1>6. Shape(t) BY <1>3, <1>4, <1>5 DEF Shape
<1>7. \A i \in DOMAIN w : i \in DOMAIN t /\ t[i] = w[i]
  BY <1>1, <1>2, <1>3
<1> QED BY <1>5, <1>6, <1>7 DEF t, IsPlain

\* So is a single operation.
LEMMA OneThen ==
  ASSUME NEW s, Shape(s), NEW op \in Operations \ {"callback"},
         \A i \in DOMAIN s : s[i] # "input" /\ (s[i] = "start" => op = "input" /\ i = 1),
         op = "input" => s[1] = "start",
         \A i \in DOMAIN s : s[i] = "resume" => i = 1 /\ op = "event"
  PROVE  LET t == <<op>> \o s IN
         /\ Shape(t) /\ t[1] = op /\ t[2] = s[1] /\ DOMAIN t = 1..(Len(s) + 1)
         /\ \A i \in DOMAIN s : t[i + 1] = s[i]
<1> DEFINE t == <<op>> \o s
<1>1. s \in Seq(Operations) /\ Len(s) \in Nat /\ Len(s) >= 1 /\ DOMAIN s = 1..Len(s)
  BY ShapeBasics DEF Shape
<1>2. <<op>> \in Seq(Operations) /\ Len(<<op>>) = 1 /\ <<op>>[1] = op
  OBVIOUS
<1>3. /\ t \in Seq(Operations) /\ Len(t) = Len(s) + 1 /\ DOMAIN t = 1..(Len(s) + 1)
      /\ \A i \in 1..(Len(s) + 1) : t[i] = IF i <= 1 THEN op ELSE s[i - 1]
  <2>1. /\ t \in Seq(Operations) /\ Len(t) = 1 + Len(s)
        /\ \A i \in 1..(1 + Len(s)) : t[i] = IF i <= 1 THEN <<op>>[i] ELSE s[i - 1]
    BY <1>1, <1>2, ConcatProperties
  <2> QED BY <1>1, <1>2, <2>1, LenProperties
<1> HIDE DEF t
<1>4. t # <<>> BY <1>1, <1>3, EmptySeq
<1>5. t[1] = op /\ t[2] = s[1] /\ \A i \in DOMAIN s : t[i + 1] = s[i]
  BY <1>1, <1>3
<1>6. ASSUME NEW i \in DOMAIN t
      PROVE  /\ t[i] = "callback" <=> i = Len(t)
             /\ t[i] = "input" => i = 1 /\ t[2] = "start"
             /\ t[i] = "start" => i = 1 \/ (i = 2 /\ t[1] = "input")
             /\ t[i] = "resume" => i = 1 \/ (i = 2 /\ t[1] = "event")
  <2>1. CASE i = 1 BY <1>1, <1>3, <1>5, <2>1
  <2>2. CASE i > 1
    <3>1. i - 1 \in DOMAIN s /\ t[i] = s[i - 1] BY <1>1, <1>3, <2>2
    <3>2. s[i - 1] = "callback" <=> i - 1 = Len(s) BY <3>1 DEF Shape
    <3> QED BY <1>1, <1>3, <1>5, <2>2, <3>1, <3>2
  <2> QED BY <1>1, <1>3, <2>1, <2>2
<1>7. Shape(t) BY <1>3, <1>4, <1>6 DEF Shape
<1> QED BY <1>3, <1>5, <1>7 DEF t

\* A run that failed has only its callback left.
LEMMA LastShape == Shape(<<"callback">>) /\ IsPlain(<<"callback">>)
BY DEF Shape, IsPlain, Operations

HasCandidate(s) == \E i \in DOMAIN s : s[i] = "candidate"

\* The front of a concatenation is its first part.
LEMMA Append2 ==
  ASSUME NEW a \in Seq(Plain), NEW b \in Seq(Plain), NEW i \in 1..Len(a)
  PROVE  /\ a \o b \in Seq(Plain) /\ Len(a \o b) = Len(a) + Len(b)
         /\ i \in 1..Len(a \o b) /\ (a \o b)[i] = a[i]
<1>1. Len(a) \in Nat /\ Len(b) \in Nat BY LenProperties
<1>2. i \in 1..(Len(a) + Len(b)) /\ i <= Len(a) BY <1>1
<1> QED BY <1>2, ConcatProperties

\* A run starts with everything before it.
LEMMA StepsShape ==
  ASSUME kind \in Kinds
  PROVE  Shape(Steps) /\ Steps[1] = "input" /\ (kind # "run" => HasCandidate(Steps))
<1> DEFINE w == Work[kind]
           n == 2 * Files + 2
<1>1. w \in Seq(Plain) /\ w # <<>> /\ (kind # "run" => HasCandidate(w))
  <2>1. CASE kind = "run"
    <3>1. w = <<"work", "upload", "event">> BY <2>1 DEF Work
    <3> QED BY <2>1, <3>1 DEF Plain, Operations, Local
  <2>2. CASE kind = "compile"
    <3>1. w = Turn BY <2>2 DEF Work
    <3>2. n \in 1..Len(Turn) BY TurnShape, ConstantsOK
    <3> QED BY <3>1, <3>2, TurnShape, LenProperties, EmptySeq DEF HasCandidate
  <2>3. CASE kind = "patch"
    <3> DEFINE a == <<"source", "work", "upload", "upload">>
               b == <<"event", "event">>
    <3>1. w = (Turn \o a) \o b BY <2>3 DEF Work
    <3>2. /\ a \in Seq(Plain) /\ b \in Seq(Plain) /\ Turn \in Seq(Plain)
          /\ n \in 1..Len(Turn) /\ Turn[n] = "candidate"
      BY TurnShape, ConstantsOK DEF Plain, Operations, Local
    <3> DEFINE c == Turn \o a
    <3> HIDE DEF a, b, n
    <3>3. c \in Seq(Plain) /\ n \in 1..Len(c) /\ c[n] = "candidate"
      BY <3>2, Append2
    <3> HIDE DEF c
    <3>4. c \o b \in Seq(Plain) /\ n \in 1..Len(c \o b) /\ (c \o b)[n] = "candidate"
      BY <3>2, <3>3, Append2
    <3>5. w = c \o b BY <3>1 DEF c
    <3> HIDE DEF w
    <3>6. w \in Seq(Plain) /\ n \in DOMAIN w /\ w[n] = "candidate"
      BY <3>4, <3>5, LenProperties
    <3> QED BY <3>6, LenProperties, EmptySeq DEF HasCandidate
  <2> QED BY <2>1, <2>2, <2>3, ConstantsOK
<1> DEFINE m == Len(w)
           a == <<"input", "start", "event">>
           b == <<"callback">>
           x == a \o w
           s == x \o b
<1>2. Steps = s BY DEF Steps
<1>3. /\ m \in Nat /\ m >= 1 /\ DOMAIN w = 1..m /\ w \in Seq(Operations)
      /\ \A i \in 1..m : w[i] \in Plain
  <2>1. Plain \subseteq Operations BY DEF Plain
  <2>2. w \in Seq(Operations) BY <1>1, <2>1, SeqMonotonic
  <2>3. \A i \in 1..m : w[i] \in Plain BY <1>1, ElementOfSeq
  <2> QED BY <1>1, <2>2, <2>3, LenProperties, EmptySeq
<1>4. /\ a \in Seq(Operations) /\ Len(a) = 3 /\ b \in Seq(Operations) /\ Len(b) = 1
      /\ a[1] = "input" /\ a[2] = "start" /\ a[3] = "event" /\ b[1] = "callback"
  BY DEF Operations
<1> HIDE DEF w, m, a, b, n
<1>5. /\ x \in Seq(Operations) /\ Len(x) = m + 3
      /\ \A i \in 1..(m + 3) : x[i] = IF i <= 3 THEN a[i] ELSE w[i - 3]
  <2>1. /\ x \in Seq(Operations) /\ Len(x) = Len(a) + Len(w)
        /\ \A i \in 1..(Len(a) + Len(w)) :
             x[i] = IF i <= Len(a) THEN a[i] ELSE w[i - Len(a)]
    BY <1>3, <1>4, ConcatProperties
  <2>2. Len(w) = m /\ Len(a) = 3 /\ 3 + m = m + 3 BY <1>3, <1>4 DEF m
  <2> QED BY <2>1, <2>2
<1> HIDE DEF x
<1>6. /\ s \in Seq(Operations) /\ Len(s) = m + 4 /\ DOMAIN s = 1..(m + 4)
      /\ \A i \in 1..(m + 4) : s[i] = IF i <= m + 3 THEN x[i] ELSE b[i - (m + 3)]
  <2>1. /\ s \in Seq(Operations) /\ Len(s) = Len(x) + Len(b)
        /\ \A i \in 1..(Len(x) + Len(b)) :
             s[i] = IF i <= Len(x) THEN x[i] ELSE b[i - Len(x)]
    BY <1>4, <1>5, ConcatProperties
  <2>2. Len(x) = m + 3 /\ Len(b) = 1 /\ (m + 3) + 1 = m + 4 BY <1>3, <1>4, <1>5
  <2>3. DOMAIN s = 1..Len(s) BY <2>1, LenProperties
  <2> QED BY <2>1, <2>2, <2>3
<1> HIDE DEF s
<1>7. ASSUME NEW i \in 1..(m + 4)
      PROVE  s[i] = IF i = 1 THEN "input" ELSE IF i = 2 THEN "start"
                    ELSE IF i = 3 THEN "event"
                    ELSE IF i <= m + 3 THEN w[i - 3] ELSE "callback"
  BY <1>3, <1>4, <1>5, <1>6
<1>8. s # <<>> BY <1>3, <1>6, EmptySeq
<1>9. ASSUME NEW i \in 1..(m + 4)
      PROVE  /\ s[i] = "callback" <=> i = m + 4
             /\ s[i] = "input" => i = 1
             /\ s[i] = "start" => i = 2
             /\ s[i] # "resume"
  <2>1. CASE i \in 4..(m + 3)
    <3>1. i - 3 \in 1..m BY <1>3, <2>1
    <3>2. s[i] \in Plain BY <1>3, <1>7, <2>1, <3>1
    <3> QED BY <1>3, <2>1, <3>2 DEF Plain
  <2>2. CASE i \notin 4..(m + 3)
    <3>1. i = 1 \/ i = 2 \/ i = 3 \/ i = m + 4 BY <1>3, <2>2
    <3> QED BY <1>3, <1>7, <3>1
  <2> QED BY <2>1, <2>2
<1>10. s[1] = "input" /\ s[2] = "start"
  BY <1>3, <1>7
<1>11. Shape(s) BY <1>3, <1>6, <1>8, <1>9, <1>10 DEF Shape
<1>12. ASSUME NEW i \in DOMAIN w
       PROVE  i + 3 \in DOMAIN s /\ s[i + 3] = w[i]
  <2>1. i + 3 \in 1..(m + 4) /\ i + 3 > 3 /\ i + 3 <= m + 3 /\ (i + 3) - 3 = i
    BY <1>3
  <2> QED BY <1>6, <1>7, <2>1
<1> QED BY <1>1, <1>2, <1>10, <1>11, <1>12 DEF HasCandidate

\* A candidate sent to repair.
LEMMA RepairShape ==
  ASSUME NEW s, Shape(s), s[1] = "candidate"
  PROVE  LET t == RepairSteps \o Tail(s) IN
         Shape(t) /\ t[1] = "event" /\ t[2] = "resume" /\ HasCandidate(t)
<1> DEFINE x == Tail(s)
           n == 2 * Files + 2
<1>1. Shape(x) /\ IsPlain(x)
  <2>1. /\ Shape(x) /\ DOMAIN x = 1..(Len(s) - 1)
        /\ \A i \in 1..(Len(s) - 1) : x[i] = s[i + 1]
    BY ShapeTail
  <2>2. ASSUME NEW i \in DOMAIN x PROVE x[i] \notin {"input", "start", "resume"}
    <3>1. i + 1 \in DOMAIN s /\ i + 1 > 1 /\ x[i] = s[i + 1] BY <2>1, ShapeBasics
    <3> QED BY <3>1 DEF Shape
  <2> QED BY <2>1, <2>2 DEF IsPlain
<1>2. x \in Seq(Operations) BY <1>1 DEF Shape
<1> HIDE DEF x
<1>3. Turn \in Seq(Plain) /\ Turn # <<>> /\ n \in DOMAIN Turn /\ Turn[n] = "candidate"
  <2>1. n \in 1..Len(Turn) BY TurnShape, ConstantsOK
  <2> QED BY <2>1, TurnShape, EmptySeq, LenProperties
<1> DEFINE u == Turn \o x
           v == <<"resume">> \o u
<1>4. Shape(u) /\ IsPlain(u) /\ HasCandidate(u)
  BY <1>1, <1>3, PlainThen DEF HasCandidate
<1>5. RepairSteps \o x = <<"event">> \o v
  <2> DEFINE ev == <<"event">>
             re == <<"resume">>
             O == Operations
  <2>1. ev \in Seq(O) /\ re \in Seq(O) /\ Turn \in Seq(O) /\ x \in Seq(O)
    <3>1. Plain \subseteq Operations BY DEF Plain
    <3>2. Turn \in Seq(O) BY <1>3, <3>1, SeqMonotonic
    <3> QED BY <1>2, <3>2 DEF Operations
  <2>2. <<"event", "resume">> = ev \o re OBVIOUS
  <2>3. RepairSteps \o x = ((ev \o re) \o Turn) \o x BY <2>2 DEF RepairSteps
  <2> HIDE DEF ev, re, O
  <2>4. ev \o re \in Seq(O) /\ Turn \o x \in Seq(O) BY <2>1, ConcatProperties
  <2>5. RepairSteps \o x = (ev \o re) \o (Turn \o x)
    BY <2>1, <2>3, <2>4, ConcatAssociative
  <2>6. RepairSteps \o x = ev \o (re \o (Turn \o x))
    BY <2>1, <2>4, <2>5, ConcatAssociative
  <2> QED BY <2>6 DEF ev, re
<1> HIDE DEF u
<1>6. /\ Shape(v) /\ v[1] = "resume" /\ DOMAIN v = 1..(Len(u) + 1)
      /\ \A i \in DOMAIN u : i + 1 \in DOMAIN v /\ v[i + 1] = u[i]
  BY <1>4, OneThen, ShapeBasics DEF IsPlain, Operations
<1>7. ASSUME NEW i \in DOMAIN v
      PROVE  v[i] # "input" /\ v[i] # "start" /\ (v[i] = "resume" => i = 1)
  <2>1. CASE i = 1 BY <1>6, <2>1
  <2>2. CASE i # 1
    <3>1. i - 1 \in DOMAIN u /\ v[(i - 1) + 1] = u[i - 1] /\ (i - 1) + 1 = i
      BY <1>4, <1>6, <2>2, ShapeBasics
    <3> QED BY <1>4, <3>1 DEF IsPlain
  <2> QED BY <2>1, <2>2
<1>8. HasCandidate(v)
  BY <1>4, <1>6 DEF HasCandidate
<1> HIDE DEF v
<1> DEFINE t == <<"event">> \o v
<1>9. /\ Shape(t) /\ t[1] = "event" /\ t[2] = "resume"
      /\ \A i \in DOMAIN v : i + 1 \in DOMAIN t /\ t[i + 1] = v[i]
  BY <1>6, <1>7, OneThen, ShapeBasics DEF Operations
<1> QED BY <1>5, <1>8, <1>9 DEF HasCandidate, x

\* The compiler yields an event.
LEMMA StreamShape ==
  ASSUME NEW s, Shape(s), s[1] = "compile"
  PROVE  LET t == <<"stream">> \o s IN
         Shape(t) /\ t[1] = "stream" /\ (HasCandidate(s) => HasCandidate(t))
<1>1. ASSUME NEW i \in DOMAIN s PROVE s[i] \notin {"input", "start", "resume"}
  BY ShapeBasics DEF Shape
<1>2. /\ Shape(<<"stream">> \o s) /\ (<<"stream">> \o s)[1] = "stream"
      /\ \A i \in DOMAIN s : i + 1 \in DOMAIN (<<"stream">> \o s)
                             /\ (<<"stream">> \o s)[i + 1] = s[i]
  BY <1>1, OneThen, ShapeBasics DEF Operations
<1> QED BY <1>2 DEF HasCandidate

-----------------------------------------------------------------------------
(* Steps of a run by itself *)

\* The run d, which waits for nothing, goes on as NEW.
GoesOn(d, new) ==
  /\ new \in Run /\ run' = [run EXCEPT ![d] = new]
  /\ UNCHANGED <<kind, job, posts, server, net>>
  /\ run[d].asked => run[d].result # "none"
  /\ new.state = "live" /\ ~new.asked /\ new.result = "none"
  /\ new.doubt = run[d].doubt /\ (run[d].stumbled => new.stumbled) /\ ~new.aborted
  /\ Sound(new)
  /\ new.cursor <= job.cursor
  /\ new.verdict = "VERIFIED" /\ Passed(new) => Backed(new.cursor)
  /\ new.verdict = "REJECTED" => Exhausted(new.told)
  /\ new.verdict = "FAILED" => new.stumbled \/ Explained(d)
  /\ Undisturbed(d) =>
       /\ job.by # d /\ job.cursor = new.cursor
       /\ new.verdict = "VERIFIED" =>
            job.status = Expected(new) /\ job.attempt = new.repairs + 1
       /\ new.verdict = "REJECTED" => job.status = "RUNNING"

\* A run that goes on with a step of its own keeps the invariant.
LEMMA GoesOnKeeps ==
  ASSUME IInv, NEW d \in Live, NEW new, GoesOn(d, new)
  PROVE  IInv'
<1>1. /\ d \in Try /\ run \in [Try -> Run] /\ run[d] \in Run /\ job \in Job
      /\ run[d].state = "live" /\ new \in Run
      /\ run' \in [Try -> Run] /\ run'[d] = new
      /\ \A e \in Try \ {d} : run'[e] = run[e]
      /\ kind' = kind /\ job' = job /\ net' = net /\ posts' = posts /\ server' = server
  BY DEF IInv, TypeOK, Live, GoesOn
<1>2. /\ new.state = "live" /\ ~new.asked /\ new.result = "none" /\ new.doubt = run[d].doubt
      /\ \A e \in Try : run'[e].state = run[e].state /\ run'[e].doubt = run[e].doubt
                       /\ (run[e].stumbled => run'[e].stumbled)
  BY <1>1 DEF GoesOn
<1>3. /\ Live' = Live /\ \A e \in Try : FirstRun(e)' = FirstRun(e) /\ Closed(e)' = Closed(e)
  <2>1. Live' = Live BY <1>2 DEF Live
  <2>2. ASSUME NEW e \in Try PROVE FirstRun(e)' = FirstRun(e) BY <1>2 DEF FirstRun
  <2>3. ASSUME NEW e \in Try PROVE Closed(e)' = Closed(e) BY <1>1 DEF Closed
  <2> QED BY <2>1, <2>2, <2>3
<1>4. \A e \in Try : Explained(e) => Explained(e)'
  BY <1>2, <1>3 DEF Explained
<1>5. TypeOK' BY <1>1 DEF IInv, TypeOK
<1>6. RunsSound'
  <2>1. Sound(new)' BY <1>1 DEF GoesOn, Sound, Shared, Shape, Local, Operations
  <2>2. Truthful(d)'
    <3>1. Known(new) = new.cursor BY <1>2 DEF Known
    <3>2. new.verdict = "FAILED" => Explained(d)'
      BY <1>1, <1>4 DEF GoesOn, Explained
    <3> QED BY <1>1, <1>2, <3>1, <3>2
         DEF GoesOn, Truthful, Known, Passed, Backed, Exhausted
  <2>3. ASSUME NEW e \in Try \ {d}, run[e].state = "live"
        PROVE  Sound(run[e])' /\ Truthful(e)'
    <3>1. Sound(run[e]) /\ Truthful(e) BY <2>3 DEF IInv, RunsSound
    <3> QED BY <1>1, <1>4, <3>1
         DEF Sound, Shared, Truthful, Known, Cursor, Passed, Backed, Exhausted
  <2> QED BY <1>1, <1>2, <2>1, <2>2, <2>3 DEF IInv, RunsSound
<1>7. PostsSound' /\ OneLive' /\ JobSound' /\ Untouched'
  <2>1. job.by # 0 => job.by \in Try BY <1>1 DEF Job, Try
  <2>2. PostsSound' /\ OneLive' BY <1>1, <1>2, <1>3 DEF IInv, PostsSound, OneLive
  <2>3. JobSound' BY <1>1, <1>2, <2>1 DEF IInv, JobSound
  <2>4. Untouched' BY <1>1, <1>2 DEF IInv, Untouched
  <2> QED BY <2>2, <2>3, <2>4
<1>8. RequestsSound'
  <2> SUFFICES ASSUME NEW q \in net
               PROVE  /\ run'[q.by].state # "none"
                      /\ q.awaited => Matches(q, run[q.by])'
                      /\ q.op = "callback" => Warranted(q)'
    BY <1>1 DEF RequestsSound
  <2>1. /\ q.by \in Try /\ run[q.by].state # "none"
        /\ q.awaited => Matches(q, run[q.by])
        /\ q.op = "callback" => Warranted(q)
    BY DEF IInv, RequestsSound, TypeOK, Request
  <2>2. q.awaited => q.by # d
    BY <2>1 DEF Matches, GoesOn
  <2> QED BY <1>1, <1>2, <1>4, <2>1, <2>2 DEF Matches, Warranted, Backed, Exhausted
<1>9. Parallel'
  <2> SUFFICES ASSUME NEW e \in Try, Undisturbed(e)' PROVE Follows(e)'
    BY DEF Parallel
  <2>1. e = d
    BY <1>1, <1>2, <1>3 DEF Undisturbed, Live, IInv, OneLive
  <2>2. Undisturbed(d) BY <1>1, <1>2, <1>3, <2>1 DEF Undisturbed
  <2>3. /\ \A q \in net : q.by = d /\ q.awaited
        /\ job.by # d => job.by = 0
    BY <1>1, <2>2 DEF IInv, Parallel, Follows
  <2>4. Known(new) = new.cursor BY <1>2 DEF Known
  <2> QED BY <1>1, <1>2, <2>1, <2>2, <2>3, <2>4
       DEF GoesOn, Follows, Known, Expected, Starts, Repairs
<1>10. AnsweredRunSettles' /\ OutcomeIsEarned'
  <2>1. AnsweredRunSettles'
    BY <1>1, <1>2, <1>3 DEF IInv, AnsweredRunSettles, MayBeStale, Shared
  <2>2. job.by # 0 => job.by \in Try BY <1>1 DEF Job, Try
  <2>3. OutcomeIsEarned'
    BY <1>1, <1>2, <1>3, <2>2 DEF IInv, OutcomeIsEarned
  <2> QED BY <2>1, <2>3
<1> QED BY <1>5, <1>6, <1>7, <1>8, <1>9, <1>10 DEF IInv

\* The types of a live run.
LEMMA LiveFacts ==
  ASSUME IInv, NEW d \in Live
  PROVE  /\ d \in Try /\ run[d] \in Run /\ job \in Job /\ run[d].state = "live"
         /\ run[d].cursor \in Nat /\ run[d].told \in Nat /\ run[d].next \in Nat
         /\ run[d].repairs \in Nat /\ run[d].tries \in Nat /\ run[d].result \in Results
         /\ run[d].verdict \in {"VERIFIED", "REJECTED", "FAILED"}
         /\ run[d].doubt \in BOOLEAN /\ run[d].asked \in BOOLEAN
         /\ run[d].stumbled \in BOOLEAN /\ run[d].aborted \in BOOLEAN
         /\ job.cursor \in Nat /\ job.attempt \in Nat /\ job.status \in Status
         /\ job.by \in 0..Dispatches
         /\ Sound(run[d]) /\ Truthful(d) /\ (Undisturbed(d) => Follows(d))
         /\ Shape(run[d].todo) /\ Head(run[d].todo) = run[d].todo[1]
         /\ run[d].todo[1] \in Operations
<1>1. /\ d \in Try /\ run[d] \in Run /\ job \in Job /\ run[d].state = "live"
  BY DEF IInv, TypeOK, Live
<1>2. Sound(run[d]) /\ Truthful(d) /\ (Undisturbed(d) => Follows(d))
  BY <1>1 DEF IInv, RunsSound, Parallel
<1>3. Shape(run[d].todo) BY <1>2 DEF Sound
<1> QED BY <1>1, <1>2, <1>3, ShapeBasics DEF Run, Job

\* What is new after an operation that is done.
LEMMA ContinueKeeps ==
  ASSUME IInv, NEW d \in Try, Continue(d)
  PROVE  IInv'
<1> DEFINE r == run[d]
           s == r.todo
           c == Cursor(r, s[1])
           told == Told(r, s[1], Tail(s), c)
           new == [[r EXCEPT !.todo = Tail(s), !.cursor = c, !.told = told]
                   EXCEPT !.asked = FALSE, !.result = "none", !.next = 0]
<1>1. d \in Live /\ Head(s) = s[1]
  <2>1. d \in Live BY DEF Continue, Doing
  <2> QED BY <2>1, LiveFacts
<1>2. /\ s[1] # "callback" /\ r.result = "ok" /\ ~r.aborted /\ r.verdict = "VERIFIED"
      /\ Sound(r) /\ Truthful(d) /\ r \in Run /\ Shape(s)
  BY <1>1, LiveFacts, LastShape DEF Continue, Doing, Sound
<1>3. c = Known(r) /\ c \in Nat /\ c <= job.cursor
      /\ (Shared => told = c) /\ told \in Nat /\ told <= c
  <2>1. c = Known(r) BY <1>1, <1>2 DEF Known
  <2>2. c \in Nat BY <1>1, LiveFacts DEF Cursor
  <2>3. c <= job.cursor BY <1>2, <2>1 DEF Truthful
  <2>4. told \in {r.told, c} /\ (Shared => told = c) BY DEF Told
  <2>5. s[1] # "candidate" => r.told <= c
    BY <1>1, <1>2, LiveFacts DEF Cursor, Sound
  <2>6. s[1] = "candidate" => told = c BY DEF Told
  <2>7. r.told \in Nat BY <1>1, LiveFacts
  <2> HIDE DEF c, told
  <2> QED BY <2>1, <2>2, <2>3, <2>4, <2>5, <2>6, <2>7
<1>4. /\ Shape(Tail(s)) /\ Tail(s)[1] = s[2] /\ Len(s) \in Nat /\ Len(s) >= 2
      /\ DOMAIN Tail(s) = 1..(Len(s) - 1)
      /\ \A i \in 1..(Len(s) - 1) : Tail(s)[i] = s[i + 1]
  BY <1>2, ShapeTail, ShapeBasics
<1>5. /\ new \in Run /\ new.todo = Tail(s) /\ new.cursor = c /\ new.told = told
      /\ ~new.asked /\ new.result = "none" /\ new.state = "live" /\ new.verdict = "VERIFIED"
      /\ new.doubt = r.doubt /\ new.stumbled = r.stumbled /\ ~new.aborted
      /\ new.repairs = r.repairs
  <2>1. r.state = "live" /\ Tail(s) \in Seq(Operations) BY <1>1, <1>4 DEF Live, Shape
  <2> HIDE DEF c, told, s
  <2> QED BY <1>2, <1>3, <2>1 DEF Run, Results
<1>6. run' = [run EXCEPT ![d] = new] /\ UNCHANGED <<kind, job, posts, server, net>>
  BY <1>1 DEF Continue, Goes
<1> HIDE DEF c, told, new
<1>7. Sound(new)
  BY <1>3, <1>4, <1>5 DEF Sound, Local
<1>8. Passed(new) => Backed(new.cursor)
  <2> SUFFICES ASSUME Passed(new) PROVE Backed(c) BY <1>5
  <2>1. Passed(r)
    <3>1. \A i \in 1..(Len(s) - 1) : s[i + 1] # "candidate" BY <1>4, <1>5 DEF Passed
    <3>2. \A i \in 1..Len(s) : i = 1 \/ s[i] # "candidate"
      <4> SUFFICES ASSUME NEW i \in 1..Len(s), i # 1 PROVE s[i] # "candidate" OBVIOUS
      <4>1. i - 1 \in 1..(Len(s) - 1) /\ (i - 1) + 1 = i BY <1>4
      <4> QED BY <3>1, <4>1
    <3> QED BY <1>2, <1>4, <3>2, ShapeBasics DEF Passed
  <2> QED BY <1>2, <1>3, <2>1 DEF Truthful
<1>9. ASSUME Undisturbed(d)
      PROVE  /\ job.by # d /\ job.cursor = c
             /\ job.status = Expected(new) /\ job.attempt = new.repairs + 1
  <2>1. /\ job.by # d /\ job.cursor = c
        /\ job.status = Expected(r) /\ job.attempt = r.repairs + 1
    BY <1>1, <1>2, <1>3, <1>9, LiveFacts DEF Follows
  <2>2. Starts(new) = Starts(r)
    <3>1. s[2] = "start" <=> s[1] = "input" BY <1>2, <1>4, ShapeBasics DEF Shape
    <3>2. s[2] # "input" BY <1>2, <1>4, ShapeBasics DEF Shape
    <3> QED BY <1>2, <1>4, <1>5, <3>1, <3>2 DEF Starts
  <2>3. Repairs(new) = Repairs(r)
    <3>1. s[2] = "resume" => s[1] = "event" BY <1>2, <1>4, ShapeBasics DEF Shape
    <3>2. ~(Tail(s)[1] = "event" /\ Tail(s)[2] = "resume")
      <4> SUFFICES ASSUME Tail(s)[1] = "event" PROVE Tail(s)[2] # "resume" OBVIOUS
      <4>1. 2 \in DOMAIN Tail(s)
        <5> DEFINE t == Tail(s)
        <5>1. Shape(t) /\ t[1] # "callback" BY <1>4
        <5> HIDE DEF t
        <5>2. 2 \in DOMAIN t BY <5>1, ShapeBasics
        <5> QED BY <5>2 DEF t
      <4>2. Tail(s)[2] = s[3] /\ 3 \in DOMAIN s BY <1>2, <1>4, <4>1, ShapeBasics
      <4> QED BY <1>2, <4>2 DEF Shape
    <3> QED BY <1>2, <1>4, <1>5, <3>1, <3>2 DEF Repairs
  <2> QED BY <1>5, <2>1, <2>2, <2>3 DEF Expected
<1>10. GoesOn(d, new)
  BY <1>2, <1>3, <1>5, <1>6, <1>7, <1>8, <1>9 DEF GoesOn
<1> QED BY <1>1, <1>10, GoesOnKeeps

\* A callback is sent from the catch block.
LEMMA FailingKeeps ==
  ASSUME IInv, NEW d \in Live, ~run[d].aborted, NEW new \in Run,
         NEW v \in {"REJECTED", "FAILED"},
         new.todo = <<"callback">>, new.verdict = v, new.state = "live",
         ~new.asked, new.result = "none", ~new.aborted,
         new.doubt = run[d].doubt, run[d].stumbled => new.stumbled,
         new.told <= new.cursor, Shared \/ v = "REJECTED" => new.told = new.cursor,
         new.told # new.cursor => new.stale,
         new.cursor <= job.cursor,
         v = "REJECTED" => Exhausted(new.told),
         v = "FAILED" => new.stumbled \/ Explained(d),
         run[d].asked => run[d].result # "none",
         Undisturbed(d) => /\ job.by # d /\ job.cursor = new.cursor
                           /\ v = "REJECTED" => job.status = "RUNNING",
         run' = [run EXCEPT ![d] = new], UNCHANGED <<kind, job, posts, server, net>>
  PROVE  IInv'
<1>1. Sound(new) BY LastShape DEF Sound
<1>2. GoesOn(d, new) BY <1>1 DEF GoesOn
<1> QED BY <1>2, GoesOnKeeps

\* A request of an undisturbed run is not refused, except a stale failure.
LEMMA NotUndisturbed ==
  ASSUME IInv, NEW d \in Live, run[d].result \in {"refused", "error", "lost"}, Undisturbed(d)
  PROVE  /\ run[d].result = "refused" /\ MayBeStale(d) /\ run[d].verdict = "FAILED"
         /\ run[d].todo = <<"callback">>
<1>1. Sound(run[d]) /\ Follows(d) BY LiveFacts
<1> QED BY <1>1 DEF Sound, Follows, Undisturbed, MayBeStale

\* The record of a run that goes to the catch block.
Caughts(r, verdict) ==
  [Failing(r, verdict) EXCEPT !.asked = FALSE, !.result = "none", !.next = 0]

\* What the catch block makes of a run.
LEMMA FailingRecord ==
  ASSUME NEW r \in Run, NEW v \in {"REJECTED", "FAILED"}
  PROVE  LET new == Caughts(r, v) IN
         /\ new \in Run /\ new.todo = <<"callback">> /\ new.verdict = v
         /\ new.cursor = r.cursor /\ new.told = r.told /\ new.state = r.state
         /\ ~new.asked /\ new.result = "none"
         /\ new.doubt = r.doubt /\ new.stumbled = r.stumbled /\ new.aborted = r.aborted
         /\ new.stale = (r.told # r.cursor)
<1> DEFINE c == <<"callback">>
           a == [r EXCEPT !.todo = c, !.verdict = v, !.tries = 0,
                          !.stale = r.told # r.cursor]
<1>1. c \in Seq(Operations) BY DEF Operations
<1> HIDE DEF c
<1>2. a \in Run /\ a.todo = c /\ a.verdict = v
      /\ a.cursor = r.cursor /\ a.told = r.told /\ a.state = r.state
      /\ a.doubt = r.doubt /\ a.stumbled = r.stumbled /\ a.aborted = r.aborted
      /\ a.stale = (r.told # r.cursor)
  BY <1>1 DEF Run
<1>3. Caughts(r, v) = [a EXCEPT !.asked = FALSE, !.result = "none", !.next = 0]
  BY DEF Caughts, Failing, c
<1> HIDE DEF a
<1> DEFINE new == [a EXCEPT !.asked = FALSE, !.result = "none", !.next = 0]
<1>4. /\ new \in Run /\ new.todo = a.todo /\ new.verdict = a.verdict
      /\ new.cursor = a.cursor /\ new.told = a.told /\ new.state = a.state
      /\ ~new.asked /\ new.result = "none"
      /\ new.doubt = a.doubt /\ new.stumbled = a.stumbled /\ new.aborted = a.aborted
      /\ new.stale = a.stale
  BY <1>2 DEF Run, Results
<1>5. new.todo = <<"callback">> BY <1>2, <1>4 DEF c
<1> HIDE DEF new
<1>6. /\ new \in Run /\ new.todo = <<"callback">> /\ new.verdict = v
      /\ new.cursor = r.cursor /\ new.told = r.told /\ new.state = r.state
      /\ ~new.asked /\ new.result = "none"
      /\ new.doubt = r.doubt /\ new.stumbled = r.stumbled /\ new.aborted = r.aborted
      /\ new.stale = (r.told # r.cursor)
  BY <1>2, <1>4, <1>5
<1>7. new = Caughts(r, v) BY <1>3 DEF new
<1> QED BY <1>6, <1>7

\* After a verdict the run repairs, rejects, or goes on to its callback.
LEMMA JudgedKeeps ==
  ASSUME IInv, NEW d \in Try, Judged(d)
  PROVE  IInv'
<1> DEFINE r == run[d]
           s == r.todo
           told == [r EXCEPT !.cursor = r.next, !.told = r.next]
<1>1. d \in Live /\ ~r.aborted BY DEF Judged, Doing
<1>2. /\ r \in Run /\ r.state = "live" /\ Sound(r) /\ Truthful(d) /\ Shape(s)
      /\ s[1] = "candidate" /\ r.next \in Nat /\ r.repairs \in Nat
      /\ r.result \in {"repair", "rejected"}
      /\ r.doubt \in BOOLEAN /\ Head(s) = s[1]
  BY <1>1, LiveFacts DEF Judged, Doing
<1>t. /\ told \in Run /\ told.result = r.result /\ told.repairs = r.repairs
      /\ told.todo = s /\ told.cursor = r.next /\ told.told = r.next
      /\ told.state = "live" /\ told.verdict = r.verdict /\ told.aborted = r.aborted
      /\ told.doubt = r.doubt /\ told.stumbled = r.stumbled
  BY <1>2 DEF Run
<1>3. r.asked /\ r.verdict = "VERIFIED" /\ r.next <= job.cursor
  BY <1>2, LastShape DEF Sound, Truthful, Known
<1>4. Undisturbed(d) =>
        /\ job.by # d /\ job.cursor = r.next /\ job.status = Expected(r)
        /\ job.attempt = r.repairs + IF r.result = "repair" THEN 2 ELSE 1
  BY <1>1, <1>2, <1>3, LiveFacts DEF Follows, Known
<1>5. CASE r.result = "repair"
  <2> DEFINE new == [[told EXCEPT !.todo = RepairSteps \o Tail(s), !.repairs = r.repairs + 1]
                     EXCEPT !.asked = FALSE, !.result = "none", !.next = 0]
             t == RepairSteps \o Tail(s)
  <2>1. r.repairs < MaxRepairs
    BY <1>2, <1>5, RepairsSuffice, ConstantsOK DEF Sound
  <2>2. run' = [run EXCEPT ![d] = new] /\ UNCHANGED <<kind, job, posts, server, net>>
    <3> DEFINE ju == [run[d] EXCEPT !.cursor = run[d].next, !.told = run[d].next]
    <3>1. ju = told OBVIOUS
    <3> DEFINE after == [ju EXCEPT !.todo = RepairSteps \o Tail(@), !.repairs = @ + 1]
    <3>4. \/ ju.result = "repair" /\ ju.repairs < MaxRepairs /\ Goes(d, after)
          \/ ju.result = "rejected" \/ ju.repairs >= MaxRepairs
      BY DEF Judged
    <3>2. Goes(d, after)
      <4> HIDE DEF ju, told, after
      <4> QED BY <1>2, <1>5, <1>t, <2>1, <3>1, <3>4, ConstantsOK
    <3>3. [ju EXCEPT !.todo = RepairSteps \o Tail(@), !.repairs = @ + 1]
            = [told EXCEPT !.todo = RepairSteps \o Tail(s), !.repairs = r.repairs + 1]
      <4> HIDE DEF ju, told, s
      <4> QED BY <1>t, <3>1
    <3> HIDE DEF ju, told
    <3> QED BY <3>2, <3>3 DEF Goes
  <2>3. Shape(t) /\ t[1] = "event" /\ t[2] = "resume" /\ HasCandidate(t)
    BY <1>2, RepairShape
  <2>4. /\ new \in Run /\ new.todo = t /\ new.cursor = r.next /\ new.told = r.next
        /\ ~new.asked /\ new.result = "none" /\ new.state = "live"
        /\ new.verdict = "VERIFIED" /\ new.repairs = r.repairs + 1
        /\ new.doubt = r.doubt /\ new.stumbled = r.stumbled /\ ~new.aborted
    <3>1. t \in Seq(Operations) BY <2>3 DEF Shape
    <3> HIDE DEF t
    <3>2. new = [[told EXCEPT !.todo = t, !.repairs = r.repairs + 1]
                 EXCEPT !.asked = FALSE, !.result = "none", !.next = 0]
      BY DEF t
    <3> DEFINE a == [told EXCEPT !.todo = t, !.repairs = r.repairs + 1]
    <3> HIDE DEF new, s, told
    <3>5. /\ told \in Run /\ told.cursor = r.next /\ told.told = r.next
          /\ told.state = "live" /\ told.verdict = "VERIFIED"
          /\ told.doubt = r.doubt /\ told.stumbled = r.stumbled /\ ~told.aborted
          /\ r.repairs + 1 \in Nat
      BY <1>1, <1>2, <1>3, <1>t
    <3> HIDE DEF r
    <3>3. /\ a \in Run /\ a.todo = t /\ a.cursor = r.next /\ a.told = r.next
          /\ a.state = "live" /\ a.verdict = "VERIFIED" /\ a.repairs = r.repairs + 1
          /\ a.doubt = r.doubt /\ a.stumbled = r.stumbled /\ ~a.aborted
      BY <3>1, <3>5 DEF Run
    <3>4. new = [a EXCEPT !.asked = FALSE, !.result = "none", !.next = 0]
      BY <3>2
    <3> HIDE DEF a
    <3> QED BY <3>3, <3>4 DEF Run, Results
  <2> HIDE DEF new, t
  <2>5. Sound(new) BY <1>2, <2>3, <2>4 DEF Sound
  <2>6. ~Passed(new) BY <2>3, <2>4 DEF Passed, HasCandidate
  <2>7. Undisturbed(d) =>
          /\ job.by # d /\ job.cursor = new.cursor
          /\ job.status = Expected(new) /\ job.attempt = new.repairs + 1
    <3>1. Expected(r) = "REPAIRING" BY <1>2, <1>5 DEF Expected, Starts, Repairs
    <3>2. Expected(new) = "REPAIRING" BY <2>3, <2>4 DEF Expected, Starts, Repairs
    <3> QED BY <1>2, <1>4, <1>5, <2>4, <3>1, <3>2
  <2>8. GoesOn(d, new)
    BY <1>2, <1>3, <1>5, <2>2, <2>4, <2>5, <2>6, <2>7 DEF GoesOn
  <2> QED BY <1>1, <2>8, GoesOnKeeps
<1>6. CASE r.result = "rejected"
  <2> DEFINE new == Caughts(told, "REJECTED")
  <2>1. run' = [run EXCEPT ![d] = new] /\ UNCHANGED <<kind, job, posts, server, net>>
    <3>1. Goes(d, Failing(told, "REJECTED")) BY <1>6, <1>t DEF Judged
    <3> HIDE DEF told
    <3> QED BY <3>1 DEF Goes, Caughts
  <2>2. /\ new \in Run /\ new.todo = <<"callback">> /\ new.cursor = r.next
        /\ new.told = r.next /\ ~new.asked /\ new.result = "none" /\ new.state = "live"
        /\ new.verdict = "REJECTED"
        /\ new.doubt = r.doubt /\ new.stumbled = r.stumbled /\ ~new.aborted
    <3> HIDE DEF told
    <3> QED BY <1>1, <1>t, FailingRecord
  <2>3. Exhausted(r.next) BY <1>2, <1>6 DEF Truthful
  <2>4. Undisturbed(d) =>
          job.by # d /\ job.cursor = new.cursor /\ job.status = "RUNNING"
    BY <1>2, <1>4, <1>6, <2>2 DEF Expected, Starts, Repairs
  <2> HIDE DEF new
  <2>5. new.cursor <= job.cursor /\ new.told = new.cursor /\ new.told <= new.cursor
    BY <1>2, <1>3, <2>2
  <2>6. r.asked => r.result # "none" BY <1>2
  <2>7. Exhausted(new.told) BY <2>2, <2>3
  <2> QED BY <1>1, <2>1, <2>2, <2>4, <2>5, <2>6, <2>7, FailingKeeps
<1> QED BY <1>2, <1>5, <1>6

\* Nobody but the catch block knows of an answer that went wrong.
LEMMA CaughtKeeps ==
  ASSUME IInv, NEW d \in Try, Caught(d) \/ GiveUpVerified(d)
  PROVE  IInv'
<1> DEFINE r == run[d]
           new == Caughts(r, "FAILED")
<1>1. /\ d \in Live /\ ~r.aborted /\ r.result \in {"refused", "error", "lost"}
      /\ r.todo[1] # "callback" \/ r.verdict = "VERIFIED"
      /\ run' = [run EXCEPT ![d] = new] /\ UNCHANGED <<kind, job, posts, server, net>>
  <2>1. d \in Live BY DEF Caught, GiveUpVerified, Doing
  <2>2. Head(r.todo) = r.todo[1] BY <2>1, LiveFacts
  <2> QED BY <2>1, <2>2 DEF Caught, GiveUpVerified, Doing, Goes, Caughts
<1>2. /\ new \in Run /\ new.todo = <<"callback">> /\ new.cursor = r.cursor
      /\ new.told = r.told /\ ~new.asked /\ new.result = "none" /\ new.state = "live"
      /\ new.verdict = "FAILED" /\ new.stale = (r.told # r.cursor)
      /\ new.doubt = r.doubt /\ new.stumbled = r.stumbled /\ ~new.aborted
  BY <1>1, LiveFacts, FailingRecord
<1> HIDE DEF new
<1>3. ~Undisturbed(d)
  <2> SUFFICES ASSUME Undisturbed(d) PROVE FALSE OBVIOUS
  <2>1. r.verdict = "FAILED" /\ r.todo = <<"callback">> BY <1>1, NotUndisturbed
  <2> QED BY <1>1, <2>1
<1>4. Explained(d)
  BY <1>1, <1>3, LiveFacts DEF Undisturbed, Explained
<1>5. Sound(r) /\ Truthful(d) BY <1>1, LiveFacts
<1> QED BY <1>1, <1>2, <1>3, <1>4, <1>5, FailingKeeps DEF Sound, Truthful

\* A step of the run's own fails.
LEMMA StumbleKeeps ==
  ASSUME IInv, NEW d \in Try, Stumble(d)
  PROVE  IInv'
<1> DEFINE r == run[d]
           fell == [r EXCEPT !.stumbled = TRUE]
           new == Caughts(fell, "FAILED")
<1>1. /\ d \in Live /\ ~r.aborted /\ ~r.asked /\ r.todo[1] # "callback"
      /\ run' = [run EXCEPT ![d] = new] /\ UNCHANGED <<kind, job, posts, server, net>>
  <2>1. d \in Live BY DEF Stumble, Doing
  <2>2. Head(r.todo) = r.todo[1] BY <2>1, LiveFacts
  <2> QED BY <2>1, <2>2 DEF Stumble, Doing, Goes, Local, Caughts
<1>2. /\ new \in Run /\ new.todo = <<"callback">> /\ new.cursor = r.cursor
      /\ new.told = r.told /\ ~new.asked /\ new.result = "none" /\ new.state = "live"
      /\ new.verdict = "FAILED" /\ new.doubt = r.doubt /\ new.stumbled /\ ~new.aborted
      /\ new.stale = (r.told # r.cursor)
  <2>1. /\ fell \in Run /\ fell.cursor = r.cursor /\ fell.told = r.told /\ fell.state = "live"
        /\ fell.doubt = r.doubt /\ fell.stumbled /\ ~fell.aborted
    BY <1>1, LiveFacts DEF Run
  <2> HIDE DEF fell
  <2> QED BY <2>1, FailingRecord
<1> HIDE DEF new
<1>3. Sound(r) /\ Truthful(d) /\ r.result = "none" BY <1>1, LiveFacts DEF Sound
<1>4. Undisturbed(d) => job.by # d /\ job.cursor = r.cursor
  BY <1>1, <1>3, LiveFacts DEF Follows, Known
<1> QED BY <1>1, <1>2, <1>3, <1>4, FailingKeeps DEF Sound, Truthful

\* A callback is sent again as it was.
LEMMA ResendKeeps ==
  ASSUME IInv, NEW d \in Try, Resend(d)
  PROVE  IInv'
<1> DEFINE r == run[d]
           n == IF r.tries + 1 < CallbackTries THEN r.tries + 1 ELSE r.tries
           new == [[r EXCEPT !.tries = n]
                   EXCEPT !.asked = FALSE, !.result = "none", !.next = 0]
<1>1. /\ d \in Live /\ ~r.aborted /\ r.result \in {"refused", "error"}
      /\ r.todo = <<"callback">>
      /\ run' = [run EXCEPT ![d] = new] /\ UNCHANGED <<kind, job, posts, server, net>>
  <2>1. d \in Live BY DEF Resend, Doing
  <2>2. Head(r.todo) = r.todo[1] /\ Shape(r.todo) /\ r \in Run BY <2>1, LiveFacts
  <2>3. r.todo = <<"callback">> BY <2>1, <2>2, ShapeBasics DEF Resend, Doing
  <2> QED BY <2>1, <2>2, <2>3 DEF Resend, Doing, Goes, MayResend
<1>2. /\ new \in Run /\ new.todo = <<"callback">> /\ new.cursor = r.cursor
      /\ new.told = r.told /\ ~new.asked /\ new.result = "none" /\ new.state = "live"
      /\ new.verdict = r.verdict /\ new.stale = r.stale
      /\ new.doubt = r.doubt /\ new.stumbled = r.stumbled /\ ~new.aborted
  <2>1. n \in Nat BY <1>1, LiveFacts
  <2> HIDE DEF n
  <2> QED BY <1>1, <2>1, LiveFacts DEF Run, Results
<1> HIDE DEF new
<1>3. Sound(r) /\ Truthful(d) /\ r.asked BY <1>1, LiveFacts DEF Sound
<1>4. Sound(new) BY <1>2, <1>3, LastShape DEF Sound
<1>5. r.verdict = "VERIFIED" => Backed(r.cursor)
  <2>1. Passed(r) BY <1>1 DEF Passed
  <2>2. Known(r) = r.cursor BY <1>1 DEF Known
  <2> QED BY <1>3, <2>1, <2>2 DEF Truthful
<1>6. Undisturbed(d) => r.verdict = "FAILED" /\ job.by # d /\ job.cursor = r.cursor
  BY <1>1, NotUndisturbed, LiveFacts DEF Follows, Known
<1>7. GoesOn(d, new)
  BY <1>1, <1>2, <1>3, <1>4, <1>5, <1>6 DEF GoesOn, Truthful
<1> QED BY <1>1, <1>7, GoesOnKeeps

\* What a local operation finds: nothing asked, and the job where it should be.
LEMMA LocalFacts ==
  ASSUME IInv, NEW d \in Live, run[d].todo[1] \in Local
  PROVE  /\ ~run[d].asked /\ run[d].result = "none" /\ run[d].verdict = "VERIFIED"
         /\ run[d].todo[1] # "callback" /\ Known(run[d]) = run[d].cursor
         /\ run[d].cursor <= job.cursor /\ run[d].told <= run[d].cursor
         /\ Shared => run[d].told = run[d].cursor
         /\ ~HasCandidate(run[d].todo) => Backed(run[d].cursor)
         /\ Undisturbed(d) => /\ job.by # d /\ job.cursor = run[d].cursor
                              /\ job.status = "RUNNING"
                              /\ job.attempt = run[d].repairs + 1
<1> DEFINE r == run[d]
<1>1. Sound(r) /\ Truthful(d) /\ (Undisturbed(d) => Follows(d)) /\ r \in Run
      /\ r.verdict \in {"VERIFIED", "REJECTED", "FAILED"} /\ r.repairs \in Nat
  BY LiveFacts
<1>2. ~r.asked /\ r.todo[1] # "callback" BY <1>1 DEF Sound, Local
<1>3. r.result = "none" /\ r.verdict = "VERIFIED"
  BY <1>1, <1>2, LastShape DEF Sound
<1>4. Known(r) = r.cursor BY <1>3 DEF Known
<1>5. ~HasCandidate(r.todo) => Backed(r.cursor)
  BY <1>1, <1>3, <1>4 DEF Truthful, Passed, HasCandidate
<1>6. Expected(r) = "RUNNING"
  BY <1>3 DEF Expected, Starts, Repairs, Local
<1>7. Undisturbed(d) => /\ job.by # d /\ job.cursor = r.cursor
                        /\ job.status = "RUNNING" /\ job.attempt = r.repairs + 1
  BY <1>1, <1>3, <1>4, <1>6 DEF Follows
<1> QED BY <1>1, <1>2, <1>3, <1>4, <1>5, <1>7 DEF Truthful, Sound

\* The compiler yields one more event.
LEMMA YieldKeeps ==
  ASSUME IInv, NEW d \in Try, Yield(d)
  PROVE  IInv'
<1> DEFINE r == run[d]
           s == r.todo
           t == <<"stream">> \o s
           new == [[r EXCEPT !.todo = t]
                   EXCEPT !.asked = FALSE, !.result = "none", !.next = 0]
<1>1. /\ d \in Live /\ ~r.aborted /\ s[1] = "compile" /\ s[1] \in Local
      /\ run' = [run EXCEPT ![d] = new] /\ UNCHANGED <<kind, job, posts, server, net>>
  <2>1. d \in Live BY DEF Yield, Doing
  <2>2. Head(s) = s[1] BY <2>1, LiveFacts
  <2> QED BY <2>1, <2>2 DEF Yield, Doing, Goes, Local
<1>2. Shape(s) BY <1>1, LiveFacts
<1>3. Shape(t) /\ t[1] = "stream" /\ (HasCandidate(s) => HasCandidate(t))
  BY <1>1, <1>2, StreamShape
<1> HIDE DEF t
<1>4. /\ new \in Run /\ new.todo = t /\ new.cursor = r.cursor /\ new.told = r.told
      /\ ~new.asked /\ new.result = "none" /\ new.state = "live" /\ new.verdict = r.verdict
      /\ new.repairs = r.repairs
      /\ new.doubt = r.doubt /\ new.stumbled = r.stumbled /\ ~new.aborted
  <2>1. t \in Seq(Operations) BY <1>3 DEF Shape
  <2> HIDE DEF s
  <2> QED BY <1>1, <2>1, LiveFacts DEF Run, Results
<1> HIDE DEF new
<1>5. Sound(new) BY <1>1, <1>3, <1>4, LocalFacts DEF Sound
<1>6. Passed(new) => Backed(new.cursor)
  <2> SUFFICES ASSUME Passed(new) PROVE Backed(r.cursor) BY <1>4
  <2>1. ~HasCandidate(t) BY <1>4 DEF Passed, HasCandidate
  <2> QED BY <1>1, <1>3, <2>1, LocalFacts
<1>7. Expected(new) = "RUNNING" BY <1>3, <1>4 DEF Expected, Starts, Repairs
<1>8. GoesOn(d, new)
  BY <1>1, <1>4, <1>5, <1>6, <1>7, LocalFacts DEF GoesOn
<1> QED BY <1>1, <1>8, GoesOnKeeps

\* The compiler's stream ends.
LEMMA FinishKeeps ==
  ASSUME IInv, NEW d \in Try, Finish(d)
  PROVE  IInv'
<1> DEFINE r == run[d]
           s == r.todo
           t == Tail(s)
           new == [[r EXCEPT !.todo = t, !.told = r.cursor]
                   EXCEPT !.asked = FALSE, !.result = "none", !.next = 0]
<1>1. /\ d \in Live /\ ~r.aborted /\ s[1] \in Local
      /\ run' = [run EXCEPT ![d] = new] /\ UNCHANGED <<kind, job, posts, server, net>>
  <2>1. d \in Live BY DEF Finish, Doing
  <2>2. Head(s) = s[1] BY <2>1, LiveFacts
  <2> QED BY <2>1, <2>2 DEF Finish, Doing, Goes
<1>2. Shape(s) /\ s[1] # "callback" /\ s[1] # "event" /\ s[1] # "input" /\ s[1] # "candidate"
  BY <1>1, LiveFacts DEF Local
<1>3. /\ Shape(t) /\ DOMAIN t = 1..(Len(s) - 1) /\ DOMAIN s = 1..Len(s)
      /\ Len(s) \in Nat /\ Len(s) >= 2
      /\ \A i \in 1..(Len(s) - 1) : t[i] = s[i + 1]
  BY <1>2, ShapeTail, ShapeBasics
<1> HIDE DEF t
<1>4. /\ new \in Run /\ new.todo = t /\ new.cursor = r.cursor /\ new.told = r.cursor
      /\ ~new.asked /\ new.result = "none" /\ new.state = "live" /\ new.verdict = r.verdict
      /\ new.repairs = r.repairs
      /\ new.doubt = r.doubt /\ new.stumbled = r.stumbled /\ ~new.aborted
  <2>1. t \in Seq(Operations) BY <1>3 DEF Shape
  <2> HIDE DEF s
  <2> QED BY <1>1, <2>1, LiveFacts DEF Run, Results
<1> HIDE DEF new
<1>5. Sound(new)
  <2>1. r.cursor <= r.cursor BY <1>1, LiveFacts
  <2> QED BY <1>1, <1>3, <1>4, <2>1, LocalFacts DEF Sound
<1>6. Passed(new) => Backed(new.cursor)
  <2> SUFFICES ASSUME Passed(new) PROVE Backed(r.cursor) BY <1>4
  <2>1. \A i \in 1..(Len(s) - 1) : s[i + 1] # "candidate"
    BY <1>3, <1>4 DEF Passed
  <2>2. ASSUME NEW i \in 1..Len(s), i # 1 PROVE s[i] # "candidate"
    <3>1. i - 1 \in 1..(Len(s) - 1) /\ (i - 1) + 1 = i BY <1>3, <2>2
    <3> QED BY <2>1, <3>1
  <2>3. ~HasCandidate(s) BY <1>2, <1>3, <2>2 DEF HasCandidate
  <2> QED BY <1>1, <2>3, LocalFacts
<1>7. Expected(new) = "RUNNING"
  <2>1. t[1] = s[2] /\ 2 \in DOMAIN s BY <1>3
  <2>2. t[1] \notin {"input", "start", "resume"}
    BY <1>2, <2>1 DEF Shape
  <2>3. t[1] = "event" => t[2] # "resume"
    <3> SUFFICES ASSUME t[1] = "event" PROVE t[2] # "resume" OBVIOUS
    <3>1. 2 \in DOMAIN t BY <1>3, ShapeBasics
    <3>2. t[2] = s[3] /\ 3 \in DOMAIN s BY <1>3, <3>1
    <3> QED BY <1>2, <3>2 DEF Shape
  <2> QED BY <1>4, <2>2, <2>3 DEF Expected, Starts, Repairs
<1>8. GoesOn(d, new)
  BY <1>1, <1>4, <1>5, <1>6, <1>7, LocalFacts DEF GoesOn
<1> QED BY <1>1, <1>8, GoesOnKeeps

-----------------------------------------------------------------------------
(* The Worker's answers *)

\* What is needed of the status table.
LEMMA StatusFacts ==
  /\ Status = Active \cup Terminal /\ Active \cap Terminal = {}
  /\ \A s \in Terminal : Transitions[s] = {}
  /\ \A s \in Active \ {"QUEUED"} : "FAILED" \in Transitions[s]
  /\ "VERIFIED" \in Transitions["RUNNING"] /\ "REJECTED" \in Transitions["RUNNING"]
  /\ {"VERIFIED", "REJECTED", "FAILED", "CANCELLED"} \subseteq Terminal
  /\ {"STARTING", "RUNNING", "REPAIRING"} \subseteq Active \ {"QUEUED"}
BY DEF Transitions, Status, Active, Terminal

\* What happens to the job whatever is served.
Grows ==
  /\ job' \in Job /\ job'.attempt <= MaxAttempts /\ job'.status # "QUEUED"
  /\ job.cursor <= job'.cursor
  /\ job.status \in Terminal => job' = job
  /\ job'.cursor = job.cursor => job'.judged = job.judged /\ job'.attempt = job.attempt

\* The runs are where they were; an answer may have gone wrong.
RunsStay ==
  \A e \in Try :
    /\ run'[e].state = run[e].state /\ run'[e].stumbled = run[e].stumbled
    /\ run[e].doubt => run'[e].doubt

\* While the job only grows, what runs were told stays true.
LEMMA GrowsKeeps ==
  ASSUME IInv, Grows, RunsStay, kind' = kind
  PROVE  /\ Live' = Live
         /\ \A c \in Nat : c <= job.cursor =>
              /\ c <= job'.cursor
              /\ Backed(c) => Backed(c)'
              /\ Exhausted(c) => Exhausted(c)'
         /\ \A e \in Try : /\ FirstRun(e)' = FirstRun(e)
                           /\ Closed(e) => Closed(e)'
                           /\ Explained(e) => Explained(e)'
                           /\ Undisturbed(e)' => Undisturbed(e)
<1>1. job \in Job /\ job' \in Job /\ job.cursor \in Nat /\ job'.cursor \in Nat
  BY DEF IInv, TypeOK, Grows, Job
<1>2. Live' = Live BY DEF Live, RunsStay
<1>3. ASSUME NEW c \in Nat, c <= job.cursor
      PROVE  c <= job'.cursor /\ (Backed(c) => Backed(c)') /\ (Exhausted(c) => Exhausted(c)')
  <2>1. c <= job'.cursor BY <1>1, <1>3 DEF Grows
  <2>2. c < job.cursor => c < job'.cursor BY <1>1 DEF Grows
  <2>3. job'.cursor # job.cursor => c < job'.cursor BY <1>1, <1>3 DEF Grows
  <2> QED BY <2>1, <2>2, <2>3 DEF Grows, Backed, Exhausted
<1>4. ASSUME NEW e \in Try
      PROVE  /\ FirstRun(e)' = FirstRun(e)
             /\ Closed(e) => Closed(e)'
             /\ Explained(e) => Explained(e)'
             /\ Undisturbed(e)' => Undisturbed(e)
  <2>1. FirstRun(e)' = FirstRun(e) BY DEF FirstRun, RunsStay
  <2>2. Closed(e) => Closed(e)' BY DEF Closed, Grows
  <2> QED BY <2>1, <2>2 DEF Explained, Undisturbed, RunsStay
<1> QED BY <1>2, <1>3, <1>4

\* What the Worker makes of the request q is right.
Served(q, result, next) ==
  LET d == q.by IN
  /\ Grows /\ Answer(q, result, next)
  /\ result \in {"ok", "repair", "rejected", "refused", "error"} /\ next \in Nat
  /\ job'.by # job.by =>
       /\ q.op = "callback" /\ job.by = 0 /\ job'.by = d /\ job'.status = q.verdict
       /\ job'.cursor = q.cursor /\ job.cursor = q.cursor
  /\ q.awaited =>
       /\ result \in {"repair", "rejected"} => q.op = "candidate"
       /\ result = "repair" => run[d].repairs + 1 < MaxAttempts
       /\ result = "refused" => q.op # "input"
       /\ result = "ok" /\ q.op = "callback" => job'.status \in Terminal
       /\ Known(run[d])' <= job'.cursor
       /\ run[d].verdict = "VERIFIED" /\ Passed(run[d])' => Backed(Known(run[d]))'
       /\ result = "rejected" => Exhausted(run[d].next)'
       /\ Undisturbed(d) /\ result # "error" =>
            /\ job'.by = d => result = "ok" /\ q.op = "callback"
            /\ job'.by # d =>
                 /\ job'.by = 0 /\ job'.cursor = Known(run[d])'
                 /\ run[d].verdict = "VERIFIED" =>
                      /\ job'.status = Expected(run[d])'
                      /\ job'.attempt = run[d].repairs + IF result = "repair" THEN 2 ELSE 1
                 /\ run[d].verdict = "REJECTED" => job'.status = "RUNNING"
            /\ result = "refused" => MayBeStale(d) /\ run[d].verdict = "FAILED"

\* The run that waits for q.
LEMMA AwaitedFacts ==
  ASSUME IInv, NEW q \in net, q.awaited
  PROVE  /\ q.by \in Live /\ Matches(q, run[q.by])
         /\ run[q.by].asked /\ run[q.by].result = "none" /\ q.op = run[q.by].todo[1]
         /\ Known(run[q.by]) = run[q.by].cursor
         /\ \A p \in net : p.awaited => p = q
<1>1. q.by \in Try /\ Matches(q, run[q.by])
  BY DEF IInv, TypeOK, RequestsSound, Request
<1>2. q.by \in Live BY <1>1 DEF Matches, Live
<1>3. ASSUME NEW p \in net, p.awaited PROVE p = q
  <2>1. p.by \in Try /\ Matches(p, run[p.by])
    BY <1>3 DEF IInv, TypeOK, RequestsSound, Request
  <2>2. p.by \in Live BY <2>1 DEF Matches, Live
  <2>3. p.by = q.by BY <1>2, <2>2 DEF IInv, OneLive
  <2>4. /\ p.op = q.op /\ p.cursor = q.cursor /\ p.attempt = q.attempt
        /\ p.verdict = q.verdict /\ p.awaited = q.awaited
    <3>1. p.awaited = TRUE /\ q.awaited = TRUE
      BY <1>3 DEF IInv, TypeOK, Request
    <3> QED BY <1>1, <2>1, <2>3, <3>1 DEF Matches
  <2>5. p \in Request /\ q \in Request BY DEF IInv, TypeOK
  <2>6. \A x \in Request :
          x = [by |-> x.by, op |-> x.op, cursor |-> x.cursor, attempt |-> x.attempt,
               verdict |-> x.verdict, awaited |-> x.awaited]
    BY DEF Request
  <2> QED BY <2>3, <2>4, <2>5, <2>6
<1> QED BY <1>1, <1>2, <1>3 DEF Matches, Known

\* An answer reaches the run that waits for it and touches no other.
LEMMA AnswerFacts ==
  ASSUME IInv, NEW q \in net, NEW result \in Results, NEW next \in Nat,
         Answer(q, result, next)
  PROVE  /\ run' \in [Try -> Run] /\ RunsStay
         /\ ~q.awaited => run' = run
         /\ \A e \in Try \ {q.by} : run'[e] = run[e]
         /\ q.awaited =>
              LET r == run[q.by]
                  n == run'[q.by]
              IN /\ n.state = r.state /\ n.todo = r.todo /\ n.cursor = r.cursor
                 /\ n.told = r.told /\ n.repairs = r.repairs /\ n.verdict = r.verdict
                 /\ n.asked = r.asked /\ n.aborted = r.aborted
                 /\ n.stumbled = r.stumbled /\ n.stale = r.stale
                 /\ n.result = result /\ n.next = next
                 /\ n.doubt = (r.doubt \/ result = "error")
<1>1. run \in [Try -> Run] /\ q.by \in Try /\ run[q.by] \in Run
  BY DEF IInv, TypeOK, Request
<1>2. CASE ~q.awaited BY <1>1, <1>2 DEF Answer, RunsStay
<1>3. CASE q.awaited
  <2> DEFINE r == run[q.by]
             a == [r EXCEPT !.result = result, !.next = next]
             b == [a EXCEPT !.doubt = r.doubt \/ result = "error"]
  <2>1. /\ a \in Run /\ a.state = r.state /\ a.todo = r.todo /\ a.cursor = r.cursor
        /\ a.told = r.told /\ a.repairs = r.repairs /\ a.verdict = r.verdict
        /\ a.asked = r.asked /\ a.aborted = r.aborted
        /\ a.stumbled = r.stumbled /\ a.stale = r.stale
        /\ a.result = result /\ a.next = next
        /\ a.doubt = r.doubt
    BY <1>1 DEF Run
  <2>2. run' = [run EXCEPT ![q.by] = b]
    BY <1>1, <1>3 DEF Answer, Run
  <2> HIDE DEF a
  <2>3. /\ b \in Run /\ b.state = r.state /\ b.todo = r.todo /\ b.cursor = r.cursor
        /\ b.told = r.told /\ b.repairs = r.repairs /\ b.verdict = r.verdict
        /\ b.asked = r.asked /\ b.aborted = r.aborted
        /\ b.stumbled = r.stumbled /\ b.stale = r.stale
        /\ b.result = result /\ b.next = next
    BY <2>1 DEF Run
  <2>4. b.doubt = (r.doubt \/ result = "error")
    BY <2>1 DEF Run
  <2>5. r.doubt => b.doubt BY <2>4
  <2> HIDE DEF b
  <2>6. run' \in [Try -> Run] /\ run'[q.by] = b /\ \A e \in Try \ {q.by} : run'[e] = run[e]
    BY <1>1, <2>2, <2>3
  <2>7. RunsStay BY <1>1, <2>3, <2>5, <2>6 DEF RunsStay
  <2> QED BY <1>3, <2>3, <2>4, <2>6, <2>7
<1> QED BY <1>2, <1>3

\* A request that is served, and answered, keeps the invariant.
LEMMA ServeKeeps ==
  ASSUME IInv, NEW q \in net, NEW result, NEW next, Served(q, result, next)
  PROVE  IInv'
<1> DEFINE d == q.by
<1>1. /\ d \in Try /\ run[d].state # "none" /\ q \in Request
      /\ run \in [Try -> Run] /\ job \in Job /\ net \subseteq Request
      /\ job.cursor \in Nat /\ result \in Results /\ next \in Nat
      /\ q.op = "callback" => Warranted(q)
  BY DEF IInv, TypeOK, RequestsSound, Request, Served, Results, Job
<1>2. /\ Grows /\ Answer(q, result, next) /\ net' = net \ {q}
      /\ kind' = kind /\ posts' = posts /\ server' = server
  BY DEF Served, Answer
<1>3. /\ run' \in [Try -> Run] /\ RunsStay
      /\ ~q.awaited => run' = run
      /\ \A e \in Try \ {d} : run'[e] = run[e]
  BY <1>1, <1>2, AnswerFacts
<1>4. q.awaited =>
        LET r == run[d]
            n == run'[d]
        IN /\ n.state = r.state /\ n.todo = r.todo /\ n.cursor = r.cursor
           /\ n.told = r.told /\ n.repairs = r.repairs /\ n.verdict = r.verdict
           /\ n.asked = r.asked /\ n.aborted = r.aborted
           /\ n.stumbled = r.stumbled /\ n.stale = r.stale
                 /\ n.result = result /\ n.next = next
           /\ n.doubt = (r.doubt \/ result = "error")
  BY <1>1, <1>2, AnswerFacts
<1>5. /\ Live' = Live
      /\ \A c \in Nat : c <= job.cursor =>
           /\ c <= job'.cursor
           /\ Backed(c) => Backed(c)'
           /\ Exhausted(c) => Exhausted(c)'
      /\ \A e \in Try : /\ FirstRun(e)' = FirstRun(e)
                        /\ Closed(e) => Closed(e)'
                        /\ Explained(e) => Explained(e)'
                        /\ Undisturbed(e)' => Undisturbed(e)
  BY <1>2, <1>3, GrowsKeeps
<1>6. job.status \in Terminal => job'.status \in Terminal /\ job' = job
  BY <1>2 DEF Grows
<1>7. \A e \in Try : run[e].state = "live" =>
        /\ Sound(run[e]) /\ Truthful(e) /\ run[e].cursor \in Nat /\ run[e].told \in Nat
        /\ run[e].next \in Nat /\ Known(run[e]) \in Nat
  BY <1>1 DEF IInv, RunsSound, Run, Known, Cursor
<1>8. q.awaited => /\ d \in Live /\ run[d].state = "live" /\ run[d].asked
                   /\ q.op = run[d].todo[1] /\ run[d].result = "none"
                   /\ Known(run[d]) = run[d].cursor
                   /\ \A p \in net : p.awaited => p = q
  BY AwaitedFacts DEF Live
<1>9. TypeOK'
  BY <1>1, <1>2, <1>3 DEF IInv, TypeOK, Grows
<1>10. RunsSound'
  <2>1. ASSUME NEW e \in Try, run[e].state = "live", run'[e] = run[e]
        PROVE  Sound(run[e])' /\ Truthful(e)'
    <3>1. Sound(run[e])' BY <1>2, <1>7, <2>1 DEF Sound, Shared
    <3>2. Truthful(e)
      BY <1>7, <2>1
    <3>3. Known(run[e])' = Known(run[e]) BY <2>1 DEF Known, Cursor
    <3>4. Passed(run[e])' = Passed(run[e]) BY <2>1 DEF Passed
    <3>5. /\ run[e].cursor <= job.cursor /\ Known(run[e]) <= job.cursor
          /\ run[e].told <= job.cursor
          /\ run[e].result = "rejected" => run[e].next <= job.cursor
      <4>1. run[e].cursor <= job.cursor /\ Known(run[e]) <= job.cursor
        BY <3>2 DEF Truthful
      <4>2. run[e].told <= run[e].cursor BY <1>7, <2>1 DEF Sound
      <4>3. run[e].result = "rejected" => run[e].next <= job.cursor
        BY <4>1 DEF Known
      <4> QED BY <1>1, <1>7, <2>1, <4>1, <4>2, <4>3
    <3> DEFINE r == run[e]
               k == Known(run[e])
    <3>6. r.verdict = "VERIFIED" /\ Passed(r) => Backed(k)'
      BY <1>5, <1>7, <2>1, <3>2, <3>5 DEF Truthful
    <3>7. /\ r.result = "rejected" => Exhausted(r.next)'
          /\ r.verdict = "REJECTED" => Exhausted(r.told)'
      BY <1>5, <1>7, <2>1, <3>2, <3>5 DEF Truthful
    <3>8. run'[e].cursor <= job'.cursor /\ Known(run[e])' <= job'.cursor
      BY <1>5, <1>7, <2>1, <3>3, <3>5
    <3>9. (run[e].verdict = "VERIFIED" /\ Passed(run[e]) => Backed(Known(run[e])))'
      BY <2>1, <3>4, <3>6
    <3>10. (/\ run[e].result = "rejected" => Exhausted(run[e].next)
            /\ run[e].verdict = "REJECTED" => Exhausted(run[e].told))'
      BY <2>1, <3>7
    <3>11. (run[e].verdict = "FAILED" => Explained(e))'
      BY <1>5, <2>1, <3>2 DEF Truthful
    <3>12. (run[e].aborted \/ (run[e].result = "ok" /\ run[e].todo[1] = "callback")
              => job.status \in Terminal)'
      BY <1>6, <2>1, <3>2 DEF Truthful
    <3> HIDE DEF r, k
    <3> QED BY <3>1, <3>8, <3>9, <3>10, <3>11, <3>12 DEF Truthful
  <2>2. ASSUME q.awaited PROVE Sound(run[d])'
    <3>1. Sound(run[d]) BY <1>1, <1>7, <1>8, <2>2
    <3>2. /\ result \in {"error", "lost"} => result = "error"
          /\ result \in {"repair", "rejected"} => q.op = "candidate"
          /\ result = "repair" => run[d].repairs + 1 < MaxAttempts
          /\ result = "refused" => q.op # "input"
      BY <2>2 DEF Served
    <3>3. /\ result \in {"error", "lost"} => run'[d].doubt
          /\ result \in {"repair", "rejected"} => run'[d].todo[1] = "candidate"
          /\ result = "repair" => run'[d].repairs + 1 < MaxAttempts
          /\ result = "refused" => run'[d].todo[1] # "input"
      BY <1>4, <1>8, <2>2, <3>2
    <3>4. Shape(run'[d].todo) BY <1>4, <2>2, <3>1 DEF Sound
    <3> QED BY <1>2, <1>4, <1>8, <2>2, <3>1, <3>3, <3>4 DEF Sound, Shared
  <2>3. ASSUME q.awaited PROVE Truthful(d)'
    <3>1. Truthful(d) /\ run[d].cursor \in Nat /\ run[d].told \in Nat
      BY <1>1, <1>7, <1>8, <2>3
    <3>2. run[d].cursor <= job.cursor /\ run[d].told <= job.cursor
      <4>1. run[d].told <= run[d].cursor BY <1>1, <1>7, <1>8, <2>3 DEF Sound
      <4> QED BY <1>1, <3>1, <4>1 DEF Truthful
    <3>3. run'[d].cursor <= job'.cursor /\ Known(run[d])' <= job'.cursor
      BY <1>4, <1>5, <2>3, <3>1, <3>2 DEF Served
    <3>4. (run[d].verdict = "VERIFIED" /\ Passed(run[d]) => Backed(Known(run[d])))'
      BY <1>4, <2>3 DEF Served
    <3>5. (run[d].result = "rejected" => Exhausted(run[d].next))'
      BY <1>4, <2>3 DEF Served
    <3>6. (run[d].verdict = "REJECTED" => Exhausted(run[d].told))'
      <4> SUFFICES ASSUME run'[d].verdict = "REJECTED" PROVE Exhausted(run[d].told)'
        OBVIOUS
      <4>1. Exhausted(run[d].told) BY <1>4, <2>3, <3>1 DEF Truthful
      <4>2. run'[d].told = run[d].told BY <1>4, <2>3
      <4> QED BY <1>5, <3>1, <3>2, <4>1, <4>2
    <3>7. (run[d].verdict = "FAILED" => Explained(d))'
      BY <1>1, <1>4, <1>5, <2>3, <3>1 DEF Truthful
    <3>8. (run[d].aborted \/ (run[d].result = "ok" /\ run[d].todo[1] = "callback")
             => job.status \in Terminal)'
      BY <1>4, <1>6, <1>8, <2>3, <3>1 DEF Truthful, Served
    <3> QED BY <3>3, <3>4, <3>5, <3>6, <3>7, <3>8 DEF Truthful
  <2>4. ASSUME NEW e \in Try
        PROVE  /\ run'[e].state = "live" => Sound(run[e])' /\ Truthful(e)'
               /\ run'[e].state # "live" => ~run'[e].asked /\ run'[e].result = "none"
    <3>1. CASE q.awaited /\ e = d BY <1>3, <1>8, <2>2, <2>3, <3>1 DEF RunsStay
    <3>2. CASE ~(q.awaited /\ e = d)
      <4>1. run'[e] = run[e] BY <1>3, <3>2
      <4> QED BY <2>1, <4>1 DEF IInv, RunsSound
    <3> QED BY <3>1, <3>2
  <2> QED BY <2>4 DEF RunsSound
<1>11. PostsSound' /\ OneLive' /\ Untouched'
  <2>1. PostsSound' BY <1>2, <1>3 DEF IInv, PostsSound, RunsStay
  <2>2. OneLive' BY <1>5 DEF IInv, OneLive
  <2>3. Untouched' BY <1>1, <1>3 DEF Untouched, RunsStay
  <2> QED BY <2>1, <2>2, <2>3
<1>12. \/ job'.by = job.by
       \/ /\ q.op = "callback" /\ job.by = 0 /\ job'.by = d
          /\ job'.status = q.verdict /\ job'.status \in Terminal
          /\ job'.cursor = q.cursor /\ job.cursor = q.cursor
  <2>1. \/ job'.by = job.by
        \/ /\ q.op = "callback" /\ job.by = 0 /\ job'.by = d
           /\ job'.status = q.verdict
           /\ job'.cursor = q.cursor /\ job.cursor = q.cursor
    BY DEF Served
  <2>2. q.verdict \in Terminal BY <1>1, StatusFacts DEF Request
  <2> QED BY <2>1, <2>2
<1>13. JobSound'
  <2>1. job.by # 0 => job.by \in Try BY <1>1 DEF Job, Try
  <2> QED BY <1>1, <1>2, <1>3, <1>6, <1>12, <2>1 DEF IInv, JobSound, Grows, RunsStay
<1>14. RequestsSound'
  <2> SUFFICES ASSUME NEW p \in net, p # q
               PROVE  /\ run'[p.by].state # "none"
                      /\ p.awaited => Matches(p, run[p.by])'
                      /\ p.op = "callback" => Warranted(p)'
    BY <1>2 DEF RequestsSound
  <2>1. /\ p.by \in Try /\ p.cursor \in Nat /\ run[p.by].state # "none"
        /\ p.awaited => Matches(p, run[p.by])
        /\ p.op = "callback" => Warranted(p)
    BY DEF IInv, RequestsSound, TypeOK, Request
  <2>2. p.awaited => Matches(p, run[p.by])'
    <3> SUFFICES ASSUME p.awaited PROVE Matches(p, run[p.by])' OBVIOUS
    <3>1. ~q.awaited BY <1>8
    <3> QED BY <1>3, <2>1, <3>1 DEF Matches
  <2>3. p.op = "callback" => Warranted(p)'
    BY <1>5, <2>1 DEF Warranted
  <2> QED BY <1>3, <2>1, <2>2, <2>3 DEF RunsStay
<1>15. Parallel'
  <2> SUFFICES ASSUME NEW e \in Try, Undisturbed(e)' PROVE Follows(e)'
    BY DEF Parallel
  <2>1. Undisturbed(e) /\ Follows(e) BY <1>5 DEF IInv, Parallel
  <2>2. e = d /\ q.awaited BY <2>1 DEF Follows
  <2>3. result # "error" BY <1>4, <2>2 DEF Undisturbed
  <2>4. /\ \A p \in net' : p.by = d /\ p.awaited
        /\ job'.by = d => run'[d].result = "ok" /\ run'[d].todo[1] = "callback"
    BY <1>2, <1>4, <1>8, <2>1, <2>2, <2>3 DEF Follows, Served
  <2>5. job'.by # d =>
          /\ job'.by = 0 /\ job'.cursor = Known(run[d])'
          /\ run'[d].verdict = "VERIFIED" =>
               /\ job'.status = Expected(run[d])'
               /\ job'.attempt = run'[d].repairs
                                   + IF run'[d].result = "repair" THEN 2 ELSE 1
          /\ run'[d].verdict = "REJECTED" => job'.status = "RUNNING"
    BY <1>4, <2>1, <2>2, <2>3 DEF Served
  <2>6. run'[d].result = "refused" => MayBeStale(d)' /\ run'[d].verdict = "FAILED"
    BY <1>2, <1>4, <2>1, <2>2, <2>3 DEF Served, MayBeStale, Shared
  <2> QED BY <2>2, <2>4, <2>5, <2>6 DEF Follows
<1>16. AnsweredRunSettles'
  <2> SUFFICES ASSUME NEW e \in Try,
                      (run[e].state = "done" /\ ~run[e].doubt /\ FirstRun(e)
                         /\ ~MayBeStale(e))'
               PROVE  job'.status \in Terminal
    BY DEF AnsweredRunSettles
  <2>1. run[e].state = "done" /\ ~run[e].doubt /\ FirstRun(e)
    BY <1>3, <1>5 DEF RunsStay
  <2>2. run'[e] = run[e] BY <1>3, <1>8, <2>1
  <2>3. ~MayBeStale(e) BY <1>2, <2>2 DEF MayBeStale, Shared
  <2> QED BY <1>6, <2>1, <2>3 DEF IInv, AnsweredRunSettles
<1>17. OutcomeIsEarned'
  <2>1. CASE job.by # 0
    <3>1. job' = job /\ job.by \in Try
      BY <1>1, <1>6, <2>1 DEF IInv, JobSound, Job, Try
    <3> QED BY <1>2, <1>3, <1>5, <2>1, <3>1
         DEF IInv, OutcomeIsEarned, RunsStay
  <2>2. CASE job.by = 0 /\ job'.by # 0
    <3>1. /\ q.op = "callback" /\ job'.by = d /\ job'.status = q.verdict
          /\ job'.cursor = q.cursor /\ job.cursor = q.cursor
      BY <1>12, <2>2
    <3>2. job'.judged = job.judged /\ job'.attempt = job.attempt
      BY <1>2, <3>1 DEF Grows
    <3>3. ~(q.cursor < job.cursor) BY <1>1, <3>1
    <3>4. /\ q.verdict = "VERIFIED" => kind = "run" \/ job.judged = "verified"
          /\ q.verdict = "REJECTED" => job.judged = "rejected" /\ job.attempt = MaxAttempts
          /\ q.verdict = "FAILED" => Explained(d)
      BY <1>1, <3>1, <3>3 DEF Warranted, Backed, Exhausted
    <3>5. ~Closed(d)' BY <3>1 DEF Closed
    <3>6. q.verdict = "FAILED" => run'[d].stumbled \/ run'[d].doubt \/ ~FirstRun(d)'
      BY <1>1, <1>3, <1>5, <3>4, <3>5 DEF Explained, RunsStay
    <3> QED BY <1>2, <3>1, <3>2, <3>4, <3>6 DEF OutcomeIsEarned
  <2> QED BY <2>1, <2>2 DEF OutcomeIsEarned
<1> QED BY <1>9, <1>10, <1>11, <1>13, <1>14, <1>15, <1>16, <1>17 DEF IInv

\* What a run that waits knows, and what its answer makes of it.
LEMMA WaitFacts ==
  ASSUME IInv, NEW q \in net, NEW result \in Results, NEW next \in Nat,
         Answer(q, result, next), q.awaited
  PROVE  LET r == run[q.by] IN
         /\ q.by \in Live /\ q.op \in Operations \ Local /\ q.verdict = r.verdict
         /\ q.attempt = r.repairs + 1
         /\ q.cursor = IF q.op \in Events THEN r.cursor + 1
                       ELSE IF r.verdict = "VERIFIED" THEN r.cursor ELSE r.told
         /\ r.cursor \in Nat /\ r.repairs \in Nat /\ r.cursor <= job.cursor
         /\ run'[q.by].next = next
         /\ r.verdict # "VERIFIED" => q.op = "callback"
         /\ Shared \/ r.verdict = "REJECTED" => r.told = r.cursor
         /\ r.verdict = "FAILED" /\ r.told # r.cursor => r.stale
         /\ Known(run[q.by])' = IF result = "ok"
                                THEN IF q.op \in Events THEN r.cursor + 1
                                     ELSE IF q.op = "candidate" THEN next ELSE r.cursor
                                ELSE IF result \in {"repair", "rejected"} THEN next
                                ELSE r.cursor
         /\ r.verdict = "VERIFIED" /\ Passed(run[q.by])' =>
              Backed(r.cursor) \/ (q.op = "candidate" /\ result = "ok")
         /\ Expected(r) = IF q.op \in {"input", "start"} THEN "STARTING"
                          ELSE IF q.op = "resume" \/ (q.op = "event" /\ r.todo[2] = "resume")
                          THEN "REPAIRING" ELSE "RUNNING"
         /\ Expected(run[q.by])' =
              IF result = "repair" /\ q.op = "candidate" THEN "REPAIRING"
              ELSE IF result = "ok" /\ q.op \in {"start", "resume"} THEN "RUNNING"
              ELSE IF result \in {"ok", "rejected", "refused", "error"} THEN Expected(r)
              ELSE Expected(run[q.by])'
         /\ Undisturbed(q.by) =>
              /\ job.by = 0 /\ job.status \notin Terminal /\ job.cursor = r.cursor
              /\ r.verdict = "VERIFIED" =>
                   job.status = Expected(r) /\ job.attempt = r.repairs + 1
              /\ r.verdict = "REJECTED" => job.status = "RUNNING"
<1> DEFINE d == q.by
           r == run[d]
           n == run'[d]
<1>1. /\ d \in Live /\ d \in Try /\ Matches(q, r) /\ r.asked /\ r.result = "none"
      /\ q.op = r.todo[1] /\ Known(r) = r.cursor
  BY AwaitedFacts DEF Live
<1>2. /\ q.op \in Operations \ Local /\ r.cursor \in Nat /\ r.repairs \in Nat
      /\ Sound(r) /\ Truthful(d) /\ (Undisturbed(d) => Follows(d))
      /\ r.verdict \in {"VERIFIED", "REJECTED", "FAILED"} /\ r.state = "live"
  BY <1>1, LiveFacts DEF IInv, TypeOK, Request
<1>3. /\ n.todo = r.todo /\ n.cursor = r.cursor /\ n.result = result /\ n.next = next
  BY AnswerFacts
<1> HIDE DEF d, r, n
<1>4. /\ q.verdict = r.verdict /\ q.attempt = r.repairs + 1
      /\ q.cursor = IF q.op \in Events THEN r.cursor + 1
                    ELSE IF r.verdict = "VERIFIED" THEN r.cursor ELSE r.told
  BY <1>1 DEF Matches
<1>5. r.cursor <= job.cursor BY <1>2 DEF Truthful, r
<1>6. r.verdict # "VERIFIED" => q.op = "callback"
  BY <1>1, <1>2, LastShape DEF Sound
<1>7. /\ Shared \/ r.verdict = "REJECTED" => r.told = r.cursor
      /\ r.verdict = "FAILED" /\ r.told # r.cursor => r.stale
  BY <1>2 DEF Sound
<1>8. Known(n) = IF result = "ok"
                 THEN IF q.op \in Events THEN r.cursor + 1
                      ELSE IF q.op = "candidate" THEN next ELSE r.cursor
                 ELSE IF result \in {"repair", "rejected"} THEN next ELSE r.cursor
  <2>1. Head(n.todo) = q.op
    BY <1>1, <1>2, <1>3, ShapeBasics DEF Sound
  <2> QED BY <1>1, <1>3, <2>1 DEF Known, Cursor
<1>9. r.verdict = "VERIFIED" /\ Passed(n) =>
        Backed(r.cursor) \/ (q.op = "candidate" /\ result = "ok")
  <2> SUFFICES ASSUME r.verdict = "VERIFIED", Passed(n),
                      ~(q.op = "candidate" /\ result = "ok")
               PROVE  Backed(r.cursor)
    OBVIOUS
  <2>1. Passed(r) BY <1>1, <1>3 DEF Passed
  <2> QED BY <1>1, <1>2, <2>1 DEF Truthful, r
<1>10. Expected(r) = IF q.op \in {"input", "start"} THEN "STARTING"
                     ELSE IF q.op = "resume" \/ (q.op = "event" /\ r.todo[2] = "resume")
                     THEN "REPAIRING" ELSE "RUNNING"
  BY <1>1 DEF Expected, Starts, Repairs
<1>11. Expected(n) =
         IF result = "repair" /\ q.op = "candidate" THEN "REPAIRING"
         ELSE IF result = "ok" /\ q.op \in {"start", "resume"} THEN "RUNNING"
         ELSE IF result \in {"ok", "rejected", "refused", "error"} THEN Expected(r)
         ELSE Expected(n)
  <2>1. CASE result = "repair" /\ q.op = "candidate"
    BY <1>1, <1>3, <2>1 DEF Expected, Starts, Repairs
  <2>2. CASE result = "ok" /\ q.op \in {"start", "resume"}
    BY <1>1, <1>3, <2>2 DEF Expected, Starts, Repairs
  <2>3. CASE /\ result \in {"ok", "rejected", "refused", "error"}
             /\ ~(result = "ok" /\ q.op \in {"start", "resume"})
    <3>1. Starts(n) = Starts(r) BY <1>1, <1>3, <2>3 DEF Starts
    <3>2. Repairs(n) = Repairs(r) BY <1>1, <1>3, <2>3 DEF Repairs
    <3>3. Expected(n) = Expected(r) BY <3>1, <3>2 DEF Expected
    <3> QED BY <2>3, <3>3
  <2> QED BY <2>1, <2>2, <2>3
<1>12. Undisturbed(d) =>
         /\ job.by = 0 /\ job.status \notin Terminal /\ job.cursor = r.cursor
         /\ r.verdict = "VERIFIED" =>
              job.status = Expected(r) /\ job.attempt = r.repairs + 1
         /\ r.verdict = "REJECTED" => job.status = "RUNNING"
  <2> SUFFICES ASSUME Undisturbed(d)
               PROVE  /\ job.by = 0 /\ job.status \notin Terminal /\ job.cursor = r.cursor
                      /\ r.verdict = "VERIFIED" =>
                           job.status = Expected(r) /\ job.attempt = r.repairs + 1
                      /\ r.verdict = "REJECTED" => job.status = "RUNNING"
    OBVIOUS
  <2>1. Follows(d) BY <1>2
  <2>2. job.by # d BY <1>1, <2>1 DEF Follows, r
  <2>3. job.status \notin Terminal BY <2>2 DEF Undisturbed, Closed
  <2> QED BY <1>1, <2>1, <2>2, <2>3 DEF Follows, r
<1>13. Expected(run[d])' = Expected(n) /\ Passed(run[d])' = Passed(n)
       /\ Known(run[d])' = Known(n)
  BY DEF Expected, Starts, Repairs, Passed, Known, Cursor, n, d
<1> QED BY <1>1, <1>2, <1>3, <1>4, <1>5, <1>6, <1>7, <1>8, <1>9, <1>10, <1>11, <1>12, <1>13
     DEF d, r, n

\* The types behind a request that is served.
LEMMA NetFacts ==
  ASSUME IInv, NEW q \in net
  PROVE  /\ job \in Job /\ job.cursor \in Nat /\ job.attempt \in Nat
         /\ job.attempt <= MaxAttempts /\ job.status \in Status \ {"QUEUED"}
         /\ job.by \in 0..Dispatches /\ (job.by # 0 => job.status \in Terminal)
         /\ q \in Request /\ q.by \in Try /\ q.by # 0 /\ q.cursor \in Nat
         /\ q.attempt \in Nat /\ q.op \in Operations \ Local
         /\ q.verdict \in {"VERIFIED", "REJECTED", "FAILED"}
         /\ MaxAttempts \in Nat
BY ConstantsOK DEF IInv, TypeOK, JobSound, Job, Request, Try

\* Inputs and outputs leave the job as it is.
LEMMA ServeObjectKeeps ==
  ASSUME IInv, NEW q \in net, ServeObject(q)
  PROVE  IInv'
<1>1. /\ q.op \in {"input", "source", "upload"} /\ job' = job /\ Answer(q, "ok", 0)
      /\ "ok" \in Results /\ 0 \in Nat
  BY DEF ServeObject, Results
<1>2. Grows BY <1>1, NetFacts DEF Grows
<1>3. ASSUME q.awaited
      PROVE  LET d == q.by IN
             /\ Known(run[d])' <= job'.cursor
             /\ run[d].verdict = "VERIFIED" /\ Passed(run[d])' => Backed(Known(run[d]))'
             /\ Undisturbed(d) =>
                  /\ job'.by = 0 /\ job'.cursor = Known(run[d])'
                  /\ job'.status = Expected(run[d])'
                  /\ job'.attempt = run[d].repairs + 1
                  /\ run[d].verdict # "REJECTED"
  <2> DEFINE d == q.by
             r == run[d]
  <2>1. /\ r.verdict = "VERIFIED" /\ Known(run[d])' = r.cursor
        /\ r.cursor <= job.cursor /\ Expected(run[d])' = Expected(r)
        /\ Passed(run[d])' => Backed(r.cursor)
        /\ Undisturbed(d) => /\ job.by = 0 /\ job.cursor = r.cursor
                             /\ job.status = Expected(r) /\ job.attempt = r.repairs + 1
    BY <1>1, <1>3, WaitFacts DEF Events
  <2>2. kind' = kind BY <1>1 DEF Answer
  <2>3. Backed(r.cursor) /\ Known(run[d])' = r.cursor => Backed(Known(run[d]))'
    BY <1>1, <2>2 DEF Backed
  <2> QED BY <1>1, <2>1, <2>3
<1>4. q.by # 0 BY NetFacts
<1>5. Served(q, "ok", 0) BY <1>1, <1>2, <1>3, <1>4 DEF Served
<1> QED BY <1>5, ServeKeeps

\* A start, or a repeated one.
LEMMA ServeStartKeeps ==
  ASSUME IInv, NEW q \in net, ServeStart(q)
  PROVE  IInv'
<1>1. /\ q.op = "start" /\ job.status \in Active \ {"QUEUED"} /\ Answer(q, "ok", 0)
      /\ job' = [job EXCEPT !.status = IF @ = "STARTING" THEN "RUNNING" ELSE @]
      /\ "ok" \in Results /\ 0 \in Nat
  BY DEF ServeStart, Accepts, Results, Events
<1>2. /\ job' \in Job /\ job'.cursor = job.cursor /\ job'.attempt = job.attempt
      /\ job'.judged = job.judged /\ job'.by = job.by
      /\ job'.status = IF job.status = "STARTING" THEN "RUNNING" ELSE job.status
  BY <1>1, NetFacts, StatusFacts DEF Job
<1>3. Grows BY <1>1, <1>2, NetFacts, StatusFacts DEF Grows
<1>4. ASSUME q.awaited
      PROVE  LET d == q.by IN
             /\ Known(run[d])' <= job'.cursor
             /\ run[d].verdict = "VERIFIED" /\ Passed(run[d])' => Backed(Known(run[d]))'
             /\ Undisturbed(d) =>
                  /\ job'.by = 0 /\ job'.cursor = Known(run[d])'
                  /\ job'.status = Expected(run[d])'
                  /\ job'.attempt = run[d].repairs + 1
                  /\ run[d].verdict # "REJECTED"
  <2> DEFINE d == q.by
             r == run[d]
  <2>1. /\ r.verdict = "VERIFIED" /\ Known(run[d])' = r.cursor
        /\ r.cursor <= job.cursor
        /\ Expected(run[d])' = "RUNNING" /\ Expected(r) = "STARTING"
        /\ Passed(run[d])' => Backed(r.cursor)
        /\ Undisturbed(d) => /\ job.by = 0 /\ job.cursor = r.cursor
                             /\ job.status = Expected(r) /\ job.attempt = r.repairs + 1
    BY <1>1, <1>4, WaitFacts DEF Events
  <2>2. kind' = kind BY <1>1 DEF Answer
  <2>3. Backed(r.cursor) /\ Known(run[d])' = r.cursor => Backed(Known(run[d]))'
    BY <1>2, <2>2 DEF Backed
  <2> QED BY <1>2, <2>1, <2>3
<1>5. q.by # 0 BY NetFacts
<1>6. Served(q, "ok", 0) BY <1>1, <1>2, <1>3, <1>4, <1>5 DEF Served
<1> QED BY <1>6, ServeKeeps

\* A resume opens the next attempt's turn.
LEMMA ServeResumeKeeps ==
  ASSUME IInv, NEW q \in net, ServeResume(q)
  PROVE  IInv'
<1>1. /\ q.op = "resume" /\ job.status = "REPAIRING" /\ Answer(q, "ok", 0)
      /\ job' = [job EXCEPT !.status = "RUNNING"]
      /\ "ok" \in Results /\ 0 \in Nat
  BY DEF ServeResume, Accepts, Results, Events
<1>2. /\ job' \in Job /\ job'.cursor = job.cursor /\ job'.attempt = job.attempt
      /\ job'.judged = job.judged /\ job'.by = job.by /\ job'.status = "RUNNING"
  BY <1>1, NetFacts, StatusFacts DEF Job
<1>3. Grows BY <1>1, <1>2, NetFacts, StatusFacts DEF Grows
<1>4. ASSUME q.awaited
      PROVE  LET d == q.by IN
             /\ Known(run[d])' <= job'.cursor
             /\ run[d].verdict = "VERIFIED" /\ Passed(run[d])' => Backed(Known(run[d]))'
             /\ Undisturbed(d) =>
                  /\ job'.by = 0 /\ job'.cursor = Known(run[d])'
                  /\ job'.status = Expected(run[d])'
                  /\ job'.attempt = run[d].repairs + 1
                  /\ run[d].verdict # "REJECTED"
  <2> DEFINE d == q.by
             r == run[d]
  <2>1. /\ r.verdict = "VERIFIED" /\ Known(run[d])' = r.cursor
        /\ r.cursor <= job.cursor /\ Expected(run[d])' = "RUNNING"
        /\ Passed(run[d])' => Backed(r.cursor)
        /\ Undisturbed(d) => /\ job.by = 0 /\ job.cursor = r.cursor
                             /\ job.attempt = r.repairs + 1
    BY <1>1, <1>4, WaitFacts DEF Events
  <2>2. kind' = kind BY <1>1 DEF Answer
  <2>3. Backed(r.cursor) /\ Known(run[d])' = r.cursor => Backed(Known(run[d]))'
    BY <1>2, <2>2 DEF Backed
  <2> QED BY <1>2, <2>1, <2>3
<1>5. q.by # 0 BY NetFacts
<1>6. Served(q, "ok", 0) BY <1>1, <1>2, <1>3, <1>4, <1>5 DEF Served
<1> QED BY <1>6, ServeKeeps

\* An event advances the job's cursor.
LEMMA ServeEventKeeps ==
  ASSUME IInv, NEW q \in net, ServeEvent(q)
  PROVE  IInv'
<1>1. /\ q.op \in Events /\ Running /\ q.cursor = job.cursor + 1 /\ Answer(q, "ok", 0)
      /\ job' = [job EXCEPT !.cursor = @ + 1]
      /\ "ok" \in Results /\ 0 \in Nat
  BY DEF ServeEvent, Accepts, Results, Events
<1>2. /\ job' \in Job /\ job'.cursor = job.cursor + 1 /\ job'.attempt = job.attempt
      /\ job'.judged = job.judged /\ job'.by = job.by /\ job'.status = job.status
  BY <1>1, NetFacts DEF Job
<1>3. job.status \notin Terminal BY <1>1, StatusFacts DEF Running
<1>4. job.cursor <= job'.cursor /\ job'.cursor # job.cursor BY <1>2, NetFacts
<1>5. Grows BY <1>2, <1>3, <1>4, NetFacts DEF Grows
<1>6. ASSUME q.awaited
      PROVE  LET d == q.by IN
             /\ Known(run[d])' <= job'.cursor
             /\ run[d].verdict = "VERIFIED" /\ Passed(run[d])' => Backed(Known(run[d]))'
             /\ Undisturbed(d) =>
                  /\ job'.by = 0 /\ job'.cursor = Known(run[d])'
                  /\ job'.status = Expected(run[d])'
                  /\ job'.attempt = run[d].repairs + 1
                  /\ run[d].verdict # "REJECTED"
  <2> DEFINE d == q.by
             r == run[d]
  <2>1. /\ r.verdict = "VERIFIED" /\ Known(run[d])' = r.cursor + 1
        /\ r.cursor \in Nat /\ q.cursor = r.cursor + 1
        /\ Expected(run[d])' = Expected(r)
        /\ Passed(run[d])' => Backed(r.cursor)
        /\ Undisturbed(d) => /\ job.by = 0 /\ job.cursor = r.cursor
                             /\ job.status = Expected(r) /\ job.attempt = r.repairs + 1
    BY <1>1, <1>6, WaitFacts DEF Events
  <2>2. kind' = kind BY <1>1 DEF Answer
  <2>3. job.cursor = r.cursor BY <1>1, <2>1, NetFacts
  <2>4. ~(r.cursor < job.cursor) BY <2>1, <2>3
  <2>5. Backed(r.cursor) => Backed(Known(run[d]))'
    BY <1>2, <2>2, <2>4 DEF Backed
  <2>6. Known(run[d])' <= job'.cursor /\ job'.cursor = Known(run[d])'
    BY <1>2, <2>1, <2>3
  <2> QED BY <1>2, <2>1, <2>5, <2>6
<1>7. q.by # 0 BY NetFacts
<1>8. q.op # "callback" /\ q.op # "candidate" BY <1>1 DEF Events
<1>9. Served(q, "ok", 0) BY <1>1, <1>2, <1>5, <1>6, <1>7, <1>8 DEF Served
<1> QED BY <1>9, ServeKeeps

\* A candidate is verified, sent back for repair, or rejected for good.
LEMMA ServeCandidateKeeps ==
  ASSUME IInv, NEW q \in net, ServeCandidate(q)
  PROVE  IInv'
<1>1. q.op = "candidate" /\ job.status = "RUNNING" /\ q.attempt = job.attempt
  BY DEF ServeCandidate, Accepts, Events
<1>2. job.status \notin Terminal /\ q.by # 0 BY <1>1, StatusFacts, NetFacts
<1>3. ASSUME job' = [job EXCEPT !.cursor = @ + 1, !.judged = "verified"],
             Answer(q, "ok", job'.cursor)
      PROVE  IInv'
  <2>1. /\ job' \in Job /\ job'.cursor = job.cursor + 1 /\ job'.attempt = job.attempt
        /\ job'.judged = "verified" /\ job'.by = job.by /\ job'.status = "RUNNING"
    <3> DEFINE c == job.cursor + 1
    <3>1. c \in Nat BY NetFacts
    <3>2. job' = [job EXCEPT !.cursor = c, !.judged = "verified"] BY <1>3
    <3> HIDE DEF c
    <3>3. /\ job' \in Job /\ job'.cursor = c /\ job'.attempt = job.attempt
          /\ job'.judged = "verified" /\ job'.by = job.by /\ job'.status = job.status
      BY <3>1, <3>2, NetFacts DEF Job
    <3> QED BY <1>1, <3>3 DEF c
  <2>2. /\ job.cursor <= job'.cursor /\ job'.cursor # job.cursor /\ job'.cursor \in Nat
        /\ "ok" \in Results
    BY <2>1, NetFacts DEF Results
  <2>3. Grows BY <1>2, <2>1, <2>2, NetFacts DEF Grows
  <2>4. ASSUME q.awaited
        PROVE  LET d == q.by IN
               /\ Known(run[d])' = job'.cursor /\ Backed(Known(run[d]))'
               /\ Undisturbed(d) =>
                    /\ job'.by = 0 /\ job'.status = Expected(run[d])'
                    /\ job'.attempt = run[d].repairs + 1
                    /\ run[d].verdict # "REJECTED"
    <3> DEFINE d == q.by
    <3>1. /\ run[d].verdict = "VERIFIED" /\ Known(run[d])' = job'.cursor
          /\ Expected(run[d])' = "RUNNING"
          /\ Undisturbed(d) => job.by = 0 /\ job.attempt = run[d].repairs + 1
      BY <1>1, <1>3, <2>2, <2>4, WaitFacts DEF Events
    <3>2. Backed(Known(run[d]))' BY <2>1 DEF Backed
    <3> QED BY <2>1, <3>1, <3>2
  <2>5. job'.cursor <= job'.cursor BY <2>2
  <2>6. Served(q, "ok", job'.cursor)
    BY <1>1, <1>2, <1>3, <2>1, <2>2, <2>3, <2>4, <2>5 DEF Served
  <2> QED BY <2>6, ServeKeeps
<1>4. ASSUME NEW n \in 1..MaxRejections, NEW result, NEW again \in BOOLEAN,
             again = (job.attempt < MaxAttempts),
             result = IF again THEN "repair" ELSE "rejected",
             job' = [job EXCEPT !.cursor = @ + n, !.judged = "rejected",
                                !.status = IF again THEN "REPAIRING" ELSE @,
                                !.attempt = IF again THEN @ + 1 ELSE @],
             Answer(q, result, job'.cursor)
      PROVE  IInv'
  <2>0. (again => job.attempt < MaxAttempts) /\ (~again => ~(job.attempt < MaxAttempts))
    BY <1>4
  <2>1. n \in Nat /\ n >= 1 BY <1>4, ConstantsOK
  <2>2. /\ job' \in Job /\ job'.cursor = job.cursor + n
        /\ job'.attempt = IF again THEN job.attempt + 1 ELSE job.attempt
        /\ job'.judged = "rejected" /\ job'.by = job.by
        /\ job'.status = IF again THEN "REPAIRING" ELSE "RUNNING"
    <3> DEFINE c == job.cursor + n
               s == IF again THEN "REPAIRING" ELSE job.status
               a == IF again THEN job.attempt + 1 ELSE job.attempt
    <3>1. c \in Nat /\ s \in Status /\ a \in Nat
      BY <2>1, NetFacts, StatusFacts
    <3>2. job' = [job EXCEPT !.cursor = c, !.judged = "rejected", !.status = s, !.attempt = a]
      BY <1>4
    <3>3. s = IF again THEN "REPAIRING" ELSE "RUNNING" BY <1>1
    <3> HIDE DEF c, s, a
    <3>4. /\ job' \in Job /\ job'.cursor = c /\ job'.attempt = a
          /\ job'.judged = "rejected" /\ job'.by = job.by /\ job'.status = s
      BY <3>1, <3>2, NetFacts DEF Job
    <3> QED BY <3>3, <3>4 DEF c, a
  <2>3. /\ job.cursor <= job'.cursor /\ job'.cursor # job.cursor /\ job'.cursor \in Nat
        /\ job'.attempt <= MaxAttempts /\ job'.status # "QUEUED"
    BY <2>0, <2>1, <2>2, NetFacts
  <2>4. Grows BY <1>2, <2>2, <2>3 DEF Grows
  <2>5. result \in Results /\ result \in {"repair", "rejected"}
        /\ (result = "repair" <=> again)
    BY <1>4 DEF Results
  <2>6. job'.attempt = MaxAttempts \/ again
    BY <2>0, <2>2, NetFacts
  <2>7. ASSUME q.awaited
        PROVE  LET d == q.by IN
               /\ Known(run[d])' = job'.cursor /\ run[d].verdict = "VERIFIED"
               /\ result = "repair" => run[d].repairs + 1 < MaxAttempts
               /\ ~Passed(run[d])'
               /\ result = "rejected" => Exhausted(run[d].next)'
               /\ Undisturbed(d) =>
                    /\ job'.by = 0 /\ job'.status = Expected(run[d])'
                    /\ job'.attempt = run[d].repairs + IF result = "repair" THEN 2 ELSE 1
    <3> DEFINE d == q.by
    <3>1. /\ run[d].verdict = "VERIFIED" /\ Known(run[d])' = job'.cursor
          /\ Expected(run[d])' = IF again THEN "REPAIRING" ELSE "RUNNING"
          /\ q.attempt = run[d].repairs + 1 /\ run[d].repairs \in Nat
          /\ Undisturbed(d) => job.by = 0
      BY <1>1, <1>4, <2>3, <2>5, <2>7, WaitFacts DEF Events
    <3>2. again => job.attempt < MaxAttempts BY <1>4
    <3>3. result = "repair" => run[d].repairs + 1 < MaxAttempts
      BY <1>1, <2>5, <3>1, <3>2
    <3>4. result = "rejected" => Exhausted(run[d].next)'
      BY <2>2, <2>5, <2>6 DEF Exhausted
    <3>5. ~Passed(run[d])'
      <4>1. /\ run'[d].todo = run[d].todo /\ run'[d].result = result
            /\ run[d].todo[1] = "candidate" /\ d \in Live
        BY <1>1, <1>4, <2>3, <2>5, <2>7, AnswerFacts, AwaitedFacts
      <4>2. 1 \in DOMAIN run[d].todo BY <4>1, LiveFacts, ShapeBasics
      <4> QED BY <2>5, <4>1, <4>2 DEF Passed
    <3>6. job'.attempt = run[d].repairs + IF result = "repair" THEN 2 ELSE 1
      BY <1>1, <2>2, <2>5, <3>1
    <3> QED BY <2>2, <3>1, <3>3, <3>4, <3>5, <3>6
  <2>8. job'.cursor <= job'.cursor BY <2>3
  <2>9. Served(q, result, job'.cursor)
    BY <1>1, <1>2, <1>4, <2>2, <2>3, <2>4, <2>5, <2>7, <2>8 DEF Served
  <2> QED BY <2>9, ServeKeeps
<1>5. \/ /\ job' = [job EXCEPT !.cursor = @ + 1, !.judged = "verified"]
         /\ Answer(q, "ok", job'.cursor)
      \/ \E n \in 1..MaxRejections :
           LET again == job.attempt < MaxAttempts IN
           /\ job' = [job EXCEPT !.cursor = @ + n, !.judged = "rejected",
                                 !.status = IF again THEN "REPAIRING" ELSE @,
                                 !.attempt = IF again THEN @ + 1 ELSE @]
           /\ Answer(q, IF again THEN "repair" ELSE "rejected", job'.cursor)
  BY DEF ServeCandidate
<1>6. (job.attempt < MaxAttempts) \in BOOLEAN OBVIOUS
<1> QED BY <1>3, <1>4, <1>5, <1>6

\* A callback settles the job, or repeats the one that did.
LEMMA ServeCallbackKeeps ==
  ASSUME IInv, NEW q \in net, ServeCallback(q)
  PROVE  IInv'
<1>1. /\ q.op = "callback" /\ Answer(q, "ok", 0)
      /\ job' = [job EXCEPT !.status = q.verdict, !.by = q.by]
      /\ OnRecord(q) \/ (q.verdict \in Transitions[job.status] /\ q.cursor = job.cursor)
      /\ "ok" \in Results /\ 0 \in Nat
  BY DEF ServeCallback, Accepts, Results, Events
<1>2. q.verdict \in Terminal /\ q.verdict \in Status /\ q.verdict # "QUEUED"
  BY NetFacts, StatusFacts
<1>3. /\ job' \in Job /\ job'.cursor = job.cursor /\ job'.attempt = job.attempt
      /\ job'.judged = job.judged /\ job'.by = q.by /\ job'.status = q.verdict
  <2>1. q.by \in 0..Dispatches BY NetFacts, ConstantsOK DEF Try
  <2> QED BY <1>1, <1>2, <2>1, NetFacts DEF Job
<1>4. job.status \in Terminal => OnRecord(q)
  BY <1>1, StatusFacts
<1>5. OnRecord(q) => job' = job
  <2> SUFFICES ASSUME OnRecord(q) PROVE job' = job OBVIOUS
  <2>1. job.by = q.by /\ job.status = q.verdict BY DEF OnRecord
  <2> QED BY <1>1, <2>1, NetFacts DEF Job
<1>6. Grows BY <1>2, <1>3, <1>4, <1>5, NetFacts DEF Grows
<1>7. job'.by # job.by => job.by = 0 /\ q.cursor = job.cursor
  BY <1>1, <1>4, <1>5, NetFacts
<1>8. ASSUME q.awaited
      PROVE  LET d == q.by IN
             /\ Known(run[d])' <= job'.cursor
             /\ run[d].verdict = "VERIFIED" /\ Passed(run[d])' => Backed(Known(run[d]))'
  <2> DEFINE d == q.by
             r == run[d]
  <2>1. /\ Known(run[d])' = r.cursor /\ r.cursor <= job.cursor
        /\ r.verdict = "VERIFIED" /\ Passed(run[d])' => Backed(r.cursor)
    BY <1>1, <1>8, WaitFacts DEF Events
  <2>2. kind' = kind BY <1>1 DEF Answer
  <2>3. Backed(r.cursor) /\ Known(run[d])' = r.cursor => Backed(Known(run[d]))'
    BY <1>3, <2>2 DEF Backed
  <2> QED BY <1>3, <2>1, <2>3
<1>9. Served(q, "ok", 0) BY <1>1, <1>2, <1>3, <1>6, <1>7, <1>8 DEF Served
<1> QED BY <1>9, ServeKeeps

\* A refused request changes nothing, and a run that nobody disturbed and whose
\* failure is not stale has none refused.
LEMMA NotRefused ==
  ASSUME IInv, NEW q \in net, q.awaited, Undisturbed(q.by), ~Accepts(q),
         Answer(q, "refused", 0)
  PROVE  MayBeStale(q.by) /\ run[q.by].verdict = "FAILED"
<1> DEFINE d == q.by
           r == run[d]
<1>1. /\ q.op \in Operations \ Local /\ q.verdict = r.verdict
      /\ q.attempt = r.repairs + 1
      /\ q.cursor = IF q.op \in Events THEN r.cursor + 1
                    ELSE IF r.verdict = "VERIFIED" THEN r.cursor ELSE r.told
      /\ r.verdict # "VERIFIED" => q.op = "callback"
      /\ Shared \/ r.verdict = "REJECTED" => r.told = r.cursor
      /\ r.verdict = "FAILED" /\ r.told # r.cursor => r.stale
      /\ Expected(r) = IF q.op \in {"input", "start"} THEN "STARTING"
                       ELSE IF q.op = "resume" \/ (q.op = "event" /\ r.todo[2] = "resume")
                       THEN "REPAIRING" ELSE "RUNNING"
      /\ job.by = 0 /\ job.status \notin Terminal /\ job.cursor = r.cursor
      /\ r.verdict = "VERIFIED" =>
           job.status = Expected(r) /\ job.attempt = r.repairs + 1
      /\ r.verdict = "REJECTED" => job.status = "RUNNING"
  <2>1. "refused" \in Results /\ 0 \in Nat BY DEF Results
  <2> QED BY <2>1, WaitFacts
<1>2. job.status \in Active \ {"QUEUED"} /\ q.verdict \in {"VERIFIED", "REJECTED", "FAILED"}
  BY <1>1, NetFacts, StatusFacts
<1> HIDE DEF r
<1>3. q.op = "callback"
  <2> SUFFICES ASSUME q.op # "callback" PROVE FALSE OBVIOUS
  <2>1. /\ job.status = Expected(r) /\ job.attempt = q.attempt
        /\ q.op \in Events => q.cursor = job.cursor + 1
    BY <1>1
  <2>2. CASE q.op \in {"input", "source"} BY <2>2 DEF Accepts, Events
  <2>3. CASE q.op = "start" BY <1>2, <2>3 DEF Accepts, Events
  <2>4. CASE q.op \in Events
    BY <1>1, <2>1, <2>4 DEF Accepts, Events, Running
  <2>5. CASE q.op = "upload" BY <1>1, <2>1, <2>5 DEF Accepts, Events, Running
  <2>6. CASE q.op = "candidate" BY <1>1, <2>1, <2>6 DEF Accepts, Events
  <2>7. CASE q.op = "resume" BY <1>1, <2>1, <2>7 DEF Accepts, Events
  <2> QED BY <1>1, <2>2, <2>3, <2>4, <2>5, <2>6, <2>7 DEF Operations, Local, Events
<1>4. ~(q.verdict \in Transitions[job.status] /\ q.cursor = job.cursor)
  BY <1>3 DEF Accepts, Events
<1>5. q.cursor = IF r.verdict = "VERIFIED" THEN r.cursor ELSE r.told
  BY <1>1, <1>3 DEF Events
<1>6. r.verdict \in {"VERIFIED", "REJECTED"} => job.status = "RUNNING" /\ q.cursor = job.cursor
  BY <1>1, <1>3, <1>5
<1>7. r.verdict = "FAILED" BY <1>1, <1>2, <1>4, <1>6, StatusFacts
<1>8. ~Shared /\ r.told # r.cursor BY <1>1, <1>2, <1>4, <1>5, <1>7, StatusFacts
<1> QED BY <1>1, <1>7, <1>8 DEF MayBeStale, r

\* A request is refused or ends in an error.
LEMMA RefuseKeeps ==
  ASSUME IInv, NEW q \in net, Refuse(q) \/ ServeError(q)
  PROVE  IInv'
<1>1. PICK result \in {"refused", "error"} :
        /\ Answer(q, result, 0) /\ job' = job
        /\ result = "refused" => ~Accepts(q)
  BY DEF Refuse, ServeError
<1>2. Grows BY <1>1, NetFacts DEF Grows
<1>3. result = "refused" => q.op # "input"
  BY <1>1 DEF Accepts, Events
<1>4. ASSUME q.awaited
      PROVE  LET d == q.by IN
             /\ Known(run[d])' <= job'.cursor
             /\ run[d].verdict = "VERIFIED" /\ Passed(run[d])' => Backed(Known(run[d]))'
             /\ Undisturbed(d) =>
                  /\ job'.by = 0 /\ job'.cursor = Known(run[d])'
                  /\ run[d].verdict = "VERIFIED" =>
                       /\ job'.status = Expected(run[d])'
                       /\ job'.attempt = run[d].repairs + 1
                  /\ run[d].verdict = "REJECTED" => job'.status = "RUNNING"
                  /\ result = "refused" => MayBeStale(d) /\ run[d].verdict = "FAILED"
  <2> DEFINE d == q.by
             r == run[d]
  <2>1. /\ Known(run[d])' = r.cursor
        /\ r.cursor <= job.cursor /\ Expected(run[d])' = Expected(r)
        /\ r.verdict = "VERIFIED" /\ Passed(run[d])' => Backed(r.cursor)
        /\ Undisturbed(d) =>
             /\ job.by = 0 /\ job.cursor = r.cursor
             /\ r.verdict = "VERIFIED" =>
                  job.status = Expected(r) /\ job.attempt = r.repairs + 1
             /\ r.verdict = "REJECTED" => job.status = "RUNNING"
    <3>1. result \in Results /\ 0 \in Nat BY DEF Results
    <3> QED BY <1>1, <1>4, <3>1, WaitFacts DEF Events
  <2>2. kind' = kind BY <1>1 DEF Answer
  <2>3. Backed(r.cursor) /\ Known(run[d])' = r.cursor => Backed(Known(run[d]))'
    BY <1>1, <2>2 DEF Backed
  <2>4. Undisturbed(d) /\ result = "refused" => MayBeStale(d) /\ r.verdict = "FAILED"
    BY <1>1, <1>4, NotRefused
  <2> QED BY <1>1, <2>1, <2>3, <2>4
<1>5. q.by # 0 BY NetFacts
<1>6. Served(q, result, 0) BY <1>1, <1>2, <1>3, <1>4, <1>5 DEF Served
<1> QED BY <1>6, ServeKeeps

-----------------------------------------------------------------------------
(* Runs that end, and answers that do not come *)

\* A request that is still there was there, and is awaited by no run of ds.
LEMMA AbandonFacts ==
  ASSUME IInv, NEW ds, Abandon(ds)
  PROVE  /\ net' \subseteq Request
         /\ \A p \in net' :
              /\ p.awaited => p \in net /\ p.by \notin ds
              /\ \E q \in net : /\ p.by = q.by /\ p.op = q.op /\ p.cursor = q.cursor
                                /\ p.verdict = q.verdict
<1> SUFFICES ASSUME NEW p \in net'
             PROVE  /\ p \in Request
                    /\ p.awaited => p \in net /\ p.by \notin ds
                    /\ \E q \in net : /\ p.by = q.by /\ p.op = q.op /\ p.cursor = q.cursor
                                      /\ p.verdict = q.verdict
  OBVIOUS
<1> DEFINE waiting == {q \in net : q.awaited /\ q.by \in ds}
           new == {[q EXCEPT !.awaited = FALSE] : q \in waiting}
<1>1. p \in (net \ waiting) \/ p \in new
  <2> DEFINE late == {q \in net : ~q.awaited}
  <2>1. net' = (net \ waiting)
                 \cup IF Cardinality(late \cup new) <= MaxLate THEN new ELSE {}
    BY DEF Abandon
  <2> HIDE DEF late, new, waiting
  <2> QED BY <2>1
<1>2. CASE p \in net \ waiting
  BY <1>2 DEF IInv, TypeOK
<1>3. CASE p \in new
  <2>1. PICK q \in waiting : p = [q EXCEPT !.awaited = FALSE] BY <1>3
  <2>2. q \in net /\ q \in Request BY <2>1 DEF IInv, TypeOK
  <2>3. /\ p \in Request /\ ~p.awaited /\ p.by = q.by /\ p.op = q.op
        /\ p.cursor = q.cursor /\ p.verdict = q.verdict
    BY <2>1, <2>2 DEF Request
  <2> QED BY <2>2, <2>3
<1> QED BY <1>1, <1>2, <1>3

\* What is left of a run that is over.
LEMMA EndedFacts ==
  ASSUME NEW r \in Run, NEW state \in {"done", "killed"}
  PROVE  LET n == Ended(r, state) IN
         /\ n \in Run /\ n.state = state /\ n.verdict = r.verdict /\ n.doubt = r.doubt
         /\ n.stumbled = r.stumbled /\ n.stale = r.stale
         /\ ~n.asked /\ n.result = "none"
<1> DEFINE n == Ended(r, state)
<1>1. NoRun \in Run
  <2>1. <<>> \in Seq(Operations) OBVIOUS
  <2> QED BY <2>1 DEF NoRun, Run, Results
<1>2. NoRun.asked = FALSE /\ NoRun.result = "none" BY DEF NoRun
<1>3. n = [NoRun EXCEPT !.state = state, !.verdict = r.verdict,
                        !.stumbled = r.stumbled, !.stale = r.stale, !.doubt = r.doubt]
  BY DEF Ended
<1>4. /\ n \in Run /\ n.state = state /\ n.verdict = r.verdict /\ n.doubt = r.doubt
      /\ n.stumbled = r.stumbled /\ n.stale = r.stale
      /\ n.asked = NoRun.asked /\ n.result = NoRun.result
  <2> HIDE DEF n
  <2> QED BY <1>1, <1>3 DEF Run
<1> QED BY <1>2, <1>4

\* Every live run ends.
LEMMA AllOverKeeps ==
  ASSUME IInv, NEW state \in {"done", "killed"}, NEW ds, Live \subseteq ds, Abandon(ds),
         run' = [e \in Try |-> IF e \in Live THEN Ended(run[e], state) ELSE run[e]],
         job' = job, kind' = kind, server' \in {"up", "closing", "down"},
         posts' \in [Try -> {"unsent", "arrived", "over"}],
         \A e \in Try : posts[e] = "over" => posts'[e] = "over",
         state = "done" => \A d \in Live : /\ Undisturbed(d) /\ ~MayBeStale(d)
                                          => job.status \in Terminal
  PROVE  IInv'
<1>1. run \in [Try -> Run] /\ job \in Job /\ net \subseteq Request /\ Live \subseteq Try
  BY DEF IInv, TypeOK, Live
<1>2. ASSUME NEW e \in Try
      PROVE  /\ run'[e] \in Run
             /\ e \in Live => /\ run'[e].state = state /\ ~run'[e].asked
                              /\ run'[e].result = "none"
             /\ e \notin Live => run'[e] = run[e]
             /\ run'[e].verdict = run[e].verdict /\ run'[e].doubt = run[e].doubt
             /\ run'[e].stumbled = run[e].stumbled /\ run'[e].stale = run[e].stale
  BY <1>1, EndedFacts
<1>3. \A e \in Try : /\ run'[e].state # "live"
                     /\ run'[e].state = "none" <=> run[e].state = "none"
  BY <1>2 DEF Live
<1>4. \A e \in Try : /\ FirstRun(e)' => FirstRun(e)
                     /\ Closed(e)' = Closed(e)
                     /\ Explained(e) => Explained(e)'
                     /\ MayBeStale(e)' = MayBeStale(e)
  <2>1. ASSUME NEW e \in Try PROVE FirstRun(e)' => FirstRun(e)
    BY <1>3 DEF FirstRun
  <2>2. ASSUME NEW e \in Try PROVE Closed(e)' = Closed(e) BY DEF Closed
  <2>3. ASSUME NEW e \in Try PROVE MayBeStale(e)' = MayBeStale(e)
    BY <1>2 DEF MayBeStale, Shared
  <2>4. ASSUME NEW e \in Try PROVE Explained(e) => Explained(e)'
    BY <1>2, <2>1, <2>2 DEF Explained
  <2> QED BY <2>1, <2>2, <2>3, <2>4
<1>5. TypeOK'
  <2>1. run' \in [Try -> Run] BY <1>2
  <2> QED BY <2>1, AbandonFacts DEF IInv, TypeOK
<1>6. RunsSound'
  BY <1>2, <1>3 DEF IInv, RunsSound, Live
<1>7. PostsSound' /\ OneLive' /\ JobSound'
  <2>1. PostsSound' BY <1>3 DEF IInv, PostsSound
  <2>2. OneLive' BY <1>3 DEF OneLive, Live
  <2>3. job.by # 0 => job.by \in Try BY <1>1 DEF Job, Try
  <2>4. JobSound' BY <1>3, <2>3 DEF IInv, JobSound
  <2> QED BY <2>1, <2>2, <2>4
<1>8. RequestsSound'
  <2> SUFFICES ASSUME NEW p \in net'
               PROVE  /\ run'[p.by].state # "none" /\ ~p.awaited
                      /\ p.op = "callback" => Warranted(p)'
    BY DEF RequestsSound
  <2>1. PICK q \in net : /\ p.by = q.by /\ p.op = q.op /\ p.cursor = q.cursor
                         /\ p.verdict = q.verdict
    BY AbandonFacts
  <2>2. /\ q.by \in Try /\ run[q.by].state # "none"
        /\ q.op = "callback" => Warranted(q)
    BY DEF IInv, RequestsSound, TypeOK, Request
  <2>3. ~p.awaited
    <3> SUFFICES ASSUME p.awaited PROVE FALSE OBVIOUS
    <3>1. p \in net /\ p.by \notin ds BY AbandonFacts
    <3>2. p.by \in Live BY <3>1, AwaitedFacts
    <3> QED BY <3>1, <3>2
  <2>4. p.op = "callback" => Warranted(p)'
    BY <1>4, <2>1, <2>2 DEF Warranted, Backed, Exhausted
  <2> QED BY <1>3, <2>1, <2>2, <2>3, <2>4
<1>9. Untouched'
  <2> SUFFICES ASSUME \A e \in Try : run'[e].state = "none"
               PROVE  /\ net' = {} /\ job.by = 0
                      /\ \/ job.status = "CANCELLED"
                         \/ job.status = "STARTING" /\ job.cursor = 0 /\ job.attempt = 1
    BY DEF Untouched
  <2>1. \A e \in Try : run[e].state = "none" BY <1>3
  <2>2. net = {} BY <2>1 DEF IInv, Untouched
  <2>3. net' = {} BY <2>2, AbandonFacts
  <2> QED BY <2>1, <2>3 DEF IInv, Untouched
<1>10. Parallel' BY <1>3 DEF Parallel, Undisturbed
<1>11. AnsweredRunSettles'
  <2> SUFFICES ASSUME NEW e \in Try,
                      (run[e].state = "done" /\ ~run[e].doubt /\ FirstRun(e)
                         /\ ~MayBeStale(e))'
               PROVE  job.status \in Terminal
    BY DEF AnsweredRunSettles
  <2>1. ~run[e].doubt /\ FirstRun(e) /\ ~MayBeStale(e) BY <1>2, <1>4
  <2>2. CASE e \in Live
    <3>1. state = "done" /\ run[e].state = "live" BY <1>2, <2>2 DEF Live
    <3>2. Closed(e) => job.status \in Terminal BY DEF Closed
    <3> QED BY <2>1, <2>2, <3>1, <3>2 DEF Undisturbed
  <2>3. CASE e \notin Live
    BY <1>2, <2>1, <2>3 DEF IInv, AnsweredRunSettles
  <2> QED BY <2>2, <2>3
<1>12. OutcomeIsEarned'
  <2>1. job.by # 0 => job.by \in Try BY <1>1 DEF Job, Try
  <2> QED BY <1>2, <1>4, <2>1 DEF IInv, OutcomeIsEarned
<1> QED BY <1>5, <1>6, <1>7, <1>8, <1>9, <1>10, <1>11, <1>12 DEF IInv

\* A run ends by itself.
LEMMA EndKeeps ==
  ASSUME IInv, NEW d \in Try, FallSilent(d) \/ Settle(d)
  PROVE  IInv'
<1> DEFINE r == run[d]
<1>1. d \in Live /\ End(d) BY DEF FallSilent, Settle, Doing
<1>2. /\ Live = {d} /\ run \in [Try -> Run] /\ posts \in [Try -> {"unsent", "arrived", "over"}]
  BY <1>1 DEF IInv, OneLive, TypeOK
<1>3. run' = [e \in Try |-> IF e \in Live THEN Ended(run[e], "done") ELSE run[e]]
  BY <1>1, <1>2 DEF End
<1>4. Undisturbed(d) /\ ~MayBeStale(d) => job.status \in Terminal
  <2> SUFFICES ASSUME Undisturbed(d), ~MayBeStale(d) PROVE job.status \in Terminal
    OBVIOUS
  <2>1. Truthful(d) /\ Head(r.todo) = r.todo[1] BY <1>1, LiveFacts
  <2>2. r.result \notin {"refused", "error", "lost"}
    BY <1>1, NotUndisturbed
  <2>3. r.aborted \/ (r.result = "ok" /\ r.todo[1] = "callback")
    BY <2>1, <2>2 DEF FallSilent, Settle, Doing
  <2> QED BY <2>1, <2>3 DEF Truthful
<1>5. Abandon({d}) /\ job' = job /\ kind' = kind /\ posts' = posts /\ server' = "closing"
  BY <1>1 DEF End
<1> QED BY <1>2, <1>3, <1>4, <1>5, AllOverKeeps

\* The container exits or crashes, and its runs with it.
LEMMA DownKeeps ==
  ASSUME IInv, Exit \/ Crash
  PROVE  IInv'
<1>1. Down BY DEF Exit, Crash
<1>2. posts \in [Try -> {"unsent", "arrived", "over"}] BY DEF IInv, TypeOK
<1>3. posts' \in [Try -> {"unsent", "arrived", "over"}]
      /\ \A e \in Try : posts[e] = "over" => posts'[e] = "over"
  BY <1>1, <1>2 DEF Down
<1>4. Live \subseteq Try BY DEF Live
<1>5. /\ run' = [e \in Try |-> IF e \in Live THEN Ended(run[e], "killed") ELSE run[e]]
      /\ Abandon(Try) /\ job' = job /\ kind' = kind /\ server' = "down"
  BY <1>1 DEF Down
<1> QED BY <1>3, <1>4, <1>5, AllOverKeeps

\* An answer is lost, or comes too late, or comes as an error.
LEMMA LostKeeps ==
  ASSUME IInv, NEW d \in Try, TimeOut(d) \/ LoseAnswer(d)
  PROVE  IInv'
<1> DEFINE r == run[d]
           n == run'[d]
<1>1. /\ d \in Live /\ r \in Run /\ r.asked /\ r.todo[1] = Head(r.todo) /\ Sound(r) /\ Truthful(d)
      /\ r.cursor \in Nat /\ r.next \in Nat /\ job.cursor \in Nat /\ ~r.aborted
      /\ run \in [Try -> Run] /\ r.state = "live" /\ r.told \in Nat
  BY LiveFacts DEF TimeOut, LoseAnswer, Doing, Sound, IInv, TypeOK
<1>2. /\ run' \in [Try -> Run] /\ \A e \in Try \ {d} : run'[e] = run[e]
      /\ n.state = "live" /\ n.todo = r.todo /\ n.cursor = r.cursor
      /\ n.told = r.told /\ n.repairs = r.repairs /\ n.verdict = r.verdict
      /\ n.asked = r.asked /\ n.aborted = r.aborted
      /\ n.stumbled = r.stumbled /\ n.stale = r.stale /\ n.doubt
      /\ n.result \in {"lost", "error"}
  <2>1. CASE TimeOut(d)
    <3> DEFINE a == [r EXCEPT !.result = "lost", !.doubt = TRUE]
    <3>1. run' = [run EXCEPT ![d] = a] BY <1>1, <2>1 DEF TimeOut
    <3>2. /\ a \in Run /\ a.state = "live" /\ a.todo = r.todo /\ a.cursor = r.cursor
          /\ a.told = r.told /\ a.repairs = r.repairs /\ a.verdict = r.verdict
          /\ a.asked = r.asked /\ a.aborted = r.aborted
          /\ a.stumbled = r.stumbled /\ a.stale = r.stale /\ a.doubt
          /\ a.result = "lost"
      BY <1>1 DEF Run, Results
    <3> HIDE DEF a
    <3> QED BY <1>1, <3>1, <3>2
  <2>2. CASE LoseAnswer(d)
    <3>1. PICK result \in {"lost", "error"} :
            run' = [run EXCEPT ![d].result = result, ![d].next = 0, ![d].doubt = TRUE]
      BY <2>2 DEF LoseAnswer
    <3> DEFINE a == [r EXCEPT !.result = result, !.next = 0, !.doubt = TRUE]
    <3>2. run' = [run EXCEPT ![d] = a] BY <1>1, <3>1
    <3>3. /\ a \in Run /\ a.state = "live" /\ a.todo = r.todo /\ a.cursor = r.cursor
          /\ a.told = r.told /\ a.repairs = r.repairs /\ a.verdict = r.verdict
          /\ a.asked = r.asked /\ a.aborted = r.aborted
          /\ a.stumbled = r.stumbled /\ a.stale = r.stale /\ a.doubt
          /\ a.result = result
      BY <1>1 DEF Run, Results
    <3> HIDE DEF a
    <3> QED BY <1>1, <3>2, <3>3
  <2> QED BY <2>1, <2>2
<1>3. UNCHANGED <<kind, job, posts, server>>
  BY DEF TimeOut, LoseAnswer
<1>4. /\ net' \subseteq Request
      /\ \A p \in net' :
           /\ p.awaited => p \in net /\ p.by # d
           /\ \E q \in net : /\ p.by = q.by /\ p.op = q.op /\ p.cursor = q.cursor
                             /\ p.verdict = q.verdict
  <2>1. CASE TimeOut(d)
    BY <2>1, AbandonFacts DEF TimeOut
  <2>2. CASE LoseAnswer(d)
    <3>1. net' = net /\ r.result # "none" BY <2>2 DEF LoseAnswer
    <3>2. ASSUME NEW p \in net, p.awaited PROVE p.by # d BY <3>1, <3>2, AwaitedFacts
    <3> QED BY <3>1, <3>2 DEF IInv, TypeOK
  <2> QED BY <2>1, <2>2
<1>5. /\ Live' = Live
      /\ \A e \in Try : /\ FirstRun(e)' = FirstRun(e)
                        /\ Closed(e)' = Closed(e)
                        /\ Explained(e) => Explained(e)'
                        /\ run'[e].state = run[e].state
                        /\ run[e].doubt => run'[e].doubt
                        /\ run'[e].stumbled = run[e].stumbled
  <2>1. \A e \in Try : /\ run'[e].state = run[e].state
                       /\ run[e].doubt => run'[e].doubt
                       /\ run'[e].stumbled = run[e].stumbled
    BY <1>1, <1>2
  <2>2. Live' = Live BY <2>1 DEF Live
  <2>3. ASSUME NEW e \in Try PROVE FirstRun(e)' = FirstRun(e) BY <2>1 DEF FirstRun
  <2>4. ASSUME NEW e \in Try PROVE Closed(e)' = Closed(e) BY <1>3 DEF Closed
  <2> QED BY <2>1, <2>2, <2>3, <2>4 DEF Explained
<1>6. TypeOK' BY <1>2, <1>3, <1>4 DEF IInv, TypeOK
<1>7. RunsSound'
  <2>1. Sound(n) BY <1>1, <1>2 DEF Sound
  <2>2. Sound(run[d])' BY <1>3, <2>1 DEF Sound, Shared
  <2>3. Known(run[d])' = r.cursor /\ r.cursor <= job.cursor
    BY <1>1, <1>2 DEF Known, Truthful
  <2>4. r.verdict = "VERIFIED" /\ Passed(run[d])' => Backed(r.cursor)
    <3> SUFFICES ASSUME r.verdict = "VERIFIED", Passed(run[d])' PROVE Backed(r.cursor)
      OBVIOUS
    <3>1. \A i \in DOMAIN r.todo : r.todo[i] # "candidate" BY <1>2 DEF Passed
    <3>2. Backed(Known(r)) BY <1>1, <3>1 DEF Truthful, Passed
    <3>3. r.todo[1] # "candidate" /\ r.result \notin {"repair", "rejected"}
      BY <1>1, <3>1, ShapeBasics DEF Sound
    <3>4. Known(r) \in {r.cursor, r.cursor + 1} BY <1>1, <3>3 DEF Known, Cursor
    <3>5. Known(r) < job.cursor => r.cursor < job.cursor BY <1>1, <3>4
    <3> QED BY <3>2, <3>5 DEF Backed
  <2>5. (run[d].verdict = "VERIFIED" /\ Passed(run[d]) => Backed(Known(run[d])))'
    BY <1>2, <1>3, <2>3, <2>4 DEF Backed
  <2>6. (run[d].verdict = "REJECTED" => Exhausted(run[d].told))'
    BY <1>1, <1>2, <1>3 DEF Truthful, Exhausted
  <2>7. (run[d].verdict = "FAILED" => Explained(d))'
    BY <1>1, <1>2, <1>5 DEF Truthful
  <2>8. Truthful(d)'
    BY <1>1, <1>2, <1>3, <2>3, <2>5, <2>6, <2>7 DEF Truthful
  <2>9. ASSUME NEW e \in Try
        PROVE  /\ run'[e].state = "live" => Sound(run[e])' /\ Truthful(e)'
               /\ run'[e].state # "live" => ~run'[e].asked /\ run'[e].result = "none"
    <3>1. CASE e = d BY <1>2, <2>2, <2>8, <3>1
    <3>2. CASE e # d
      <4>1. e \notin Live BY <1>1, <3>2 DEF IInv, OneLive
      <4> QED BY <1>2, <2>9, <3>2, <4>1 DEF Live, IInv, RunsSound
    <3> QED BY <3>1, <3>2
  <2> QED BY <2>9 DEF RunsSound
<1>8. PostsSound' /\ OneLive' /\ JobSound' /\ Untouched'
  <2>1. job.by # 0 => job.by \in Try BY DEF IInv, TypeOK, Job, Try
  <2>2. PostsSound' BY <1>3, <1>5 DEF IInv, PostsSound
  <2>3. OneLive' BY <1>5 DEF IInv, OneLive
  <2>4. JobSound' BY <1>3, <1>5, <2>1 DEF IInv, JobSound
  <2>5. Untouched' BY <1>1, <1>5 DEF Untouched
  <2> QED BY <2>2, <2>3, <2>4, <2>5
<1>9. RequestsSound'
  <2> SUFFICES ASSUME NEW p \in net'
               PROVE  /\ run'[p.by].state # "none"
                      /\ p.awaited => Matches(p, run[p.by])'
                      /\ p.op = "callback" => Warranted(p)'
    BY DEF RequestsSound
  <2>1. PICK q \in net : /\ p.by = q.by /\ p.op = q.op /\ p.cursor = q.cursor
                         /\ p.verdict = q.verdict
    BY <1>4
  <2>2. /\ q.by \in Try /\ run[q.by].state # "none"
        /\ q.op = "callback" => Warranted(q)
    BY DEF IInv, RequestsSound, TypeOK, Request
  <2>3. p.awaited => Matches(p, run[p.by])'
    <3> SUFFICES ASSUME p.awaited PROVE Matches(p, run[p.by])' OBVIOUS
    <3>1. p \in net /\ p.by # d BY <1>4
    <3>2. Matches(p, run[p.by]) BY <3>1 DEF IInv, RequestsSound
    <3>3. run'[p.by] = run[p.by] BY <1>2, <2>1, <2>2, <3>1
    <3> QED BY <3>2, <3>3 DEF Matches
  <2>4. p.op = "callback" => Warranted(p)'
    BY <1>3, <1>5, <2>1, <2>2 DEF Warranted, Backed, Exhausted
  <2> QED BY <1>5, <2>1, <2>2, <2>3, <2>4
<1>10. Parallel'
  <2> SUFFICES ASSUME NEW e \in Try, Undisturbed(e)' PROVE FALSE
    BY DEF Parallel
  <2>1. e \in Live BY <1>5 DEF Undisturbed, Live
  <2>2. e = d BY <1>1, <2>1 DEF IInv, OneLive
  <2> QED BY <1>2, <2>2 DEF Undisturbed
<1>11. AnsweredRunSettles'
  <2> SUFFICES ASSUME NEW e \in Try,
                      (run[e].state = "done" /\ ~run[e].doubt /\ FirstRun(e)
                         /\ ~MayBeStale(e))'
               PROVE  job'.status \in Terminal
    BY DEF AnsweredRunSettles
  <2>1. e # d /\ run'[e] = run[e] BY <1>2
  <2>2. FirstRun(e) /\ ~MayBeStale(e) BY <1>3, <1>5, <2>1 DEF MayBeStale, Shared
  <2> QED BY <1>3, <2>1, <2>2 DEF IInv, AnsweredRunSettles
<1>12. OutcomeIsEarned'
  <2>1. job.by # 0 => job.by \in Try BY DEF IInv, TypeOK, Job, Try
  <2> QED BY <1>3, <1>5, <2>1 DEF IInv, OutcomeIsEarned
<1> QED BY <1>6, <1>7, <1>8, <1>9, <1>10, <1>11, <1>12 DEF IInv

\* Nothing but the posts and the server changes.
LEMMA PostKeeps ==
  ASSUME IInv, NEW d \in Try, Post(d) \/ (Accept(d) /\ run' = run)
  PROVE  IInv'
<1>1. UNCHANGED <<kind, job, run, net>> BY DEF Post, Accept
<1>2. TypeOK' /\ PostsSound'
  <2>1. TypeOK' BY <1>1 DEF Post, Accept, IInv, TypeOK
  <2>2. posts \in [Try -> {"unsent", "arrived", "over"}] BY DEF IInv, TypeOK
  <2>3. \A e \in Try : posts[e] = "over" => posts'[e] = "over"
    BY <2>2 DEF Post, Accept
  <2> QED BY <1>1, <2>1, <2>3 DEF IInv, PostsSound
<1>3. RunsSound' /\ OneLive' /\ JobSound' /\ Untouched'
  <2>1. RunsSound'
    BY <1>1 DEF IInv, RunsSound, Sound, Shared, Truthful, Known, Cursor, Passed, Backed,
               Exhausted, Explained, FirstRun, Closed
  <2>2. OneLive' /\ JobSound' /\ Untouched'
    BY <1>1 DEF IInv, OneLive, Live, JobSound, Untouched
  <2> QED BY <2>1, <2>2
<1>4. RequestsSound'
  BY <1>1 DEF IInv, RequestsSound, Matches, Warranted, Backed, Exhausted, Explained,
              FirstRun, Closed
<1>5. Parallel'
  BY <1>1 DEF IInv, Parallel, Undisturbed, Follows, FirstRun, Closed, Known, Cursor,
              Expected, Starts, Repairs, MayBeStale, Shared
<1>6. AnsweredRunSettles' /\ OutcomeIsEarned'
  BY <1>1 DEF IInv, AnsweredRunSettles, OutcomeIsEarned, FirstRun, MayBeStale, Shared
<1> QED BY <1>2, <1>3, <1>4, <1>5, <1>6 DEF IInv

\* The first run of a job finds it as it was created, or closed.
LEMMA AcceptKeeps ==
  ASSUME IInv, NEW d \in Try, Accept(d)
  PROVE  IInv'
<1>1. CASE Live # {}
  BY <1>1, PostKeeps DEF Accept
<1>2. CASE Live = {}
  <2> DEFINE new == [NoRun EXCEPT !.state = "live", !.todo = Steps]
  <2>1. /\ posts[d] = "arrived" /\ run' = [run EXCEPT ![d] = new]
        /\ UNCHANGED <<kind, job, server, net>>
        /\ posts' = [posts EXCEPT ![d] = "over"]
    BY <1>2 DEF Accept
  <2>2. /\ run \in [Try -> Run] /\ kind \in Kinds /\ job \in Job /\ run[d].state = "none"
        /\ posts \in [Try -> {"unsent", "arrived", "over"}] /\ job.cursor \in Nat
    BY <2>1 DEF IInv, TypeOK, PostsSound, Job
  <2>3. Shape(Steps) /\ Steps[1] = "input" /\ (kind # "run" => HasCandidate(Steps))
    BY <2>2, StepsShape
  <2>4. /\ new \in Run /\ new.state = "live" /\ new.todo = Steps /\ new.cursor = 0
        /\ new.told = 0 /\ new.repairs = 0 /\ new.verdict = "VERIFIED" /\ ~new.asked
        /\ new.result = "none" /\ ~new.aborted
    <3> DEFINE s == Steps
    <3>1. s \in Seq(Operations) /\ <<>> \in Seq(Operations) BY <2>3 DEF Shape
    <3>2. new = [NoRun EXCEPT !.state = "live", !.todo = s] OBVIOUS
    <3> HIDE DEF s
    <3>3. NoRun \in Run BY <3>1 DEF NoRun, Run, Results
    <3>4. /\ NoRun.cursor = 0 /\ NoRun.told = 0 /\ NoRun.repairs = 0
          /\ NoRun.verdict = "VERIFIED" /\ ~NoRun.asked
          /\ NoRun.result = "none" /\ ~NoRun.aborted
      BY DEF NoRun
    <3>5. /\ new \in Run /\ new.state = "live" /\ new.todo = s
          /\ new.cursor = NoRun.cursor /\ new.told = NoRun.told
          /\ new.repairs = NoRun.repairs /\ new.verdict = NoRun.verdict
          /\ new.asked = NoRun.asked /\ new.result = NoRun.result
          /\ new.aborted = NoRun.aborted
      <4> HIDE DEF new
      <4> QED BY <3>1, <3>2, <3>3 DEF Run
    <3> QED BY <3>4, <3>5 DEF s
  <2> HIDE DEF new
  <2>5. /\ run' \in [Try -> Run] /\ run'[d] = new /\ \A e \in Try \ {d} : run'[e] = run[e]
    BY <2>1, <2>2, <2>4
  <2>6. \A e \in Try : run[e].state # "live" BY <1>2 DEF Live
  <2>7. \A e \in Try : FirstRun(e)' = FirstRun(e) /\ Closed(e)' = Closed(e)
    <3>1. ASSUME NEW e \in Try PROVE FirstRun(e)' = FirstRun(e)
      BY <2>2, <2>4, <2>5 DEF FirstRun
    <3>2. ASSUME NEW e \in Try PROVE Closed(e)' = Closed(e) BY <2>1 DEF Closed
    <3> QED BY <3>1, <3>2
  <2>8. job.by # 0 => job.by \in Try /\ job.by # d
    BY <2>2 DEF IInv, JobSound, Job, Try
  <2>9. TypeOK' BY <2>1, <2>2, <2>5 DEF IInv, TypeOK
  <2>10. RunsSound'
    <3>1. Sound(run[d])'
      <4>1. Sound(new) BY <2>3, <2>4 DEF Sound
      <4> QED BY <2>1, <2>5, <4>1 DEF Sound, Shared
    <3>2. Known(run[d])' = 0 BY <2>4, <2>5 DEF Known
    <3>3. (run[d].verdict = "VERIFIED" /\ Passed(run[d]) => Backed(Known(run[d])))'
      BY <2>1, <2>3, <2>4, <2>5 DEF Passed, HasCandidate, Backed
    <3>4. Truthful(d)' BY <2>1, <2>2, <2>4, <2>5, <3>2, <3>3 DEF Truthful
    <3>5. ASSUME NEW e \in Try
          PROVE  /\ run'[e].state = "live" => Sound(run[e])' /\ Truthful(e)'
                 /\ run'[e].state # "live" => ~run'[e].asked /\ run'[e].result = "none"
      <4>1. CASE e = d BY <2>4, <2>5, <3>1, <3>4, <4>1
      <4>2. CASE e # d BY <2>5, <2>6, <4>2 DEF IInv, RunsSound
      <4> QED BY <4>1, <4>2
    <3> QED BY <3>5 DEF RunsSound
  <2>11. PostsSound' /\ OneLive' /\ JobSound' /\ Untouched'
    <3>1. PostsSound' BY <2>1, <2>2, <2>5 DEF IInv, PostsSound
    <3>2. OneLive' BY <2>5, <2>6 DEF OneLive, Live
    <3>3. JobSound' BY <2>1, <2>5, <2>8 DEF IInv, JobSound
    <3>4. Untouched' BY <2>4, <2>5 DEF Untouched
    <3> QED BY <3>1, <3>2, <3>3, <3>4
  <2>12. \A p \in net : /\ ~p.awaited /\ p.by \in Try /\ p.by # d /\ run[p.by].state # "none"
                        /\ p.op = "callback" => Warranted(p)
    <3> SUFFICES ASSUME NEW p \in net
                 PROVE  /\ ~p.awaited /\ p.by \in Try /\ p.by # d /\ run[p.by].state # "none"
                        /\ p.op = "callback" => Warranted(p)
      OBVIOUS
    <3>1. ~p.awaited BY <1>2, AwaitedFacts
    <3> QED BY <2>2, <3>1 DEF IInv, TypeOK, Request, RequestsSound
  <2>13. RequestsSound'
    BY <2>1, <2>5, <2>7, <2>12 DEF RequestsSound, Warranted, Backed, Exhausted, Explained
  <2>14. Parallel'
    <3> SUFFICES ASSUME NEW e \in Try, Undisturbed(e)' PROVE Follows(e)'
      BY DEF Parallel
    <3>1. e = d BY <2>5, <2>6 DEF Undisturbed
    <3>2. FirstRun(d) /\ ~Closed(d) BY <2>7, <3>1 DEF Undisturbed
    <3>3. \A x \in Try : run[x].state = "none" BY <2>2, <2>6, <3>2 DEF FirstRun
    <3>4. /\ net = {} /\ job.by = 0 /\ job.by # d
          /\ \/ job.status = "CANCELLED"
             \/ job.status = "STARTING" /\ job.cursor = 0 /\ job.attempt = 1
      BY <3>3, ConstantsOK DEF IInv, Untouched, Try
    <3>5. job.status = "STARTING" /\ job.cursor = 0 /\ job.attempt = 1
      BY <3>2, <3>4, StatusFacts DEF Closed
    <3>6. Known(run[d])' = 0 /\ Expected(run[d])' = "STARTING"
      BY <2>3, <2>4, <2>5 DEF Known, Expected, Starts
    <3> QED BY <2>1, <2>4, <2>5, <3>1, <3>4, <3>5, <3>6 DEF Follows
  <2>15. AnsweredRunSettles'
    <3> SUFFICES ASSUME NEW e \in Try,
                        (run[e].state = "done" /\ ~run[e].doubt /\ FirstRun(e)
                           /\ ~MayBeStale(e))'
                 PROVE  job'.status \in Terminal
      BY DEF AnsweredRunSettles
    <3>1. run'[e] = run[e] BY <2>4, <2>5
    <3>2. FirstRun(e) /\ ~MayBeStale(e) BY <2>1, <2>7, <3>1 DEF MayBeStale, Shared
    <3> QED BY <2>1, <3>1, <3>2 DEF IInv, AnsweredRunSettles
  <2>16. OutcomeIsEarned'
    BY <2>1, <2>5, <2>7, <2>8 DEF IInv, OutcomeIsEarned
  <2> QED BY <2>9, <2>10, <2>11, <2>13, <2>14, <2>15, <2>16 DEF IInv
<1> QED BY <1>1, <1>2

\* Somebody else closes the job.
LEMMA CloseKeeps ==
  ASSUME IInv, Close
  PROVE  IInv'
<1>1. /\ job \in Job /\ job.status \in Active /\ job.status \notin Terminal
      /\ job' = [job EXCEPT !.status = "CANCELLED"]
      /\ UNCHANGED <<kind, posts, server, run, net>>
  BY StatusFacts DEF Close, IInv, TypeOK
<1>2. /\ job' \in Job /\ job'.status = "CANCELLED" /\ job'.status \in Terminal
      /\ job'.cursor = job.cursor /\ job'.attempt = job.attempt
      /\ job'.judged = job.judged /\ job'.by = job.by /\ job.by = 0
  <2>1. job.by = 0 BY <1>1 DEF IInv, JobSound
  <2> QED BY <1>1, <2>1, StatusFacts DEF Job
<1>3. \A e \in Try : Closed(e)' BY <1>2, ConstantsOK DEF Closed, Try
<1>4. TypeOK' BY <1>1, <1>2 DEF IInv, TypeOK
<1>5. RunsSound'
  <2> SUFFICES ASSUME NEW e \in Try
               PROVE  /\ run[e].state = "live" => Sound(run[e])' /\ Truthful(e)'
                      /\ run[e].state # "live" => ~run[e].asked /\ run[e].result = "none"
    BY <1>1 DEF RunsSound
  <2>1. ASSUME run[e].state = "live" PROVE Sound(run[e])' /\ Truthful(e)'
    <3>1. Sound(run[e]) /\ Truthful(e) BY <2>1 DEF IInv, RunsSound
    <3>2. Sound(run[e])' BY <1>1, <3>1 DEF Sound, Shared
    <3>3. Explained(e)' BY <1>3 DEF Explained
    <3>4. Truthful(e)'
      BY <1>1, <1>2, <3>1, <3>3 DEF Truthful, Known, Cursor, Passed, Backed, Exhausted
    <3> QED BY <3>2, <3>4
  <2> QED BY <2>1 DEF IInv, RunsSound
<1>6. PostsSound' /\ OneLive' /\ JobSound' /\ Untouched'
  <2>1. PostsSound' /\ OneLive' BY <1>1 DEF IInv, PostsSound, OneLive, Live
  <2>2. JobSound' BY <1>2 DEF IInv, JobSound
  <2>3. Untouched' BY <1>1, <1>2 DEF IInv, Untouched
  <2> QED BY <2>1, <2>2, <2>3
<1>7. RequestsSound'
  <2> SUFFICES ASSUME NEW q \in net
               PROVE  /\ run[q.by].state # "none"
                      /\ q.awaited => Matches(q, run[q.by])'
                      /\ q.op = "callback" => Warranted(q)'
    BY <1>1 DEF RequestsSound
  <2>1. /\ q.by \in Try /\ run[q.by].state # "none"
        /\ q.awaited => Matches(q, run[q.by])
        /\ q.op = "callback" => Warranted(q)
    BY DEF IInv, RequestsSound, TypeOK, Request
  <2>2. Explained(q.by)' BY <1>3, <2>1 DEF Explained
  <2> QED BY <1>1, <1>2, <2>1, <2>2 DEF Matches, Warranted, Backed, Exhausted
<1>8. Parallel' BY <1>3 DEF Parallel, Undisturbed
<1>9. AnsweredRunSettles' /\ OutcomeIsEarned'
  BY <1>2 DEF AnsweredRunSettles, OutcomeIsEarned
<1> QED BY <1>4, <1>5, <1>6, <1>7, <1>8, <1>9 DEF IInv

\* A run is aborted, or asks for its next operation.
LEMMA AskKeeps ==
  ASSUME IInv, NEW d \in Try, Abort(d) \/ Ask(d)
  PROVE  IInv'
<1> DEFINE r == run[d]
           n == run'[d]
           asks == ~r.asked /\ r.todo[1] \notin Local /\ n.asked /\ n.aborted = r.aborted
           new == [by |-> d, op |-> r.todo[1], attempt |-> r.repairs + 1,
                   verdict |-> r.verdict, awaited |-> TRUE,
                   cursor |-> IF r.todo[1] \in Events THEN r.cursor + 1
                              ELSE IF r.verdict = "VERIFIED" THEN r.cursor ELSE r.told]
<1>1. /\ d \in Live /\ r \in Run /\ Head(r.todo) = r.todo[1] /\ Sound(r) /\ Truthful(d)
      /\ r.cursor \in Nat /\ r.told \in Nat /\ r.repairs \in Nat
      /\ run \in [Try -> Run] /\ r.state = "live" /\ r.todo[1] \in Operations
      /\ r.verdict \in {"VERIFIED", "REJECTED", "FAILED"}
      /\ (Undisturbed(d) => Follows(d)) /\ job.cursor \in Nat
  <2>1. d \in Live BY DEF Abort, Ask, Doing
  <2> QED BY <2>1, LiveFacts DEF IInv, TypeOK
<1>2. /\ run' \in [Try -> Run] /\ \A e \in Try \ {d} : run'[e] = run[e]
      /\ n.state = "live" /\ n.todo = r.todo /\ n.cursor = r.cursor
      /\ n.told = r.told /\ n.repairs = r.repairs /\ n.verdict = r.verdict
      /\ n.stumbled = r.stumbled /\ n.doubt = r.doubt /\ n.result = r.result
      /\ n.next = r.next /\ n.stale = r.stale
      /\ \/ asks /\ net' = net \cup {new}
         \/ n.asked = r.asked /\ job.status \in Terminal /\ net' = net
      /\ UNCHANGED <<kind, job, posts, server>>
  <2>1. CASE Abort(d)
    <3> DEFINE a == [r EXCEPT !.aborted = TRUE]
    <3>1. run' = [run EXCEPT ![d] = a] BY <1>1, <2>1 DEF Abort
    <3>2. /\ a \in Run /\ a.state = "live" /\ a.todo = r.todo /\ a.cursor = r.cursor
          /\ a.told = r.told /\ a.repairs = r.repairs /\ a.verdict = r.verdict
          /\ a.asked = r.asked /\ a.stumbled = r.stumbled /\ a.doubt = r.doubt
          /\ a.result = r.result /\ a.next = r.next /\ a.stale = r.stale
      BY <1>1 DEF Run
    <3>3. job.status \in Terminal BY <2>1, StatusFacts DEF Abort
    <3> HIDE DEF a, new
    <3> QED BY <1>1, <2>1, <3>1, <3>2, <3>3 DEF Abort
  <2>2. CASE Ask(d)
    <3> DEFINE a == [r EXCEPT !.asked = TRUE]
    <3>1. run' = [run EXCEPT ![d] = a] BY <1>1, <2>2 DEF Ask
    <3>2. /\ a \in Run /\ a.state = "live" /\ a.todo = r.todo /\ a.cursor = r.cursor
          /\ a.told = r.told /\ a.repairs = r.repairs /\ a.verdict = r.verdict
          /\ a.asked /\ a.stumbled = r.stumbled /\ a.doubt = r.doubt
          /\ a.result = r.result /\ a.next = r.next /\ a.aborted = r.aborted
          /\ a.stale = r.stale
      BY <1>1 DEF Run
    <3>3. ~r.asked /\ r.todo[1] \notin Local BY <1>1, <2>2 DEF Ask, Doing
    <3>4. net' = net \cup {new} BY <1>1, <2>2 DEF Ask
    <3>5. UNCHANGED <<kind, job, posts, server>> BY <2>2 DEF Ask
    <3> HIDE DEF a, new
    <3> QED BY <1>1, <3>1, <3>2, <3>3, <3>4, <3>5
  <2> QED BY <2>1, <2>2
<1>3. /\ Live' = Live
      /\ \A e \in Try : /\ FirstRun(e)' = FirstRun(e) /\ Closed(e)' = Closed(e)
                        /\ Explained(e)' = Explained(e)
                        /\ Undisturbed(e)' = Undisturbed(e)
                        /\ run'[e].state = run[e].state
                        /\ run'[e].doubt = run[e].doubt
                        /\ run'[e].stumbled = run[e].stumbled
  <2>1. \A e \in Try : /\ run'[e].state = run[e].state
                       /\ run'[e].doubt = run[e].doubt
                       /\ run'[e].stumbled = run[e].stumbled
    BY <1>1, <1>2
  <2>2. Live' = Live BY <2>1 DEF Live
  <2>3. ASSUME NEW e \in Try PROVE FirstRun(e)' = FirstRun(e) BY <2>1 DEF FirstRun
  <2>4. ASSUME NEW e \in Try PROVE Closed(e)' = Closed(e) BY <1>2 DEF Closed
  <2> QED BY <2>1, <2>2, <2>3, <2>4 DEF Explained, Undisturbed
<1>4. asks => new \in Request
  <2>1. d \in Try /\ r.repairs + 1 \in Nat /\ r.cursor + 1 \in Nat BY <1>1
  <2>2. asks => r.todo[1] \in Operations \ Local BY <1>1
  <2> QED BY <1>1, <2>1, <2>2 DEF Request
<1>5. /\ new.by = d /\ new.op = r.todo[1] /\ new.attempt = r.repairs + 1
      /\ new.verdict = r.verdict /\ new.awaited
      /\ new.cursor = IF r.todo[1] \in Events THEN r.cursor + 1
                      ELSE IF r.verdict = "VERIFIED" THEN r.cursor ELSE r.told
  OBVIOUS
<1> HIDE DEF new
<1>6. TypeOK' BY <1>2, <1>4 DEF IInv, TypeOK
<1>7. /\ Known(run[d])' = Known(r) /\ Passed(run[d])' = Passed(r)
      /\ Expected(run[d])' = Expected(r)
  BY <1>2 DEF Known, Cursor, Passed, Expected, Starts, Repairs
<1>8. RunsSound'
  <2>1. Sound(n) BY <1>1, <1>2 DEF Sound
  <2>2. Sound(run[d])' BY <1>2, <2>1 DEF Sound, Shared
  <2>3. (run[d].verdict = "VERIFIED" /\ Passed(run[d]) => Backed(Known(run[d])))'
    BY <1>1, <1>2, <1>7 DEF Truthful, Backed
  <2>4. (/\ run[d].result = "rejected" => Exhausted(run[d].next)
         /\ run[d].verdict = "REJECTED" => Exhausted(run[d].told))'
    BY <1>1, <1>2 DEF Truthful, Exhausted
  <2>5. (run[d].verdict = "FAILED" => Explained(d))'
    BY <1>1, <1>2, <1>3 DEF Truthful
  <2>6. (/\ run[d].cursor <= job.cursor /\ Known(run[d]) <= job.cursor
         /\ run[d].aborted \/ (run[d].result = "ok" /\ run[d].todo[1] = "callback")
              => job.status \in Terminal)'
    BY <1>1, <1>2, <1>7 DEF Truthful
  <2>7. Truthful(d)' BY <2>3, <2>4, <2>5, <2>6 DEF Truthful
  <2>8. ASSUME NEW e \in Try
        PROVE  /\ run'[e].state = "live" => Sound(run[e])' /\ Truthful(e)'
               /\ run'[e].state # "live" => ~run'[e].asked /\ run'[e].result = "none"
    <3>1. CASE e = d BY <1>2, <2>2, <2>7, <3>1
    <3>2. CASE e # d
      <4>1. e \notin Live BY <1>1, <3>2 DEF IInv, OneLive
      <4> QED BY <1>2, <2>8, <3>2, <4>1 DEF Live, IInv, RunsSound
    <3> QED BY <3>1, <3>2
  <2> QED BY <2>8 DEF RunsSound
<1>9. PostsSound' /\ OneLive' /\ JobSound' /\ Untouched'
  <2>1. job.by # 0 => job.by \in Try BY DEF IInv, TypeOK, Job, Try
  <2>2. PostsSound' BY <1>2, <1>3 DEF IInv, PostsSound
  <2>3. OneLive' BY <1>3 DEF IInv, OneLive
  <2>4. JobSound' BY <1>2, <1>3, <2>1 DEF IInv, JobSound
  <2>5. Untouched' BY <1>1, <1>3 DEF Untouched
  <2> QED BY <2>2, <2>3, <2>4, <2>5
<1>10. RequestsSound'
  <2>1. ASSUME NEW p \in net
        PROVE  /\ run'[p.by].state # "none"
               /\ p.awaited => Matches(p, run[p.by])'
               /\ p.op = "callback" => Warranted(p)'
    <3>1. /\ p.by \in Try /\ run[p.by].state # "none"
          /\ p.awaited => Matches(p, run[p.by])
          /\ p.op = "callback" => Warranted(p)
      BY DEF IInv, RequestsSound, TypeOK, Request
    <3>2. p.awaited => Matches(p, run[p.by])'
      <4>1. CASE p.by = d
        <5> SUFFICES ASSUME p.awaited PROVE Matches(p, run[p.by])' OBVIOUS
        <5>1. Matches(p, r) BY <3>1, <4>1
        <5>2. r.asked BY <5>1 DEF Matches
        <5>3. n.asked = r.asked BY <1>2, <5>2
        <5>4. Matches(p, n) BY <1>2, <5>1, <5>3 DEF Matches
        <5> QED BY <4>1, <5>4 DEF Matches
      <4>2. CASE p.by # d
        <5>1. run'[p.by] = run[p.by] BY <1>2, <3>1, <4>2
        <5> QED BY <3>1, <5>1 DEF Matches
      <4> QED BY <4>1, <4>2
    <3>3. p.op = "callback" => Warranted(p)'
      BY <1>2, <1>3, <3>1 DEF Warranted, Backed, Exhausted
    <3> QED BY <1>3, <3>1, <3>2, <3>3
  <2>2. ASSUME asks, NEW p \in net', p = new
        PROVE  /\ run'[p.by].state # "none"
               /\ p.awaited => Matches(p, run[p.by])'
               /\ p.op = "callback" => Warranted(p)'
    <3>1. r.result = "none" BY <1>1, <2>2 DEF Sound
    <3>2. /\ p.by = d /\ p.op = r.todo[1] /\ p.attempt = r.repairs + 1
          /\ p.verdict = r.verdict
          /\ p.cursor = IF r.todo[1] \in Events THEN r.cursor + 1
                         ELSE IF r.verdict = "VERIFIED" THEN r.cursor ELSE r.told
      BY <1>5, <2>2
    <3>3. Matches(p, run[p.by])'
      BY <1>2, <2>2, <3>1, <3>2 DEF Matches
    <3>4. ASSUME p.op = "callback" PROVE Warranted(p)'
      <4>1. p.cursor = IF r.verdict = "VERIFIED" THEN r.cursor ELSE r.told
        BY <3>2, <3>4 DEF Events
      <4>2. p.cursor <= job.cursor
        <5>1. r.told <= r.cursor /\ r.cursor <= job.cursor BY <1>1 DEF Sound, Truthful
        <5> QED BY <1>1, <4>1, <5>1
      <4>3. r.todo = <<"callback">> BY <1>1, <3>2, <3>4, ShapeBasics DEF Sound
      <4>4. Passed(r) /\ Known(r) = r.cursor
        BY <3>1, <4>3 DEF Passed, Known
      <4>5. /\ p.verdict = "VERIFIED" => Backed(p.cursor)
            /\ p.verdict = "REJECTED" => Exhausted(p.cursor)
            /\ p.verdict = "FAILED" => Explained(d)
        BY <1>1, <3>2, <4>1, <4>4 DEF Truthful
      <4>6. p.verdict = "FAILED" => Explained(p.by)'
        BY <1>1, <1>3, <3>2, <4>5
      <4> QED BY <1>2, <4>2, <4>5, <4>6 DEF Warranted, Backed, Exhausted
    <3> QED BY <1>2, <3>2, <3>3, <3>4
  <2>3. \A p \in net' : p \in net \/ (asks /\ p = new)
    BY <1>2
  <2> HIDE DEF asks
  <2> QED BY <2>1, <2>2, <2>3 DEF RequestsSound
<1>11. Parallel'
  <2> SUFFICES ASSUME NEW e \in Try, Undisturbed(e)' PROVE Follows(e)'
    BY DEF Parallel
  <2>1. e \in Live BY <1>3 DEF Undisturbed, Live
  <2>2. e = d BY <1>1, <2>1 DEF IInv, OneLive
  <2>3. Follows(d) BY <1>1, <1>3, <2>2
  <2>4. \A p \in net' : p.by = d /\ p.awaited
    BY <1>2, <1>5, <2>3 DEF Follows
  <2> QED BY <1>2, <1>7, <2>2, <2>3, <2>4 DEF Follows, MayBeStale, Shared
<1>12. AnsweredRunSettles'
  <2> SUFFICES ASSUME NEW e \in Try,
                      (run[e].state = "done" /\ ~run[e].doubt /\ FirstRun(e)
                         /\ ~MayBeStale(e))'
               PROVE  job'.status \in Terminal
    BY DEF AnsweredRunSettles
  <2>1. e # d /\ run'[e] = run[e] BY <1>2
  <2>2. FirstRun(e) /\ ~MayBeStale(e) BY <1>2, <1>3, <2>1 DEF MayBeStale, Shared
  <2> QED BY <1>2, <2>1, <2>2 DEF IInv, AnsweredRunSettles
<1>13. OutcomeIsEarned'
  <2>1. job.by # 0 => job.by \in Try BY DEF IInv, TypeOK, Job, Try
  <2> QED BY <1>2, <1>3, <2>1 DEF IInv, OutcomeIsEarned
<1> QED BY <1>6, <1>8, <1>9, <1>10, <1>11, <1>12, <1>13 DEF IInv

-----------------------------------------------------------------------------
(* The theorems *)

\* The invariant holds at the start.
LEMMA InitSound == Init => IInv
<1> SUFFICES ASSUME Init PROVE IInv OBVIOUS
<1>1. NoRun \in Run
  <2>1. <<>> \in Seq(Operations) OBVIOUS
  <2> QED BY <2>1 DEF NoRun, Run, Results
<1>2. /\ \A d \in Try : run[d] = NoRun
      /\ NoRun.state = "none" /\ ~NoRun.asked /\ NoRun.result = "none"
  BY DEF Init, NoRun
<1>3. /\ job.status = "STARTING" /\ job.cursor = 0 /\ job.attempt = 1 /\ job.by = 0
      /\ net = {}
  BY DEF Init
<1>4. job \in Job
  <2>1. 0 \in 0..Dispatches /\ "STARTING" \in Status
    BY ConstantsOK, StatusFacts
  <2> QED BY <2>1 DEF Init, Job
<1>5. TypeOK BY <1>1, <1>4 DEF Init, TypeOK
<1>6. RunsSound /\ PostsSound /\ OneLive /\ RequestsSound
  BY <1>2, <1>3 DEF RunsSound, PostsSound, OneLive, Live, RequestsSound
<1>7. JobSound /\ Untouched
  BY <1>3, ConstantsOK DEF JobSound, Untouched
<1>8. Parallel /\ AnsweredRunSettles /\ OutcomeIsEarned
  BY <1>2, <1>3 DEF Parallel, Undisturbed, AnsweredRunSettles, OutcomeIsEarned
<1> QED BY <1>5, <1>6, <1>7, <1>8 DEF IInv

\* Nothing happens.
LEMMA StutterKeeps == IInv /\ UNCHANGED vars => IInv'
<1> SUFFICES ASSUME IInv, UNCHANGED vars PROVE IInv' OBVIOUS
<1>1. UNCHANGED <<kind, job, posts, server, run, net>> BY DEF vars
<1>2. TypeOK' /\ PostsSound' /\ OneLive' /\ JobSound' /\ Untouched'
  BY <1>1 DEF IInv, TypeOK, PostsSound, OneLive, Live, JobSound, Untouched
<1>3. RunsSound'
  BY <1>1 DEF IInv, RunsSound, Sound, Shared, Truthful, Known, Cursor, Passed, Backed,
              Exhausted, Explained, FirstRun, Closed
<1>4. RequestsSound'
  BY <1>1 DEF IInv, RequestsSound, Matches, Warranted, Backed, Exhausted, Explained,
              FirstRun, Closed
<1>5. Parallel'
  BY <1>1 DEF IInv, Parallel, Undisturbed, Follows, FirstRun, Closed, Known, Cursor,
              Expected, Starts, Repairs, MayBeStale, Shared
<1>6. AnsweredRunSettles' /\ OutcomeIsEarned'
  BY <1>1 DEF IInv, AnsweredRunSettles, OutcomeIsEarned, FirstRun, MayBeStale, Shared
<1> QED BY <1>2, <1>3, <1>4, <1>5, <1>6 DEF IInv

\* Every step keeps the invariant.
LEMMA NextKeeps == IInv /\ [Next]_vars => IInv'
<1> SUFFICES ASSUME IInv, [Next]_vars PROVE IInv' OBVIOUS
<1>1. ASSUME NEW d \in Try, Post(d) PROVE IInv' BY <1>1, PostKeeps
<1>2. ASSUME NEW d \in Try, Accept(d) PROVE IInv' BY <1>2, AcceptKeeps
<1>3. ASSUME NEW d \in Try, Abort(d) \/ Ask(d) PROVE IInv' BY <1>3, AskKeeps
<1>4. ASSUME NEW d \in Try, FallSilent(d) \/ Settle(d) PROVE IInv' BY <1>4, EndKeeps
<1>5. ASSUME NEW d \in Try, TimeOut(d) \/ LoseAnswer(d) PROVE IInv' BY <1>5, LostKeeps
<1>6. ASSUME NEW d \in Try, Continue(d) PROVE IInv' BY <1>6, ContinueKeeps
<1>7. ASSUME NEW d \in Try, Judged(d) PROVE IInv' BY <1>7, JudgedKeeps
<1>8. ASSUME NEW d \in Try, Caught(d) \/ GiveUpVerified(d) PROVE IInv'
  BY <1>8, CaughtKeeps
<1>9. ASSUME NEW d \in Try, Resend(d) PROVE IInv' BY <1>9, ResendKeeps
<1>10. ASSUME NEW d \in Try, Yield(d) PROVE IInv' BY <1>10, YieldKeeps
<1>11. ASSUME NEW d \in Try, Finish(d) PROVE IInv' BY <1>11, FinishKeeps
<1>12. ASSUME NEW d \in Try, Stumble(d) PROVE IInv' BY <1>12, StumbleKeeps
<1>13. ASSUME NEW q \in net, Serve(q) PROVE IInv'
  BY <1>13, ServeObjectKeeps, ServeStartKeeps, ServeEventKeeps, ServeCandidateKeeps,
     ServeResumeKeeps, ServeCallbackKeeps, RefuseKeeps DEF Serve
<1>14. ASSUME Exit \/ Crash PROVE IInv' BY <1>14, DownKeeps
<1>15. ASSUME Close PROVE IInv' BY <1>15, CloseKeeps
<1>16. ASSUME UNCHANGED vars PROVE IInv' BY <1>16, StutterKeeps
<1> QED BY <1>1, <1>2, <1>3, <1>4, <1>5, <1>6, <1>7, <1>8, <1>9, <1>10, <1>11, <1>12,
           <1>13, <1>14, <1>15, <1>16 DEF Next

\* The invariant holds for every kind of job and every number of tries, attempts,
\* files and callbacks.
THEOREM Invariance == Spec => []IInv
<1> QED BY InitSound, NextKeeps, PTL DEF Spec

\* The container, its runs, their requests and the job are always of their types.
THEOREM TypeCorrect == Spec => []TypeOK
<1>1. IInv => TypeOK BY DEF IInv
<1> QED BY <1>1, Invariance, PTL

\* Processor and Worker count the job's events in step: a request of a job's first
\* run is refused only when others closed the job or an answer of the run went wrong.
THEOREM InStepCorrect == Spec => []InStep
<1>1. IInv => InStep
  <2> SUFFICES ASSUME IInv, NEW d \in Try, run[d].result = "refused"
               PROVE  \/ run[d].doubt \/ ~FirstRun(d)
                      \/ job.status \in Terminal /\ job.by # d
                      \/ MayBeStale(d)
    BY DEF InStep
  <2>1. run[d].state = "live" BY DEF IInv, RunsSound
  <2>2. Undisturbed(d) => MayBeStale(d) BY DEF IInv, Parallel, Follows
  <2> QED BY <2>1, <2>2 DEF Undisturbed, Closed
<1> QED BY <1>1, Invariance, PTL

\* A run that ends by itself, with every request answered, leaves its job settled.
THEOREM AnsweredRunSettlesCorrect == Spec => []AnsweredRunSettles
<1>1. IInv => AnsweredRunSettles BY DEF IInv
<1> QED BY <1>1, Invariance, PTL

\* The callback that settles a job says what happened.
THEOREM OutcomeIsEarnedCorrect == Spec => []OutcomeIsEarned
<1>1. IInv => OutcomeIsEarned BY DEF IInv
<1> QED BY <1>1, Invariance, PTL

-----------------------------------------------------------------------------
(* A scientific run *)

Script == <<"input", "start", "event", "work", "upload", "event", "callback">>

\* What is left to do at step k of the script, and the events that are then known.
AtStep(s, cursor, k) ==
  /\ Len(s) = 8 - k /\ \A i \in 1..(8 - k) : s[i] = Script[k + i - 1]
  /\ cursor = IF k <= 3 THEN 0 ELSE IF k <= 6 THEN 1 ELSE 2

OfScript == {"input", "start", "event", "work", "upload"}

OnScript(s, cursor) == \E k \in 1..7 : AtStep(s, cursor, k)

RunsOnScript ==
  kind = "run" =>
    \A d \in Try : run[d].state = "live" /\ run[d].verdict = "VERIFIED"
                     => OnScript(run[d].todo, run[d].cursor)

\* The script, step by step.
LEMMA ScriptIs ==
  /\ Script[1] = "input" /\ Script[2] = "start" /\ Script[3] = "event"
  /\ Script[4] = "work" /\ Script[5] = "upload" /\ Script[6] = "event"
  /\ Script[7] = "callback"
BY DEF Script

\* A run starts at the top of the script.
LEMMA ScriptStarts ==
  ASSUME kind = "run", kind \in Kinds
  PROVE  OnScript(Steps, 0)
<1> DEFINE a == <<"input", "start", "event">>
           w == <<"work", "upload", "event">>
           b == <<"callback">>
           x == a \o w
           s == x \o b
<1>1. Steps = s
  <2>1. Work[kind] = w BY DEF Work
  <2> QED BY <2>1 DEF Steps
<1>2. /\ a \in Seq(Operations) /\ Len(a) = 3 /\ w \in Seq(Operations) /\ Len(w) = 3
      /\ b \in Seq(Operations) /\ Len(b) = 1
      /\ a[1] = "input" /\ a[2] = "start" /\ a[3] = "event"
      /\ w[1] = "work" /\ w[2] = "upload" /\ w[3] = "event" /\ b[1] = "callback"
  BY DEF Operations, Local
<1> HIDE DEF a, w, b
<1>3. /\ x \in Seq(Operations) /\ Len(x) = 6
      /\ \A i \in 1..6 : x[i] = IF i <= 3 THEN a[i] ELSE w[i - 3]
  <2>1. /\ x \in Seq(Operations) /\ Len(x) = Len(a) + Len(w)
        /\ \A i \in 1..(Len(a) + Len(w)) :
             x[i] = IF i <= Len(a) THEN a[i] ELSE w[i - Len(a)]
    BY <1>2, ConcatProperties
  <2> QED BY <1>2, <2>1
<1> HIDE DEF x
<1>4. Len(s) = 7 /\ \A i \in 1..7 : s[i] = IF i <= 6 THEN x[i] ELSE b[i - 6]
  <2>1. /\ Len(s) = Len(x) + Len(b)
        /\ \A i \in 1..(Len(x) + Len(b)) :
             s[i] = IF i <= Len(x) THEN x[i] ELSE b[i - Len(x)]
    BY <1>2, <1>3, ConcatProperties
  <2> QED BY <1>2, <1>3, <2>1
<1> HIDE DEF s
<1>5. \A i \in 1..7 : s[i] = Script[i]
  BY <1>2, <1>3, <1>4, ScriptIs
<1>6. AtStep(s, 0, 1) BY <1>4, <1>5 DEF AtStep
<1> QED BY <1>1, <1>6 DEF OnScript

\* A step on the script is followed by the next one, and counts its event.
LEMMA ScriptGoesOn ==
  ASSUME NEW s, Shape(s), NEW cursor, OnScript(s, cursor), s[1] # "callback"
  PROVE  /\ s[1] \in OfScript
         /\ OnScript(Tail(s), IF s[1] = "event" THEN cursor + 1 ELSE cursor)
<1>1. PICK k \in 1..7 : AtStep(s, cursor, k) BY DEF OnScript
<1>2. s[1] = Script[k]
  <2>1. 1 \in 1..(8 - k) /\ k + 1 - 1 = k OBVIOUS
  <2> QED BY <1>1, <2>1 DEF AtStep
<1>3. k # 7 BY <1>2, ScriptIs
<1>4. /\ Len(Tail(s)) = 7 - k
      /\ \A i \in 1..(7 - k) : Tail(s)[i] = Script[k + i]
  <2>1. Len(s) = 8 - k BY <1>1 DEF AtStep
  <2>2. /\ Shape(Tail(s)) /\ DOMAIN Tail(s) = 1..(Len(s) - 1)
        /\ \A i \in 1..(Len(s) - 1) : Tail(s)[i] = s[i + 1]
    BY ShapeTail
  <2>3. Len(Tail(s)) = 7 - k
    <3>1. s \in Seq(Operations) /\ s # <<>> BY DEF Shape
    <3> QED BY <2>1, <3>1
  <2>4. ASSUME NEW i \in 1..(7 - k) PROVE Tail(s)[i] = Script[k + i]
    <3>1. i \in 1..(Len(s) - 1) /\ i + 1 \in 1..(8 - k) /\ k + (i + 1) - 1 = k + i
      BY <2>1
    <3>2. s[i + 1] = Script[k + (i + 1) - 1] BY <1>1, <3>1 DEF AtStep
    <3> QED BY <2>2, <3>1, <3>2
  <2> QED BY <2>3, <2>4
<1> DEFINE c == IF s[1] = "event" THEN cursor + 1 ELSE cursor
           t == Tail(s)
<1>5. c = IF k + 1 <= 3 THEN 0 ELSE IF k + 1 <= 6 THEN 1 ELSE 2
  <2>1. k \in 1..6 BY <1>3
  <2> QED BY <1>1, <1>2, <2>1, ScriptIs DEF AtStep
<1>6. s[1] \in OfScript
  <2>1. k = 1 \/ k = 2 \/ k = 3 \/ k = 4 \/ k = 5 \/ k = 6 BY <1>3
  <2> QED BY <1>2, <2>1, ScriptIs DEF OfScript
<1> HIDE DEF c, t
<1>7. AtStep(t, c, k + 1)
  <2>1. 8 - (k + 1) = 7 - k /\ \A i \in 1..(7 - k) : (k + 1) + i - 1 = k + i
    OBVIOUS
  <2> QED BY <1>4, <1>5, <2>1 DEF AtStep, t
<1>8. k + 1 \in 1..7 BY <1>3
<1> QED BY <1>6, <1>7, <1>8 DEF OnScript, c, t

\* Whoever comes to the callback knows of two events.
LEMMA ScriptEnds ==
  ASSUME NEW s, Shape(s), NEW cursor, OnScript(s, cursor), s[1] = "callback"
  PROVE  cursor = 2
<1>1. PICK k \in 1..7 : AtStep(s, cursor, k) BY DEF OnScript
<1>2. s[1] = Script[k]
  <2>1. 1 \in 1..(8 - k) /\ k + 1 - 1 = k OBVIOUS
  <2> QED BY <1>1, <2>1 DEF AtStep
<1>3. k = 7
  <2>1. k = 1 \/ k = 2 \/ k = 3 \/ k = 4 \/ k = 5 \/ k = 6 \/ k = 7 OBVIOUS
  <2> QED BY <1>2, <2>1, ScriptIs
<1> QED BY <1>1, <1>3 DEF AtStep

\* A step that leaves the run e where it was, takes it a step further, or is no step
\* of the script.
Keeps(e) ==
  run'[e].state = "live" /\ run'[e].verdict = "VERIFIED" =>
    \/ /\ run[e].state = "live" /\ run[e].verdict = "VERIFIED"
       /\ \/ run'[e].todo = run[e].todo /\ run'[e].cursor = run[e].cursor
          \/ /\ Shape(run[e].todo) /\ run[e].todo[1] # "callback"
             /\ run'[e].todo = Tail(run[e].todo)
             /\ run[e].todo[1] \in OfScript =>
                  run'[e].cursor = IF run[e].todo[1] = "event" THEN run[e].cursor + 1
                                   ELSE run[e].cursor
          \/ /\ Shape(run[e].todo)
             /\ run[e].todo[1] \notin OfScript \cup {"callback"}
    \/ run'[e].todo = Steps /\ run'[e].cursor = 0

\* Runs that start, go on or stay keep to the script.
LEMMA KeepsScript ==
  ASSUME IInv, RunsOnScript, kind' = kind, \A e \in Try : Keeps(e)
  PROVE  RunsOnScript'
<1> SUFFICES ASSUME kind = "run", NEW e \in Try,
                    run'[e].state = "live", run'[e].verdict = "VERIFIED"
             PROVE  OnScript(run'[e].todo, run'[e].cursor)
  BY DEF RunsOnScript, OnScript, AtStep
<1> DEFINE s == run[e].todo
           c == run[e].cursor
<1>1. CASE /\ run[e].state = "live" /\ run[e].verdict = "VERIFIED"
           /\ run'[e].todo = s /\ run'[e].cursor = c
  BY <1>1 DEF RunsOnScript
<1>2. CASE /\ run[e].state = "live" /\ run[e].verdict = "VERIFIED"
           /\ Shape(s) /\ s[1] # "callback" /\ run'[e].todo = Tail(s)
           /\ s[1] \in OfScript =>
                run'[e].cursor = IF s[1] = "event" THEN c + 1 ELSE c
  <2>1. OnScript(s, c) BY <1>2 DEF RunsOnScript
  <2> HIDE DEF s, c
  <2>2. /\ s[1] \in OfScript
        /\ OnScript(Tail(s), IF s[1] = "event" THEN c + 1 ELSE c)
    BY <1>2, <2>1, ScriptGoesOn
  <2> QED BY <1>2, <2>2
<1>4. CASE /\ run[e].state = "live" /\ run[e].verdict = "VERIFIED"
           /\ Shape(s) /\ s[1] \notin OfScript \cup {"callback"}
  <2>1. OnScript(s, c) BY <1>4 DEF RunsOnScript
  <2> HIDE DEF s, c
  <2> QED BY <1>4, <2>1, ScriptGoesOn
<1>3. CASE run'[e].todo = Steps /\ run'[e].cursor = 0
  <2>1. kind \in Kinds BY DEF IInv, TypeOK
  <2> QED BY <1>3, <2>1, ScriptStarts
<1> QED BY <1>1, <1>2, <1>3, <1>4 DEF Keeps

\* A run that fails reports no success.
LEMMA FailsAs ==
  ASSUME NEW r \in Run
  PROVE  Failing(r, "FAILED") \in Run /\ Failing(r, "FAILED").verdict = "FAILED"
<1> DEFINE c == <<"callback">>
           a == [r EXCEPT !.todo = c, !.verdict = "FAILED", !.tries = 0,
                          !.stale = r.told # r.cursor]
<1>1. c \in Seq(Operations) BY DEF Operations
<1>2. Failing(r, "FAILED") = a BY DEF Failing
<1> HIDE DEF c
<1>3. a \in Run /\ a.verdict = "FAILED" BY <1>1 DEF Run
<1> QED BY <1>2, <1>3

\* Every step of the runs keeps to the script.
LEMMA NextOnScript ==
  ASSUME IInv, RunsOnScript, Next
  PROVE  RunsOnScript'
<1>0. run \in [Try -> Run] BY DEF IInv, TypeOK
<1>1. ASSUME run' = run PROVE \A e \in Try : Keeps(e) BY <1>1 DEF Keeps
<1>2. ASSUME NEW d \in Try, NEW n, run' = [run EXCEPT ![d] = n],
             \/ n.state # "live" \/ n.verdict # "VERIFIED"
             \/ /\ n.state = run[d].state /\ n.verdict = run[d].verdict
                /\ n.todo = run[d].todo /\ n.cursor = run[d].cursor
             \/ n.todo = Steps /\ n.cursor = 0
      PROVE  \A e \in Try : Keeps(e)
  <2> SUFFICES ASSUME NEW e \in Try PROVE Keeps(e) OBVIOUS
  <2>1. CASE e = d BY <1>0, <1>2, <2>1 DEF Keeps
  <2>2. CASE e # d
    <3>1. run'[e] = run[e] BY <1>0, <1>2, <2>2
    <3> QED BY <3>1 DEF Keeps
  <2> QED BY <2>1, <2>2
<1>3. ASSUME NEW d \in Try, Accept(d) PROVE kind' = kind /\ \A e \in Try : Keeps(e)
  <2> DEFINE n == [NoRun EXCEPT !.state = "live", !.todo = Steps]
  <2>1. n.todo = Steps /\ n.cursor = 0 BY DEF NoRun
  <2> HIDE DEF n
  <2>2. kind' = kind /\ (run' = run \/ run' = [run EXCEPT ![d] = n])
    BY <1>3 DEF Accept, n
  <2> QED BY <1>1, <1>2, <2>1, <2>2
<1>4. ASSUME NEW d \in Try, Abort(d) \/ Ask(d)
      PROVE  kind' = kind /\ \A e \in Try : Keeps(e)
  <2> DEFINE a == [run[d] EXCEPT !.aborted = TRUE]
             b == [run[d] EXCEPT !.asked = TRUE]
  <2>1. run[d] \in Run BY <1>0
  <2>2. /\ a.state = run[d].state /\ a.verdict = run[d].verdict
        /\ a.todo = run[d].todo /\ a.cursor = run[d].cursor
        /\ b.state = run[d].state /\ b.verdict = run[d].verdict
        /\ b.todo = run[d].todo /\ b.cursor = run[d].cursor
    BY <2>1 DEF Run
  <2>3. kind' = kind /\ (run' = [run EXCEPT ![d] = a] \/ run' = [run EXCEPT ![d] = b])
    BY <1>0, <1>4 DEF Abort, Ask
  <2> HIDE DEF a, b
  <2> QED BY <1>2, <2>2, <2>3
<1>5. ASSUME NEW d \in Try, End(d) PROVE kind' = kind /\ \A e \in Try : Keeps(e)
  <2> DEFINE n == Ended(run[d], "done")
  <2>1. run' = [run EXCEPT ![d] = n] /\ kind' = kind BY <1>0, <1>5 DEF End
  <2>2. n.state = "done" BY <1>0, EndedFacts
  <2> HIDE DEF n
  <2> QED BY <1>2, <2>1, <2>2
<1>6. ASSUME Down PROVE kind' = kind /\ \A e \in Try : Keeps(e)
  <2>1. kind' = kind BY <1>6 DEF Down
  <2>2. ASSUME NEW e \in Try PROVE Keeps(e)
    <3>1. run'[e] = IF e \in Live THEN Ended(run[e], "killed") ELSE run[e]
      BY <1>6 DEF Down
    <3>2. Ended(run[e], "killed").state = "killed" BY <1>0, EndedFacts
    <3> QED BY <3>1, <3>2 DEF Keeps
  <2> QED BY <2>1, <2>2
<1>7. ASSUME NEW d \in Try, TimeOut(d) \/ LoseAnswer(d)
      PROVE  kind' = kind /\ \A e \in Try : Keeps(e)
  <2>1. /\ kind' = kind
        /\ \E result \in Results, next \in Nat :
             run' = [run EXCEPT ![d] = [@ EXCEPT !.result = result, !.next = next,
                                                 !.doubt = TRUE]]
    <3>1. CASE TimeOut(d)
      <4> DEFINE a == [run[d] EXCEPT !.result = "lost", !.doubt = TRUE]
                 b == [run[d] EXCEPT !.result = "lost", !.next = run[d].next,
                                     !.doubt = TRUE]
      <4>1. run[d] \in Run /\ run[d].next \in Nat BY <1>0 DEF Run
      <4>2. a = b BY <4>1 DEF Run
      <4>3. run' = [run EXCEPT ![d] = a] /\ kind' = kind
        BY <1>0, <3>1 DEF TimeOut
      <4> QED BY <4>1, <4>2, <4>3 DEF Results
    <3>2. CASE LoseAnswer(d)
      <4>1. PICK result \in {"lost", "error"} :
              run' = [run EXCEPT ![d].result = result, ![d].next = 0, ![d].doubt = TRUE]
        BY <3>2 DEF LoseAnswer
      <4>2. kind' = kind BY <3>2 DEF LoseAnswer
      <4>3. run' = [run EXCEPT ![d] = [@ EXCEPT !.result = result, !.next = 0,
                                                !.doubt = TRUE]]
        BY <1>0, <4>1
      <4> QED BY <4>2, <4>3 DEF Results
    <3> QED BY <1>7, <3>1, <3>2
  <2>2. PICK result \in Results, next \in Nat :
          run' = [run EXCEPT ![d] = [@ EXCEPT !.result = result, !.next = next,
                                              !.doubt = TRUE]]
    BY <2>1
  <2> DEFINE n == [run[d] EXCEPT !.result = result, !.next = next, !.doubt = TRUE]
  <2>3. run' = [run EXCEPT ![d] = n] BY <1>0, <2>2
  <2>4. /\ n.state = run[d].state /\ n.verdict = run[d].verdict
        /\ n.todo = run[d].todo /\ n.cursor = run[d].cursor
    BY <1>0 DEF Run
  <2> HIDE DEF n
  <2> QED BY <1>2, <2>1, <2>3, <2>4
<1>8. ASSUME NEW q \in net, Serve(q) PROVE kind' = kind /\ \A e \in Try : Keeps(e)
  <2>1. PICK result, next : Answer(q, result, next)
    BY <1>8 DEF Serve, ServeObject, ServeStart, ServeEvent, ServeCandidate, ServeResume,
                ServeCallback, Refuse, ServeError
  <2> DEFINE n == [run[q.by] EXCEPT !.result = result, !.next = next,
                                    !.doubt = @ \/ result = "error"]
  <2>2. /\ q.by \in Try /\ run[q.by] \in Run
    BY <1>0 DEF IInv, TypeOK, Request
  <2>3. /\ n.state = run[q.by].state /\ n.verdict = run[q.by].verdict
        /\ n.todo = run[q.by].todo /\ n.cursor = run[q.by].cursor
    BY <2>2 DEF Run
  <2>4. kind' = kind /\ (run' = run \/ run' = [run EXCEPT ![q.by] = n])
    BY <1>0, <2>1, <2>2 DEF Answer
  <2> HIDE DEF n
  <2> QED BY <1>1, <1>2, <2>2, <2>3, <2>4
<1>9. ASSUME NEW d \in Live
      PROVE  /\ d \in Try /\ run[d] \in Run /\ run[d].state = "live"
             /\ Shape(run[d].todo) /\ Head(run[d].todo) = run[d].todo[1]
             /\ run[d].verdict # "VERIFIED" => run[d].todo = <<"callback">>
  BY <1>9, LiveFacts DEF Sound
<1>10. ASSUME NEW d \in Live, NEW t, NEW c,
              run'[d].todo = t, run'[d].cursor = c, run'[d].verdict = run[d].verdict,
              \A e \in Try \ {d} : run'[e] = run[e], run[d].todo[1] # "callback",
              \/ t = Tail(run[d].todo) /\ c = IF run[d].todo[1] = "event"
                                              THEN run[d].cursor + 1 ELSE run[d].cursor
              \/ run[d].todo[1] \notin OfScript
       PROVE  \A e \in Try : Keeps(e)
  <2> SUFFICES ASSUME NEW e \in Try PROVE Keeps(e) OBVIOUS
  <2>1. CASE e = d BY <1>9, <1>10, <2>1 DEF Keeps
  <2>2. CASE e # d BY <1>10, <2>2 DEF Keeps
  <2> QED BY <2>1, <2>2
<1>11. ASSUME NEW d \in Try, Continue(d) PROVE kind' = kind /\ \A e \in Try : Keeps(e)
  <2>1. d \in Live BY <1>11 DEF Continue, Doing
  <2> DEFINE r == run[d]
             c == Cursor(r, r.todo[1])
             told == Told(r, r.todo[1], Tail(r.todo), c)
             n == [[r EXCEPT !.todo = Tail(r.todo), !.cursor = c, !.told = told]
                   EXCEPT !.asked = FALSE, !.result = "none", !.next = 0]
  <2>2. run' = [run EXCEPT ![d] = n] /\ kind' = kind
    BY <1>9, <1>11, <2>1 DEF Continue, Goes
  <2>3. r.todo[1] # "callback" BY <1>9, <1>11, <2>1 DEF Continue, Doing
  <2>4. r.todo[1] \in OfScript =>
          c = IF r.todo[1] = "event" THEN r.cursor + 1 ELSE r.cursor
    BY DEF Cursor, Events, OfScript
  <2>5. n.todo = Tail(r.todo) /\ n.cursor = c /\ n.verdict = r.verdict
    <3> HIDE DEF c, told
    <3> QED BY <1>9, <2>1 DEF Run
  <2> HIDE DEF n, c, told
  <2>6. run'[d] = n /\ \A e \in Try \ {d} : run'[e] = run[e] BY <1>0, <2>2
  <2> QED BY <1>10, <2>1, <2>2, <2>3, <2>4, <2>5, <2>6
<1>12. ASSUME NEW d \in Try, Finish(d) PROVE kind' = kind /\ \A e \in Try : Keeps(e)
  <2>1. d \in Live BY <1>12 DEF Finish, Doing
  <2> DEFINE r == run[d]
             n == [[r EXCEPT !.todo = Tail(r.todo), !.told = r.cursor]
                   EXCEPT !.asked = FALSE, !.result = "none", !.next = 0]
  <2>2. run' = [run EXCEPT ![d] = n] /\ kind' = kind
    BY <1>9, <1>12, <2>1 DEF Finish, Goes
  <2>3. r.todo[1] \in {"compile", "work"}
    BY <1>9, <1>12, <2>1 DEF Finish, Doing, Local
  <2>4. n.todo = Tail(r.todo) /\ n.cursor = r.cursor /\ n.verdict = r.verdict
    BY <1>9, <2>1 DEF Run
  <2> HIDE DEF n
  <2>5. run'[d] = n /\ \A e \in Try \ {d} : run'[e] = run[e] BY <1>0, <2>2
  <2> QED BY <1>10, <2>1, <2>2, <2>3, <2>4, <2>5
<1>13. ASSUME NEW d \in Try, NEW r \in Run, Goes(d, r),
              d \in Live,
              r.verdict # "VERIFIED"
                \/ (r.todo = run[d].todo /\ r.cursor = run[d].cursor
                      /\ r.verdict = run[d].verdict /\ r.state = run[d].state)
       PROVE  kind' = kind /\ \A e \in Try : Keeps(e)
  <2> DEFINE n == [r EXCEPT !.asked = FALSE, !.result = "none", !.next = 0]
  <2>1. run' = [run EXCEPT ![d] = n] /\ kind' = kind BY <1>13 DEF Goes
  <2>2. /\ n.todo = r.todo /\ n.cursor = r.cursor /\ n.verdict = r.verdict
        /\ n.state = r.state
    BY DEF Run
  <2> HIDE DEF n
  <2> QED BY <1>2, <1>13, <2>1, <2>2
<1>14. ASSUME NEW d \in Try, Judged(d) PROVE kind' = kind /\ \A e \in Try : Keeps(e)
  <2>1. d \in Live /\ kind' = kind BY <1>14 DEF Judged, Doing, Goes
  <2>2. run[d].todo[1] = "candidate" BY <1>9, <1>14, <2>1 DEF Judged, Doing
  <2>3. \A e \in Try \ {d} : run'[e] = run[e] BY <1>0, <1>14 DEF Judged, Goes
  <2>4. run[d].verdict = "VERIFIED" /\ run[d].state = "live" /\ Shape(run[d].todo)
    BY <1>9, <2>1, <2>2
  <2>5. "candidate" \notin OfScript \cup {"callback"} BY DEF OfScript
  <2>6. ASSUME NEW e \in Try PROVE Keeps(e)
    <3>1. CASE e = d BY <2>2, <2>4, <2>5, <3>1 DEF Keeps
    <3>2. CASE e # d BY <2>3, <3>2 DEF Keeps
    <3> QED BY <3>1, <3>2
  <2> QED BY <2>1, <2>6
<1>15. ASSUME NEW d \in Try, Yield(d) PROVE kind' = kind /\ \A e \in Try : Keeps(e)
  <2>1. d \in Live /\ kind' = kind BY <1>15 DEF Yield, Doing, Goes
  <2>2. run[d].todo[1] = "compile" BY <1>9, <1>15, <2>1 DEF Yield, Doing
  <2>3. \A e \in Try \ {d} : run'[e] = run[e] BY <1>0, <1>15 DEF Yield, Goes
  <2>4. run[d].verdict = "VERIFIED" /\ run[d].state = "live" /\ Shape(run[d].todo)
    BY <1>9, <2>1, <2>2
  <2>5. "compile" \notin OfScript \cup {"callback"} BY DEF OfScript
  <2>6. ASSUME NEW e \in Try PROVE Keeps(e)
    <3>1. CASE e = d BY <2>2, <2>4, <2>5, <3>1 DEF Keeps
    <3>2. CASE e # d BY <2>3, <3>2 DEF Keeps
    <3> QED BY <3>1, <3>2
  <2> QED BY <2>1, <2>6
<1>16. ASSUME NEW d \in Try, Caught(d) \/ GiveUpVerified(d) \/ Stumble(d) \/ Resend(d)
       PROVE  kind' = kind /\ \A e \in Try : Keeps(e)
  <2>1. d \in Live BY <1>16 DEF Caught, GiveUpVerified, Stumble, Resend, Doing
  <2>2. PICK r \in Run :
          /\ Goes(d, r)
          /\ r.verdict # "VERIFIED"
               \/ (r.todo = run[d].todo /\ r.cursor = run[d].cursor
                     /\ r.verdict = run[d].verdict /\ r.state = run[d].state)
    <3>1. CASE Caught(d) \/ GiveUpVerified(d)
      <4> DEFINE r == Failing(run[d], "FAILED")
      <4>1. Goes(d, r) BY <3>1 DEF Caught, GiveUpVerified
      <4>2. run[d] \in Run BY <1>0
      <4>3. r \in Run /\ r.verdict = "FAILED" BY <4>2, FailsAs
      <4> QED BY <4>1, <4>3
    <3>2. CASE Stumble(d)
      <4> DEFINE r == Failing([run[d] EXCEPT !.stumbled = TRUE], "FAILED")
      <4>1. Goes(d, r) BY <3>2 DEF Stumble
      <4>2. [run[d] EXCEPT !.stumbled = TRUE] \in Run BY <1>0 DEF Run
      <4>3. r \in Run /\ r.verdict = "FAILED" BY <4>2, FailsAs
      <4> QED BY <4>1, <4>3
    <3>3. CASE Resend(d)
      <4> DEFINE k == IF run[d].tries + 1 < CallbackTries THEN run[d].tries + 1
                      ELSE run[d].tries
                 r == [run[d] EXCEPT !.tries = k]
      <4>1. Goes(d, r) BY <3>3 DEF Resend
      <4>2. k \in Nat BY <2>1, LiveFacts
      <4> HIDE DEF k
      <4>3. /\ r \in Run /\ r.todo = run[d].todo /\ r.cursor = run[d].cursor
            /\ r.verdict = run[d].verdict /\ r.state = run[d].state
        BY <2>1, <1>9, <4>2 DEF Run
      <4> QED BY <4>1, <4>3
    <3> QED BY <1>16, <3>1, <3>2, <3>3
  <2> QED BY <1>13, <2>1, <2>2
<1>17. kind' = kind /\ \A e \in Try : Keeps(e)
  <2>1. ASSUME NEW d \in Try, FallSilent(d) \/ Settle(d) PROVE End(d)
    BY <2>1 DEF FallSilent, Settle
  <2>2. ASSUME Exit \/ Crash PROVE Down BY <2>2 DEF Exit, Crash
  <2>3. ASSUME NEW d \in Try, Post(d) PROVE kind' = kind /\ run' = run
    BY <2>3 DEF Post
  <2>4. ASSUME Close PROVE kind' = kind /\ run' = run BY <2>4 DEF Close
  <2> QED BY <1>1, <1>3, <1>4, <1>5, <1>6, <1>7, <1>8, <1>11, <1>12, <1>14, <1>15, <1>16,
             <2>1, <2>2, <2>3, <2>4 DEF Next
<1> QED BY <1>17, KeepsScript

\* Every callback that reports success is asked at the end of the script.
LEMMA NextCloses ==
  ASSUME IInv, RunsOnScript, ScientificRunCloses, Next
  PROVE  ScientificRunCloses'
<1>1. ASSUME NEW p \in net', p \in Request,
             \E q \in net : p.op = q.op /\ p.cursor = q.cursor /\ p.verdict = q.verdict,
             kind' = "run", kind' = kind, p.op = "callback", p.verdict = "VERIFIED"
      PROVE  p.cursor = 2
  BY <1>1 DEF ScientificRunCloses
<1>2. ASSUME NEW ds, Abandon(ds), kind' = kind PROVE ScientificRunCloses'
  BY <1>1, <1>2, AbandonFacts DEF ScientificRunCloses
<1>3. ASSUME net' \subseteq net, kind' = kind PROVE ScientificRunCloses'
  BY <1>3 DEF ScientificRunCloses
<1>4. ASSUME NEW d \in Try, Ask(d) PROVE ScientificRunCloses'
  <2> SUFFICES ASSUME kind = "run", NEW p \in net' \ net,
                      p.op = "callback", p.verdict = "VERIFIED"
               PROVE  p.cursor = 2
    BY <1>4 DEF ScientificRunCloses, Ask
  <2> DEFINE r == run[d]
  <2>1. d \in Live BY <1>4 DEF Ask, Doing
  <2>2. /\ Shape(r.todo) /\ Head(r.todo) = r.todo[1] /\ r.state = "live" /\ d \in Try
    BY <2>1, LiveFacts
  <2>3. p = [by |-> d, op |-> r.todo[1], attempt |-> r.repairs + 1,
             verdict |-> r.verdict, awaited |-> TRUE,
             cursor |-> IF r.todo[1] \in Events THEN r.cursor + 1
                        ELSE IF r.verdict = "VERIFIED" THEN r.cursor ELSE r.told]
    BY <1>4, <2>2 DEF Ask
  <2>4. r.todo[1] = "callback" /\ r.verdict = "VERIFIED" /\ p.cursor = r.cursor
    BY <2>3 DEF Events
  <2>5. OnScript(r.todo, r.cursor) BY <2>2, <2>4 DEF RunsOnScript
  <2> HIDE DEF r
  <2> QED BY <2>2, <2>4, <2>5, ScriptEnds
<1>5. ASSUME NEW d \in Try, End(d) PROVE ScientificRunCloses' BY <1>2, <1>5 DEF End
<1>6. ASSUME NEW d \in Try, TimeOut(d) PROVE ScientificRunCloses'
  BY <1>2, <1>6 DEF TimeOut
<1>7. ASSUME NEW q \in net, Serve(q) PROVE ScientificRunCloses'
  <2>1. PICK result, next : Answer(q, result, next)
    BY <1>7 DEF Serve, ServeObject, ServeStart, ServeEvent, ServeCandidate, ServeResume,
                ServeCallback, Refuse, ServeError
  <2> QED BY <1>3, <2>1 DEF Answer
<1>8. ASSUME Down PROVE ScientificRunCloses' BY <1>2, <1>8 DEF Down
<1>9. ASSUME NEW d \in Try,
             \/ Post(d) \/ Accept(d) \/ Abort(d) \/ LoseAnswer(d) \/ Continue(d)
             \/ Judged(d) \/ Caught(d) \/ Resend(d) \/ GiveUpVerified(d) \/ Yield(d)
             \/ Finish(d) \/ Stumble(d) \/ Close
      PROVE  net' = net /\ kind' = kind
  BY <1>9 DEF Post, Accept, Abort, LoseAnswer, Continue, Judged, Caught, Resend,
              GiveUpVerified, Yield, Finish, Stumble, Close, Goes
<1>10. ASSUME NEW d \in Try, FallSilent(d) \/ Settle(d) PROVE End(d)
  BY <1>10 DEF FallSilent, Settle
<1>11. ASSUME Exit \/ Crash PROVE Down BY <1>11 DEF Exit, Crash
<1>12. ASSUME Close PROVE net' = net /\ kind' = kind BY <1>12 DEF Close
<1> QED BY <1>3, <1>4, <1>5, <1>6, <1>7, <1>8, <1>9, <1>10, <1>11, <1>12 DEF Next

\* A scientific run's success always closes with its two events: what module
\* RunnerJob's theorem WitnessCorrect assumes of the runner.
THEOREM ScientificRunCorrect == Spec => []ScientificRunCloses
<1> DEFINE CInv == IInv /\ RunsOnScript /\ ScientificRunCloses
<1>1. Init => CInv
  <2> SUFFICES ASSUME Init PROVE RunsOnScript /\ ScientificRunCloses
    BY InitSound
  <2>1. net = {} /\ \A d \in Try : run[d].state = "none" BY DEF Init, NoRun
  <2> QED BY <2>1 DEF RunsOnScript, ScientificRunCloses
<1>2. CInv /\ [Next]_vars => CInv'
  <2> SUFFICES ASSUME CInv, [Next]_vars PROVE CInv' OBVIOUS
  <2>1. IInv' BY NextKeeps
  <2>2. CASE Next BY <2>1, <2>2, NextOnScript, NextCloses
  <2>3. CASE UNCHANGED vars
    BY <2>1, <2>3 DEF vars, RunsOnScript, OnScript, AtStep, ScientificRunCloses
  <2> QED BY <2>2, <2>3
<1>3. CInv => ScientificRunCloses OBVIOUS
<1> HIDE DEF CInv
<1> QED BY <1>1, <1>2, <1>3, PTL DEF Spec

\* Whatever the dispatcher tries twice, at most one run of the job is live at a time.
THEOREM OneRunAtATime == Spec => []OneLive
<1>1. IInv => OneLive BY DEF IInv
<1> QED BY <1>1, Invariance, PTL
=============================================================================
