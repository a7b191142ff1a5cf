------------------------ MODULE ToolLifecycle_proofs ------------------------
(***************************************************************************)
(* Theorems about ToolLifecycle, for an AR.Drone with and without a second *)
(* video thread and with all the threads of the Academy: type correctness, *)
(* that the codec is closed only after the threads that use it have ended, *)
(* and which threads have ended when the end is reported, although two     *)
(* threads shut the library down and only one of them awaits each thread.  *)
(*                                                                         *)
(* The argument follows the programs of the callers.  What is said of the  *)
(* rest of a program is said so that it also holds of its tail.            *)
(***************************************************************************)
EXTENDS ToolLifecycle, SequenceTheorems, TLAPS

Ops == {"start", "connected", "suspend", "resume", "exit", "stop", "signal", "join", "close",
        "shutdown", "disconnected"}
Steps == [op : Ops, thread : Threads \cup {"none"}]
Users == {"ardrone_control", "navdata_update"}   \* the threads that queue AT commands

-----------------------------------------------------------------------------
(* Programs.                                                               *)

Closes(p) == \E i \in 1 .. Len(p) : p[i].op = "close"
Has(p, step) == \E i \in 1 .. Len(p) : p[i] = step

\* No user of the codec is awaited after it is closed.
UserJoin(step) == \E t \in Users : step = Step("join", t)
Joins(p) == \E i \in 1 .. Len(p) : UserJoin(p[i])
JoinsFirst(p) == \A i, j \in 1 .. Len(p) : i < j /\ p[i].op = "close" => ~UserJoin(p[j])

StartsNothing(p) == \A i \in 1 .. Len(p) : p[i].op \notin {"start", "connected"}

LEMMA TailFacts ==
    ASSUME NEW S, NEW p \in Seq(S), p # <<>>
    PROVE  /\ Len(p) \in Nat \ {0} /\ Head(p) = p[1]
           /\ Tail(p) \in Seq(S) /\ Len(Tail(p)) = Len(p) - 1
           /\ \A i \in 1 .. Len(p) - 1 : Tail(p)[i] = p[i + 1]
  BY HeadTailProperties, EmptySeq, LenProperties

LEMMA TailJoinsFirst ==
    ASSUME NEW S, NEW p \in Seq(S), p # <<>>, JoinsFirst(p)
    PROVE  JoinsFirst(Tail(p))
<1>1. /\ Len(p) \in Nat \ {0} /\ Len(Tail(p)) = Len(p) - 1
      /\ \A i \in 1 .. Len(p) - 1 : Tail(p)[i] = p[i + 1]
  BY TailFacts
<1> SUFFICES ASSUME NEW i \in 1 .. Len(p) - 1, NEW j \in 1 .. Len(p) - 1,
                    i < j, Tail(p)[i].op = "close"
             PROVE  ~UserJoin(Tail(p)[j])
  BY <1>1 DEF JoinsFirst
<1>2. /\ i + 1 \in 1 .. Len(p) /\ j + 1 \in 1 .. Len(p) /\ i + 1 < j + 1
      /\ Tail(p)[i] = p[i + 1] /\ Tail(p)[j] = p[j + 1]
  BY <1>1 DEF JoinsFirst
<1> QED
  BY <1>2 DEF JoinsFirst

LEMMA TailStartsNothing ==
    ASSUME NEW S, NEW p \in Seq(S), p # <<>>, StartsNothing(p)
    PROVE  StartsNothing(Tail(p))
  BY TailFacts DEF StartsNothing

LEMMA TailCloses ==
    ASSUME NEW S, NEW p \in Seq(S), p # <<>>, Closes(Tail(p))
    PROVE  Closes(p)
<1>0. /\ Len(p) \in Nat \ {0} /\ Len(Tail(p)) = Len(p) - 1
      /\ \A i \in 1 .. Len(p) - 1 : Tail(p)[i] = p[i + 1]
  BY TailFacts
<1>1. PICK i \in 1 .. Len(p) - 1 : Tail(p)[i].op = "close"
  BY <1>0 DEF Closes
<1>2. i + 1 \in 1 .. Len(p) /\ p[i + 1].op = "close"
  BY <1>0, <1>1 DEF Closes
<1> QED
  BY <1>2 DEF Closes

LEMMA TailHas ==
    ASSUME NEW S, NEW p \in Seq(S), p # <<>>, NEW step, Has(p, step), Head(p) # step
    PROVE  Has(Tail(p), step)
<1>1. PICK i \in 1 .. Len(p) : p[i] = step
  BY DEF Has
<1>2. i # 1
  BY <1>1, TailFacts
<1>3. i - 1 \in 1 .. Len(Tail(p)) /\ Tail(p)[i - 1] = p[i]
  BY <1>2, TailFacts
<1> QED
  BY <1>1, <1>3 DEF Has

LEMMA TailAwaits ==
    ASSUME NEW S, NEW p \in Seq(S), p # <<>>, NEW t,
           Awaits(p, t), Head(p) # Step("join", t)
    PROVE  Awaits(Tail(p), t)
<1>1. Has(p, Step("join", t))
  BY DEF Awaits, Has
<1>2. Has(Tail(p), Step("join", t))
  BY <1>1, TailHas
<1> QED
  BY <1>2 DEF Awaits, Has

\* Where the codec is about to be closed, none of its users is awaited any more.
LEMMA HeadCloses ==
    ASSUME NEW S, NEW p \in Seq(S), p # <<>>, JoinsFirst(p),
           Head(p).op = "close", NEW t \in Users
    PROVE  Closes(p) /\ ~Awaits(p, t)
<1>0. Len(p) \in Nat \ {0} /\ Head(p) = p[1]
  BY TailFacts
<1>1. 1 \in 1 .. Len(p) /\ p[1].op = "close"
  BY <1>0
<1>2. ASSUME NEW i \in 1 .. Len(p), p[i] = Step("join", t)
      PROVE  FALSE
  <2>1. p[i].op = "join" /\ UserJoin(p[i])
    <3>1. Step("join", t).op = "join"
      BY DEF Step
    <3> QED
      BY <1>2, <3>1 DEF UserJoin
  <2>2. i # 1
    BY <1>1, <2>1
  <2>3. 1 < i
    BY <1>0, <2>2
  <2> QED
    BY <1>1, <2>1, <2>3 DEF JoinsFirst
<1> QED
  BY <1>1, <1>2 DEF Closes, Awaits

LEMMA ConcatFacts ==
    ASSUME NEW S, NEW p \in Seq(S), NEW q \in Seq(S)
    PROVE  /\ p \o q \in Seq(S) /\ Len(p \o q) = Len(p) + Len(q)
           /\ Len(p) \in Nat /\ Len(q) \in Nat
           /\ \A i \in 1 .. Len(p) : i \in 1 .. Len(p \o q) /\ (p \o q)[i] = p[i]
           /\ \A i \in 1 .. Len(q) : /\ Len(p) + i \in 1 .. Len(p \o q)
                                      /\ (p \o q)[Len(p) + i] = q[i]
           /\ \A i \in 1 .. Len(p \o q) :
                 \/ i <= Len(p) /\ i \in 1 .. Len(p) /\ (p \o q)[i] = p[i]
                 \/ i > Len(p) /\ i - Len(p) \in 1 .. Len(q) /\ (p \o q)[i] = q[i - Len(p)]
<1>1. /\ p \o q \in Seq(S) /\ Len(p \o q) = Len(p) + Len(q)
      /\ \A i \in 1 .. Len(p) + Len(q) : (p \o q)[i] = IF i <= Len(p) THEN p[i] ELSE q[i - Len(p)]
      /\ Len(p) \in Nat /\ Len(q) \in Nat
  BY ConcatProperties, LenProperties
<1>2. ASSUME NEW i \in 1 .. Len(p)
      PROVE  i \in 1 .. Len(p \o q) /\ (p \o q)[i] = p[i]
  BY <1>1
<1>3. ASSUME NEW i \in 1 .. Len(q)
      PROVE  Len(p) + i \in 1 .. Len(p \o q) /\ (p \o q)[Len(p) + i] = q[i]
  <2>1. Len(p) + i \in 1 .. Len(p) + Len(q) /\ ~(Len(p) + i <= Len(p)) /\ Len(p) + i - Len(p) = i
    BY <1>1
  <2> QED
    BY <1>1, <2>1
<1>4. ASSUME NEW i \in 1 .. Len(p \o q)
      PROVE  \/ i <= Len(p) /\ i \in 1 .. Len(p) /\ (p \o q)[i] = p[i]
             \/ i > Len(p) /\ i - Len(p) \in 1 .. Len(q) /\ (p \o q)[i] = q[i - Len(p)]
  BY <1>1
<1> QED
  BY <1>1, <1>2, <1>3, <1>4

LEMMA ConcatHas ==
    ASSUME NEW S, NEW p \in Seq(S), NEW q \in Seq(S), NEW step, Has(p, step) \/ Has(q, step)
    PROVE  Has(p \o q, step)
<1>1. CASE Has(p, step)
  <2>1. PICK i \in 1 .. Len(p) : p[i] = step
    BY <1>1 DEF Has
  <2>2. i \in 1 .. Len(p \o q) /\ (p \o q)[i] = p[i]
    BY ConcatFacts
  <2> QED
    BY <2>1, <2>2 DEF Has
<1>2. CASE Has(q, step)
  <2>1. PICK i \in 1 .. Len(q) : q[i] = step
    BY <1>2 DEF Has
  <2>2. Len(p) + i \in 1 .. Len(p \o q) /\ (p \o q)[Len(p) + i] = q[i]
    BY ConcatFacts
  <2> QED
    BY <2>1, <2>2 DEF Has
<1> QED
  BY <1>1, <1>2

LEMMA ConcatAwaits ==
    ASSUME NEW S, NEW p \in Seq(S), NEW q \in Seq(S), NEW t, Awaits(p, t) \/ Awaits(q, t)
    PROVE  Awaits(p \o q, t)
<1>1. Has(p, Step("join", t)) \/ Has(q, Step("join", t))
  BY DEF Awaits, Has
<1>2. Has(p \o q, Step("join", t))
  BY <1>1, ConcatHas
<1> QED
  BY <1>2 DEF Awaits, Has

LEMMA ConcatStartsNothing ==
    ASSUME NEW S, NEW p \in Seq(S), NEW q \in Seq(S), StartsNothing(p), StartsNothing(q)
    PROVE  StartsNothing(p \o q)
<1>1. ASSUME NEW i \in 1 .. Len(p \o q)
      PROVE  (p \o q)[i].op \notin {"start", "connected"}
  <2>1. \/ i \in 1 .. Len(p) /\ (p \o q)[i] = p[i]
        \/ i - Len(p) \in 1 .. Len(q) /\ (p \o q)[i] = q[i - Len(p)]
    BY ConcatFacts
  <2> QED
    BY <2>1 DEF StartsNothing
<1> QED
  BY <1>1 DEF StartsNothing

LEMMA ConcatCloses ==
    ASSUME NEW S, NEW p \in Seq(S), NEW q \in Seq(S), ~Closes(p), ~Closes(q)
    PROVE  ~Closes(p \o q)
<1>1. ASSUME NEW i \in 1 .. Len(p \o q)
      PROVE  (p \o q)[i].op # "close"
  <2>1. \/ i \in 1 .. Len(p) /\ (p \o q)[i] = p[i]
        \/ i - Len(p) \in 1 .. Len(q) /\ (p \o q)[i] = q[i - Len(p)]
    BY ConcatFacts
  <2> QED
    BY <2>1 DEF Closes
<1> QED
  BY <1>1 DEF Closes

LEMMA ConcatJoinsFirst ==
    ASSUME NEW S, NEW p \in Seq(S), NEW q \in Seq(S), JoinsFirst(p), JoinsFirst(q),
           ~Closes(p) \/ ~Joins(q)
    PROVE  JoinsFirst(p \o q)
<1> SUFFICES ASSUME NEW i \in 1 .. Len(p \o q), NEW j \in 1 .. Len(p \o q),
                    i < j, (p \o q)[i].op = "close"
             PROVE  ~UserJoin((p \o q)[j])
  BY DEF JoinsFirst
<1>1. /\ i \in Nat /\ j \in Nat /\ Len(p) \in Nat
      /\ \/ i <= Len(p) /\ i \in 1 .. Len(p) /\ (p \o q)[i] = p[i]
         \/ i > Len(p) /\ i - Len(p) \in 1 .. Len(q) /\ (p \o q)[i] = q[i - Len(p)]
      /\ \/ j <= Len(p) /\ j \in 1 .. Len(p) /\ (p \o q)[j] = p[j]
         \/ j > Len(p) /\ j - Len(p) \in 1 .. Len(q) /\ (p \o q)[j] = q[j - Len(p)]
  BY ConcatFacts DEF JoinsFirst, Closes, Joins
<1>2. CASE j <= Len(p)
  <2>1. i <= Len(p)
    BY <1>1, <1>2 DEF JoinsFirst, Closes, Joins
  <2> QED
    BY <1>1, <1>2, <2>1 DEF JoinsFirst, Closes, Joins
<1>3. CASE i <= Len(p) /\ j > Len(p)
  <2>1. Closes(p)
    BY <1>1, <1>3 DEF JoinsFirst, Closes, Joins
  <2> QED
    BY <1>1, <1>3, <2>1 DEF JoinsFirst, Closes, Joins
<1>4. CASE i > Len(p)
  <2>1. j > Len(p) /\ i - Len(p) < j - Len(p)
    BY <1>1, <1>4 DEF JoinsFirst, Closes, Joins
  <2> QED
    BY <1>1, <1>4, <2>1 DEF JoinsFirst, Closes, Joins
<1> QED
  BY <1>1, <1>2, <1>3, <1>4

-----------------------------------------------------------------------------
(* The procedures of the library as programs.                              *)

\* What a program installed after the start has to satisfy.
Sound(p) == /\ p \in Seq(Steps) /\ JoinsFirst(p) /\ StartsNothing(p)
            /\ Closes(p) => \A t \in Users : Awaits(p, t)

LEMMA VideoFacts ==
    /\ VideoThreads \in Seq(Threads) /\ Len(VideoThreads) \in Nat
    /\ \A t \in Video : \E i \in 1 .. Len(VideoThreads) : VideoThreads[i] = t
<1>1. VideoThreads \in Seq(Video)
  <2>1. CASE VideoThreads = <<"video_stage">>
    BY <2>1 DEF Video
  <2>2. CASE VideoThreads = <<"video_stage", "video_recorder">>
    BY <2>2 DEF Video
  <2> QED
    BY <2>1, <2>2, VideoAssumption
<1>2. DOMAIN VideoThreads = 1 .. Len(VideoThreads) /\ Len(VideoThreads) \in Nat
  BY <1>1, LenProperties
<1>3. \A t \in Video : \E i \in 1 .. Len(VideoThreads) : VideoThreads[i] = t
  BY <1>2 DEF Video
<1>4. VideoThreads \in Seq(Threads)
  <2>1. Video \subseteq Threads
    BY DEF Threads, Sleepers, Pausable
  <2> QED
    BY <1>1, <2>1, SeqMonotonic
<1> QED
  BY <1>2, <1>3, <1>4

LEMMA AcademyFacts ==
    /\ AcademyThreads \in Seq(Threads) /\ Len(AcademyThreads) \in Nat
    /\ \A t \in Academy : \E i \in 1 .. Len(AcademyThreads) : AcademyThreads[i] = t
<1>1. AcademyThreads \in Seq(Academy)
  <2>1. CASE AcademyThreads = <<"academy_download">>
    BY <2>1 DEF Academy
  <2>2. CASE AcademyThreads = <<"academy_download", "academy", "academy_upload">>
    BY <2>2 DEF Academy
  <2> QED
    BY <2>1, <2>2, AcademyAssumption
<1>2. DOMAIN AcademyThreads = 1 .. Len(AcademyThreads) /\ Len(AcademyThreads) \in Nat
  BY <1>1, LenProperties
<1>3. \A t \in Academy : \E i \in 1 .. Len(AcademyThreads) : AcademyThreads[i] = t
  BY <1>2 DEF Academy
<1>4. AcademyThreads \in Seq(Threads)
  <2>1. Academy \subseteq Threads
    BY DEF Threads, Sleepers, Pausable
  <2> QED
    BY <1>1, <2>1, SeqMonotonic
<1> QED
  BY <1>2, <1>3, <1>4

\* Users of the codec, and threads of the Academy, are threads of their own.
LEMMA ThreadFacts ==
    /\ "academy_download" \in Academy
    /\ Users \subseteq Threads /\ Academy \subseteq Threads /\ Pausable \subseteq Threads
    /\ Users \cap Academy = {}
<1>1. Academy \in {{"academy_download"}, {"academy_download", "academy", "academy_upload"}}
  <2>1. CASE AcademyThreads = <<"academy_download">>
    BY <2>1 DEF Academy
  <2>2. CASE AcademyThreads = <<"academy_download", "academy", "academy_upload">>
    <3>1. DOMAIN AcademyThreads = 1 .. 3
      BY <2>2
    <3>2. Academy = {AcademyThreads[1], AcademyThreads[2], AcademyThreads[3]}
      BY <3>1 DEF Academy
    <3> QED
      BY <2>2, <3>2
  <2> QED
    BY <2>1, <2>2, AcademyAssumption
<1> QED
  BY <1>1 DEF Users, Threads, Sleepers, Pausable

LEMMA SameRange ==
    ASSUME NEW m \in Nat, NEW n \in Nat, 1 .. m = 1 .. n
    PROVE  m = n
<1>1. m <= n
  <2>1. m = 0 \/ m \in 1 .. m
    OBVIOUS
  <2>2. m = 0 \/ m \in 1 .. n
    BY <2>1
  <2> QED
    BY <2>2
<1>2. n <= m
  <2>1. n = 0 \/ n \in 1 .. n
    OBVIOUS
  <2>2. n = 0 \/ n \in 1 .. m
    BY <2>1
  <2> QED
    BY <2>2
<1> QED
  BY <1>1, <1>2

LEMMA ForFacts ==
    ASSUME NEW op \in Ops, NEW threads \in Seq(Threads)
    PROVE  /\ For(op, threads) \in Seq(Steps)
           /\ Len(For(op, threads)) = Len(threads)
           /\ \A i \in 1 .. Len(threads) : For(op, threads)[i] = Step(op, threads[i])
           /\ \A i \in 1 .. Len(threads) : For(op, threads)[i].op = op
<1>0. Len(threads) \in Nat /\ DOMAIN threads = 1 .. Len(threads)
  BY LenProperties
<1>1. For(op, threads) = [i \in 1 .. Len(threads) |-> Step(op, threads[i])]
  BY <1>0 DEF For
<1>2. \A i \in 1 .. Len(threads) : Step(op, threads[i]) \in Steps
  <2>1. \A i \in 1 .. Len(threads) : threads[i] \in Threads
    BY ElementOfSeq
  <2> QED
    BY <2>1 DEF Step, Steps
<1>3. For(op, threads) \in Seq(Steps)
  <2>1. For(op, threads) \in [1 .. Len(threads) -> Steps]
    BY <1>1, <1>2
  <2> QED
    BY <2>1, <1>0, SeqDef
<1>4. DOMAIN For(op, threads) = 1 .. Len(threads)
  BY <1>1
<1>5. Len(For(op, threads)) = Len(threads)
  <2>1. /\ Len(For(op, threads)) \in Nat /\ Len(threads) \in Nat
        /\ DOMAIN For(op, threads) = 1 .. Len(For(op, threads))
    BY <1>0, <1>3, LenProperties
  <2> QED
    BY <1>4, <2>1, SameRange
<1>6. \A i \in 1 .. Len(threads) : For(op, threads)[i] = Step(op, threads[i])
  BY <1>1
<1> QED
  <2>1. \A i \in 1 .. Len(threads) : For(op, threads)[i].op = op
    <3>1. \A t : Step(op, t).op = op
      BY DEF Step
    <3> QED
      BY <1>6, <3>1
  <2> QED
    BY <1>3, <1>5, <1>6, <2>1

LEMMA ForSound ==
    ASSUME NEW op \in {"suspend", "resume", "join", "shutdown"}, NEW threads \in Seq(Threads)
    PROVE  /\ Sound(For(op, threads)) /\ ~Closes(For(op, threads))
           /\ op # "join" => ~Joins(For(op, threads))
<1>0. op \in Ops
  BY DEF Ops
<1> DEFINE s == For(op, threads)
<1>1. s \in Seq(Steps) /\ \A i \in 1 .. Len(s) : s[i].op = op
  BY <1>0, ForFacts
<1> HIDE DEF s
<1>2. ~Closes(s)
  BY <1>1 DEF Closes
<1>3. JoinsFirst(s)
  BY <1>1 DEF JoinsFirst
<1>4. StartsNothing(s)
  BY <1>1 DEF StartsNothing
<1>5. op # "join" => ~Joins(s)
  <2>1. \A step : UserJoin(step) => step.op = "join"
    BY DEF UserJoin, Step
  <2> QED
    BY <1>1, <2>1 DEF Joins
<1> USE DEF s
<1> QED
  BY <1>1, <1>2, <1>3, <1>4, <1>5 DEF Sound

LEMMA StepSound ==
    ASSUME NEW op \in {"suspend", "resume", "exit", "disconnected"},
           NEW t \in Threads \cup {"none"}
    PROVE  /\ Sound(<<Step(op, t)>>)
           /\ ~Closes(<<Step(op, t)>>) /\ ~Joins(<<Step(op, t)>>)
<1>0. Step(op, t) \in Steps /\ Step(op, t).op = op
  BY DEF Step, Steps, Ops
<1>1. <<Step(op, t)>> \in Seq(Steps) /\ Len(<<Step(op, t)>>) = 1 /\ <<Step(op, t)>>[1].op = op
  BY <1>0
<1>2. ~Closes(<<Step(op, t)>>) /\ ~Joins(<<Step(op, t)>>)
  <2>1. \A step : UserJoin(step) => step.op = "join"
    BY DEF UserJoin, Step
  <2> QED
    BY <1>1, <2>1 DEF Closes, Joins
<1>3. JoinsFirst(<<Step(op, t)>>) /\ StartsNothing(<<Step(op, t)>>)
  BY <1>1 DEF JoinsFirst, StartsNothing
<1> QED
  BY <1>1, <1>2, <1>3 DEF Sound

\* ardrone_tool_shutdown up to the end of the codec.
Core == <<Step("stop", "navdata_update"), Step("signal", "navdata_update"),
          Step("stop", "ardrone_control"),
          Step("join", "ardrone_control"), Step("join", "navdata_update"),
          Step("close", "none")>>

LEMMA CoreSound == Sound(Core)
<1>0. /\ Step("stop", "navdata_update") \in Steps /\ Step("signal", "navdata_update") \in Steps
      /\ Step("stop", "ardrone_control") \in Steps /\ Step("join", "ardrone_control") \in Steps
      /\ Step("join", "navdata_update") \in Steps /\ Step("close", "none") \in Steps
  BY DEF Step, Steps, Ops, Threads, Sleepers, Pausable
<1>1. Core \in Seq(Steps) /\ Len(Core) = 6
  BY <1>0 DEF Core
<1>2. /\ Core[1].op = "stop" /\ Core[2].op = "signal" /\ Core[3].op = "stop"
      /\ Core[4] = Step("join", "ardrone_control")
      /\ Core[5] = Step("join", "navdata_update")
      /\ Core[6].op = "close"
  BY DEF Core, Step
<1>3. Core[4].op = "join" /\ Core[5].op = "join"
  BY DEF Core, Step
<1>4. JoinsFirst(Core) /\ StartsNothing(Core)
  BY <1>1, <1>2, <1>3 DEF JoinsFirst, StartsNothing
<1>5. Awaits(Core, "ardrone_control") /\ Awaits(Core, "navdata_update")
  BY <1>1, <1>2 DEF Awaits
<1> QED
  BY <1>1, <1>4, <1>5 DEF Sound, Users

LEMMA ConcatSound ==
    ASSUME NEW p, NEW q, Sound(p), Sound(q), ~Closes(p) \/ ~Closes(q), ~Closes(p) \/ ~Joins(q)
    PROVE  Sound(p \o q) /\ (~Closes(p) /\ ~Closes(q) => ~Closes(p \o q))
<1>0. p \in Seq(Steps) /\ q \in Seq(Steps)
  BY DEF Sound
<1>1. p \o q \in Seq(Steps)
  BY <1>0, ConcatFacts
<1>2. JoinsFirst(p \o q)
  BY <1>0, ConcatJoinsFirst DEF Sound
<1>3. StartsNothing(p \o q)
  BY <1>0, ConcatStartsNothing DEF Sound
<1>4. ~Closes(p) /\ ~Closes(q) => ~Closes(p \o q)
  BY <1>0, ConcatCloses
<1>5. ASSUME Closes(p \o q), NEW t \in Users
      PROVE  Awaits(p \o q, t)
  <2>1. Closes(p) \/ Closes(q)
    BY <1>4, <1>5
  <2>2. Awaits(p, t) \/ Awaits(q, t)
    BY <2>1, <1>5 DEF Sound
  <2> QED
    BY <1>0, <2>2, ConcatAwaits
<1> QED
  BY <1>1, <1>2, <1>3, <1>4, <1>5 DEF Sound

LEMMA ShutdownSound == Sound(Shutdown)
<1>1. /\ Sound(For("shutdown", AcademyThreads)) /\ ~Closes(For("shutdown", AcademyThreads))
      /\ ~Joins(For("shutdown", AcademyThreads))
  BY AcademyFacts, ForSound
<1>2. Shutdown = Core \o For("shutdown", AcademyThreads)
  BY DEF Shutdown, Core
<1> QED
  BY <1>1, <1>2, CoreSound, ConcatSound

\* What a shutdown does for a thread of the Academy: it is told to end, woken
\* and awaited.
LEMMA EndingFacts ==
    ASSUME NEW t \in Academy
    PROVE  /\ Ending(t) \in Seq(Steps) /\ Len(Ending(t)) = 3
           /\ Ending(t)[1] = Step("stop", t) /\ Ending(t)[1].op = "stop"
           /\ Ending(t)[2].op \in {"resume", "signal"}
           /\ Ending(t)[3] = Step("join", t) /\ Ending(t)[3].op = "join"
<1>1. PICK op \in {"resume", "signal"} :
         Ending(t) = <<Step("stop", t), Step(op, t), Step("join", t)>>
  BY DEF Ending
<1>2. Step("stop", t) \in Steps /\ Step(op, t) \in Steps /\ Step("join", t) \in Steps
  BY ThreadFacts DEF Step, Steps, Ops
<1>3. Step("stop", t).op = "stop" /\ Step(op, t).op = op /\ Step("join", t).op = "join"
  BY DEF Step
<1>4. /\ Ending(t)[1] = Step("stop", t) /\ Ending(t)[2] = Step(op, t)
      /\ Ending(t)[3] = Step("join", t)
  BY <1>1
<1>5. Ending(t) \in Seq(Steps) /\ Len(Ending(t)) = 3
  BY <1>1, <1>2
<1> QED
  BY <1>3, <1>4, <1>5

LEMMA EndingSound ==
    ASSUME NEW t \in Academy
    PROVE  Sound(Ending(t)) /\ ~Closes(Ending(t)) /\ Awaits(Ending(t), t)
<1> DEFINE e == Ending(t)
<1>1. /\ e \in Seq(Steps) /\ Len(e) = 3 /\ e[1].op = "stop" /\ e[2].op \in {"resume", "signal"}
      /\ e[3] = Step("join", t) /\ e[3].op = "join"
  BY EndingFacts
<1> HIDE DEF e
<1>2. ~Closes(e) /\ StartsNothing(e)
  BY <1>1 DEF Closes, StartsNothing
<1>3. JoinsFirst(e)
  BY <1>1 DEF JoinsFirst
<1>4. Awaits(e, t)
  BY <1>1 DEF Awaits
<1>5. Sound(e)
  BY <1>1, <1>2, <1>3 DEF Sound
<1> QED
  BY <1>2, <1>4, <1>5 DEF e

LEMMA ProceduresSound == Sound(Pause) /\ Sound(Resume) /\ Sound(Resume \o Exit) /\ Sound(TearDown)
<1>0. \A op \in {"suspend", "resume"} :
         LET p == For(op, VideoThreads) \o <<Step(op, "navdata_update")>>
         IN  Sound(p) /\ ~Closes(p)
  <2> SUFFICES ASSUME NEW op \in {"suspend", "resume"}
               PROVE  LET p == For(op, VideoThreads) \o <<Step(op, "navdata_update")>>
                      IN  Sound(p) /\ ~Closes(p)
    OBVIOUS
  <2>1. Sound(For(op, VideoThreads)) /\ ~Closes(For(op, VideoThreads))
    BY VideoFacts, ForSound
  <2>2. /\ Sound(<<Step(op, "navdata_update")>>)
        /\ ~Closes(<<Step(op, "navdata_update")>>) /\ ~Joins(<<Step(op, "navdata_update")>>)
    BY StepSound DEF Threads, Sleepers, Pausable
  <2> QED
    BY <2>1, <2>2, ConcatSound
<1>1. Sound(Pause) /\ ~Closes(Pause) /\ Sound(Resume) /\ ~Closes(Resume)
  BY <1>0 DEF Pause, Resume
<1>2. Sound(Resume \o Exit)
  <2>1. Sound(<<Step("exit", "none")>>) /\ ~Closes(<<Step("exit", "none")>>) /\ ~Joins(<<Step("exit", "none")>>)
    BY StepSound
  <2>2. Sound(Pause \o <<Step("exit", "none")>>) /\ ~Closes(Pause \o <<Step("exit", "none")>>)
    BY <1>1, <2>1, ConcatSound
  <2>3. Sound(Exit)
    BY <2>2, ShutdownSound, ConcatSound DEF Exit
  <2> QED
    BY <1>1, <2>3, ConcatSound
<1>3. Sound(TearDown)
  <2>1. Sound(For("join", VideoThreads)) /\ ~Closes(For("join", VideoThreads))
    BY VideoFacts, ForSound
  <2>2. Sound(For("join", VideoThreads) \o Shutdown)
    BY <2>1, ShutdownSound, ConcatSound
  <2>3. /\ Sound(<<Step("disconnected", "none")>>)
        /\ ~Closes(<<Step("disconnected", "none")>>) /\ ~Joins(<<Step("disconnected", "none")>>)
    BY StepSound
  <2> QED
    BY <2>2, <2>3, ConcatSound DEF TearDown
<1> QED
  BY <1>1, <1>2, <1>3

\* The rest of the start: threads are started, then the connection is reported.
Starts(p) == /\ p \in Seq(Steps) /\ p # <<>>
             /\ p[Len(p)] = Step("connected", "none")
             /\ \A i \in 1 .. Len(p) : i = Len(p) \/ p[i].op = "start"

ToStart(p, t) == Has(p, Step("start", t))
OnlyStarts(p) == p \in Seq(Steps) /\ \A i \in 1 .. Len(p) : p[i].op = "start"

LEMMA ConcatOnlyStarts ==
    ASSUME NEW p, NEW q, OnlyStarts(p), OnlyStarts(q)
    PROVE  OnlyStarts(p \o q)
<1>0. p \in Seq(Steps) /\ q \in Seq(Steps)
  BY DEF OnlyStarts
<1>1. p \o q \in Seq(Steps)
  BY <1>0, ConcatFacts
<1>2. ASSUME NEW i \in 1 .. Len(p \o q)
      PROVE  (p \o q)[i].op = "start"
  <2>1. \/ i \in 1 .. Len(p) /\ (p \o q)[i] = p[i]
        \/ i - Len(p) \in 1 .. Len(q) /\ (p \o q)[i] = q[i - Len(p)]
    BY <1>0, ConcatFacts
  <2> QED
    BY <2>1 DEF OnlyStarts
<1> QED
  BY <1>1, <1>2 DEF OnlyStarts

LEMMA ForStarts ==
    ASSUME NEW threads \in Seq(Threads)
    PROVE  /\ OnlyStarts(For("start", threads))
           /\ \A i \in 1 .. Len(threads) : ToStart(For("start", threads), threads[i])
<1>1. "start" \in Ops
  BY DEF Ops
<1> DEFINE s == For("start", threads)
<1>2. /\ s \in Seq(Steps) /\ Len(s) = Len(threads) /\ \A i \in 1 .. Len(threads) : s[i].op = "start"
      /\ \A i \in 1 .. Len(threads) : s[i] = Step("start", threads[i])
  BY <1>1, ForFacts
<1> HIDE DEF s
<1>3. OnlyStarts(s)
  BY <1>2 DEF OnlyStarts
<1>4. \A i \in 1 .. Len(threads) : ToStart(s, threads[i])
  BY <1>2 DEF ToStart, Has
<1> QED
  BY <1>3, <1>4 DEF s

LEMMA StartUpStarts == Starts(StartUp) /\ \A t \in Threads : ToStart(StartUp, t)
<1> DEFINE v == For("start", VideoThreads)
           w == <<Step("start", "navdata_update"), Step("start", "ardrone_control")>>
           a == For("start", AcademyThreads)
           p == v \o w \o a
           d == <<Step("connected", "none")>>
<1>1. OnlyStarts(v) /\ \A t \in Video : ToStart(v, t)
  BY VideoFacts, ForStarts
<1>2. OnlyStarts(a) /\ \A t \in Academy : ToStart(a, t)
  BY AcademyFacts, ForStarts
<1>3. OnlyStarts(w) /\ ToStart(w, "navdata_update") /\ ToStart(w, "ardrone_control")
  <2>1. Step("start", "navdata_update") \in Steps /\ Step("start", "ardrone_control") \in Steps
    BY DEF Step, Steps, Ops, Threads, Sleepers, Pausable
  <2>2. /\ w \in Seq(Steps) /\ Len(w) = 2
        /\ w[1] = Step("start", "navdata_update") /\ w[2] = Step("start", "ardrone_control")
    BY <2>1
  <2>3. \A i \in 1 .. 2 : w[i].op = "start"
    <3>1. w[1].op = "start" /\ w[2].op = "start"
      BY <2>2 DEF Step
    <3> QED
      BY <3>1
  <2> QED
    BY <2>2, <2>3 DEF OnlyStarts, ToStart, Has
<1>4. d \in Seq(Steps) /\ Len(d) = 1 /\ d[1] = Step("connected", "none")
  BY DEF Step, Steps, Ops
<1>5. StartUp = p \o d
  BY DEF StartUp
<1> HIDE DEF v, w, a, d
<1>6. OnlyStarts(v \o w) /\ OnlyStarts(p)
  BY <1>1, <1>2, <1>3, ConcatOnlyStarts
<1>7. v \in Seq(Steps) /\ w \in Seq(Steps) /\ a \in Seq(Steps) /\ v \o w \in Seq(Steps)
  BY <1>1, <1>2, <1>3, <1>6 DEF OnlyStarts
<1>8. ASSUME NEW t \in Threads PROVE ToStart(p, t)
  <2>1. \/ ToStart(v, t) \/ ToStart(w, t) \/ ToStart(a, t)
    BY <1>1, <1>2, <1>3 DEF Threads, Sleepers, Pausable
  <2>2. CASE ToStart(a, t)
    BY <1>7, <2>2, ConcatHas DEF ToStart
  <2>3. CASE ToStart(v, t) \/ ToStart(w, t)
    <3>1. Has(v \o w, Step("start", t))
      BY <1>7, <2>3, ConcatHas DEF ToStart
    <3> QED
      BY <1>7, <3>1, ConcatHas DEF ToStart
  <2> QED
    BY <2>1, <2>2, <2>3
<1> HIDE DEF p
<1>9. p \in Seq(Steps) /\ \A i \in 1 .. Len(p) : p[i].op = "start"
  BY <1>6 DEF OnlyStarts
<1>10. ASSUME NEW t \in Threads PROVE ToStart(StartUp, t)
  BY <1>4, <1>5, <1>8, <1>9, ConcatHas DEF ToStart
<1>11. Starts(p \o d)
  <2>1. p \o d \in Seq(Steps) /\ Len(p \o d) = Len(p) + Len(d) /\ Len(p) \in Nat
    BY <1>4, <1>9, ConcatFacts
  <2>2. Len(p \o d) = Len(p) + 1
    BY <1>4, <2>1
  <2>3. p \o d # <<>>
    BY <2>1, <2>2, EmptySeq
  <2>4. \A i \in 1 .. Len(d) : (p \o d)[Len(p) + i] = d[i]
    <3>1. p \in Seq(Steps) /\ d \in Seq(Steps)
      BY <1>4, <1>9
    <3>2. \A i \in 1 .. Len(d) : /\ Len(p) + i \in 1 .. Len(p \o d)
                                  /\ (p \o d)[Len(p) + i] = d[i]
      BY <3>1, ConcatFacts
    <3> QED
      BY <3>2
  <2>5. (p \o d)[Len(p) + 1] = d[1]
    <3>1. 1 \in 1 .. Len(d)
      BY <1>4
    <3> QED
      BY <2>4, <3>1
  <2>6. ASSUME NEW i \in 1 .. Len(p \o d), i # Len(p \o d)
        PROVE  (p \o d)[i].op = "start"
    <3>1. i \in 1 .. Len(p)
      BY <2>1, <2>2, <2>6
    <3>2. (p \o d)[i] = p[i]
      BY <1>4, <1>9, <3>1, ConcatFacts
    <3> QED
      BY <1>9, <3>1, <3>2
  <2> QED
    BY <1>4, <2>1, <2>2, <2>3, <2>5, <2>6 DEF Starts
<1> QED
  BY <1>5, <1>10, <1>11

\* The tail of the start is a start, or nothing after the report.
LEMMA TailStarts ==
    ASSUME NEW p, Starts(p)
    PROVE  /\ Head(p).op # "connected" => Starts(Tail(p))
           /\ Head(p).op = "connected" => Len(p) = 1 /\ Tail(p) = <<>>
           /\ Head(p).op \in {"start", "connected"}
           /\ \A t \in Threads : ToStart(p, t) /\ Head(p) # Step("start", t) => ToStart(Tail(p), t)
<1>1. p \in Seq(Steps) /\ p # <<>>
  BY DEF Starts
<1>2. /\ Len(p) \in Nat \ {0} /\ Head(p) = p[1]
      /\ Tail(p) \in Seq(Steps) /\ Len(Tail(p)) = Len(p) - 1
      /\ \A i \in 1 .. Len(p) - 1 : Tail(p)[i] = p[i + 1]
  BY <1>1, TailFacts
<1> DEFINE q == Tail(p)
           h == Head(p)
<1>3. /\ Len(p) \in Nat \ {0} /\ h = p[1] /\ q \in Seq(Steps) /\ Len(q) = Len(p) - 1
      /\ \A i \in 1 .. Len(q) : q[i] = p[i + 1]
  BY <1>2
<1> HIDE DEF q, h
<1>4. p[Len(p)].op = "connected"
  BY DEF Starts, Step
<1>5. h.op \in {"start", "connected"} /\ (h.op = "connected" => Len(p) = 1)
  BY <1>3, <1>4 DEF Starts
<1>6. Len(p) = 1 => q = <<>>
  BY <1>3, EmptySeq
<1>7. ASSUME h.op # "connected" PROVE Starts(q)
  <2>1. Len(p) > 1 /\ Len(q) \in Nat /\ Len(q) > 0
    BY <1>3, <1>4, <1>7
  <2>2. q # <<>>
    BY <1>3, <2>1, EmptySeq
  <2>3. q[Len(q)] = Step("connected", "none")
    BY <1>3, <2>1 DEF Starts
  <2>4. \A i \in 1 .. Len(q) : i = Len(q) \/ q[i].op = "start"
    BY <1>3, <2>1 DEF Starts
  <2> QED
    BY <1>3, <2>2, <2>3, <2>4 DEF Starts
<1>8. ASSUME NEW t \in Threads, ToStart(p, t), h # Step("start", t)
      PROVE  ToStart(q, t)
  BY <1>1, <1>8, TailHas DEF ToStart, q, h
<1> QED
  BY <1>5, <1>6, <1>7, <1>8 DEF q, h

-----------------------------------------------------------------------------
(* The invariant.                                                          *)

Places == {"none", "start", "top", "pausing", "blocked", "body", "ended"}

ProgramType == program \in [Callers -> Seq(Steps)]
ThreadType == /\ thread \in [Threads -> Places] /\ in_pause \in [Threads -> BOOLEAN]
              /\ lost \subseteq Callers \cup {"navdata_update"}
TableType == table \subseteq Threads /\ thread_mutex \in Callers \cup {"free"}
FlagType == updating \in BOOLEAN /\ bContinue \in BOOLEAN /\ codec \in BOOLEAN
NameType == /\ connection \in {"none", "connected", "disconnected"}
            /\ requested \in {"none", "pause", "resume", "exit"}
            /\ stopped \subseteq Threads

\* Until it reports the connection, app_main is the only caller, and a thread
\* that does not run yet is one it has still to start.
Starting == connection = "none" =>
    /\ codec /\ ~updating /\ program["worker"] = <<>>
    /\ Starts(program["app_main"])
    /\ \A t \in Threads : thread[t] = "none" => ToStart(program["app_main"], t)

\* Afterwards every thread has been started, once.
Started == connection # "none" => /\ \A t \in Threads : thread[t] # "none"
                                  /\ \A c \in Callers : StartsNothing(program[c])

\* In its loop app_main has nothing else to do.
Looping == updating => program["app_main"] = <<>>

\* A caller that has still to close the codec has awaited each user of it, or
\* has still to do so.
Closing == \A c \in Callers :
    /\ JoinsFirst(program[c])
    /\ Closes(program[c]) => \A t \in Users : thread[t] = "ended" \/ Awaits(program[c], t)

\* The mutex of the table is held at a join.
Held == thread_mutex # "free" => /\ program[thread_mutex] # <<>>
                                 /\ Head(program[thread_mutex]).op = "join"

\* A thread that is not in the table has ended, or is awaited with the mutex
\* held: a caller that does not find it need not await it.
Tabled == \A t \in Threads \ table :
    \/ thread[t] \in {"none", "ended"}
    \/ thread_mutex # "free" /\ Head(program[thread_mutex]) = Step("join", t)

IInv == /\ ProgramType /\ ThreadType /\ TableType /\ FlagType /\ NameType
        /\ Starting /\ Started /\ Looping /\ Closing /\ Held /\ Tabled
        /\ CodecOutlivesThreads

LEMMA InitIInv == Init => IInv
<1> SUFFICES ASSUME Init PROVE IInv
  OBVIOUS
<1>1. program["app_main"] = StartUp /\ program["worker"] = <<>>
  BY DEF Init, Callers
<1>2. Starts(StartUp) /\ \A t \in Threads : ToStart(StartUp, t)
  BY StartUpStarts
<1>3. StartUp \in Seq(Steps)
  BY <1>2 DEF Starts
<1>4. ProgramType
  <2>1. <<>> \in Seq(Steps)
    BY EmptySeq
  <2> QED
    BY <1>3, <2>1 DEF Init, ProgramType
<1>5. ThreadType /\ TableType /\ FlagType /\ NameType
  <2>1. thread \in [Threads -> Places] /\ in_pause \in [Threads -> BOOLEAN]
    BY DEF Init, Places
  <2> QED
    BY <2>1 DEF Init, ThreadType, TableType, FlagType, NameType
<1>6. Starting /\ Started
  BY <1>1, <1>2 DEF Init, Starting, Started
<1>7. Looping /\ Held /\ CodecOutlivesThreads
  BY DEF Init, Looping, Held, CodecOutlivesThreads
<1>8. Tabled
  BY DEF Init, Tabled
<1>9. Closing
  <2>1. ~Closes(StartUp)
    <3>1. \A i \in 1 .. Len(StartUp) : StartUp[i].op \in {"start", "connected"}
      BY <1>2 DEF Starts, Step
    <3> QED
      BY <3>1 DEF Closes
  <2>2. JoinsFirst(StartUp)
    BY <2>1 DEF JoinsFirst, Closes
  <2>3. JoinsFirst(<<>>) /\ ~Closes(<<>>)
    BY DEF JoinsFirst, Closes
  <2>4. \A c \in Callers : program[c] = StartUp \/ program[c] = <<>>
    BY DEF Init
  <2> QED
    BY <2>1, <2>2, <2>3, <2>4 DEF Closing
<1> QED
  BY <1>4, <1>5, <1>6, <1>7, <1>8, <1>9 DEF IInv

-----------------------------------------------------------------------------
(* Steps of a caller.                                                      *)

\* A step leaves the rest of its caller's program.
LEMMA DoFacts ==
    ASSUME IInv, NEW c \in Callers, NEW op, NEW t, Do(c, op, t)
    PROVE  /\ program[c] \in Seq(Steps) /\ program[c] # <<>> /\ Head(program[c]) = Step(op, t)
           /\ program'[c] = Tail(program[c])
           /\ \A d \in Callers : d # c => program'[d] = program[d]
           /\ ProgramType'
<1>1. program \in [Callers -> Seq(Steps)]
  BY DEF IInv, ProgramType
<1>2. program[c] \in Seq(Steps) /\ program[c] # <<>> /\ Head(program[c]) = Step(op, t)
  BY <1>1 DEF Do
<1>3. program' = [program EXCEPT ![c] = Tail(@)]
  BY DEF Do
<1>4. Tail(program[c]) \in Seq(Steps)
  BY <1>2, TailFacts
<1>5. program' \in [Callers -> Seq(Steps)]
  BY <1>1, <1>3, <1>4
<1> QED
  BY <1>1, <1>2, <1>3, <1>5 DEF ProgramType

LEMMA DoRest ==
    ASSUME IInv, NEW c \in Callers, NEW op, NEW t, Do(c, op, t), NEW d \in Callers
    PROVE  /\ JoinsFirst(program'[d])
           /\ Closes(program'[d]) => Closes(program[d])
           /\ StartsNothing(program[d]) => StartsNothing(program'[d])
           /\ \A u : Awaits(program[d], u) /\ (d = c => Step(op, t) # Step("join", u))
                        => Awaits(program'[d], u)
<1>1. JoinsFirst(program[d])
  BY DEF IInv, Closing
<1>2. CASE d # c
  BY <1>1, <1>2, DoFacts
<1>3. CASE d = c
  <2>1. program[c] \in Seq(Steps) /\ program[c] # <<>> /\ Head(program[c]) = Step(op, t)
    BY DoFacts
  <2>2. program'[d] = Tail(program[c]) /\ program[d] = program[c]
    BY <1>3, DoFacts
  <2>3. JoinsFirst(Tail(program[c]))
    BY <1>1, <1>3, <2>1, TailJoinsFirst
  <2>4. Closes(Tail(program[c])) => Closes(program[c])
    BY <2>1, TailCloses
  <2>5. StartsNothing(program[c]) => StartsNothing(Tail(program[c]))
    BY <2>1, TailStartsNothing
  <2>6. ASSUME NEW u, Awaits(program[c], u), Step(op, t) # Step("join", u)
        PROVE  Awaits(Tail(program[c]), u)
    BY <2>1, <2>6, TailAwaits
  <2> QED
    BY <1>3, <2>2, <2>3, <2>4, <2>5, <2>6
<1> QED
  BY <1>2, <1>3

\* Before the connection only app_main has steps to do, and they start threads
\* or report the connection.
LEMMA DoBefore ==
    ASSUME IInv, NEW c \in Callers, NEW op, NEW t, Do(c, op, t), connection = "none"
    PROVE  c = "app_main" /\ op \in {"start", "connected"}
<1>1. program["worker"] = <<>> /\ Starts(program["app_main"])
  BY DEF IInv, Starting
<1>2. program[c] # <<>> /\ Head(program[c]) = Step(op, t)
  BY DoFacts
<1>3. c = "app_main"
  BY <1>1, <1>2 DEF Callers
<1>4. Head(program["app_main"]).op \in {"start", "connected"}
  BY <1>1, TailStarts
<1>5. Step(op, t).op = op
  BY DEF Step
<1> QED
  BY <1>2, <1>3, <1>4, <1>5

\* The head of a program that starts nothing.
LEMMA DoAfter ==
    ASSUME IInv, NEW c \in Callers, NEW op, NEW t, Do(c, op, t), connection # "none"
    PROVE  op \notin {"start", "connected"}
<1>1. StartsNothing(program[c])
  BY DEF IInv, Started
<1>2. program[c] \in Seq(Steps) /\ program[c] # <<>> /\ Head(program[c]) = Step(op, t)
  BY DoFacts
<1> DEFINE p == program[c]
           h == Head(p)
<1>3. Len(p) \in Nat \ {0} /\ h = p[1]
  BY <1>2, TailFacts
<1>4. h.op = op
  BY <1>2 DEF Step
<1>5. StartsNothing(p)
  BY <1>1
<1> HIDE DEF p, h
<1>6. 1 \in 1 .. Len(p)
  BY <1>3
<1> QED
  BY <1>3, <1>4, <1>5, <1>6 DEF StartsNothing

\* A step that neither starts, joins nor reports anything, and may wake a
\* thread that waits.
LEMMA QuietDo ==
    ASSUME IInv, NEW c \in Callers, NEW op, NEW t, Do(c, op, t),
           op \notin {"start", "connected", "join"},
           connection # "none" => connection' # "none", UNCHANGED <<updating, table, thread_mutex>>,
           \A u \in Threads : /\ thread[u] # "none" => thread'[u] # "none"
                              /\ thread[u] = "ended" => thread'[u] = "ended"
                              /\ thread[u] = "none" => thread'[u] = "none"
    PROVE  Starting' /\ Started' /\ Looping' /\ Closing' /\ Held' /\ Tabled'
<1>1. connection # "none" /\ connection' # "none"
  BY DoBefore
<1>2. Starting'
  BY <1>1 DEF Starting
<1>3. Started'
  <2>1. \A u \in Threads : thread'[u] # "none"
    BY <1>1 DEF IInv, Started
  <2>2. \A d \in Callers : StartsNothing(program[d])
    BY <1>1 DEF IInv, Started
  <2>3. \A d \in Callers : StartsNothing(program'[d])
    BY <2>2, DoRest
  <2> QED
    BY <2>1, <2>3 DEF Started
<1>4. Looping'
  <2>1. ASSUME updating PROVE program'["app_main"] = <<>>
    <3>1. program["app_main"] = <<>>
      BY <2>1 DEF IInv, Looping
    <3>2. c # "app_main" /\ "app_main" \in Callers
      BY <3>1, DoFacts DEF Callers
    <3> QED
      BY <3>1, <3>2, DoFacts
  <2> QED
    BY <2>1 DEF Looping
<1>5. Closing'
  <2>1. ASSUME NEW d \in Callers PROVE JoinsFirst(program'[d])
    BY DoRest
  <2>2. ASSUME NEW d \in Callers, Closes(program'[d]), NEW u \in Users
        PROVE  thread'[u] = "ended" \/ Awaits(program'[d], u)
    <3>1. thread[u] = "ended" \/ Awaits(program[d], u)
      BY <2>2, DoRest DEF IInv, Closing
    <3>2. u \in Threads
      BY ThreadFacts
    <3>3. Step(op, t) # Step("join", u)
      BY DEF Step
    <3> QED
      BY <3>1, <3>2, <3>3, DoRest
  <2> QED
    BY <2>1, <2>2 DEF Closing
<1>6. ASSUME thread_mutex # "free"
      PROVE  /\ thread_mutex \in Callers /\ program'[thread_mutex] = program[thread_mutex]
             /\ program[thread_mutex] # <<>> /\ Head(program[thread_mutex]).op = "join"
  <2>1. /\ thread_mutex \in Callers
        /\ program[thread_mutex] # <<>> /\ Head(program[thread_mutex]).op = "join"
    BY <1>6 DEF IInv, TableType, Held
  <2>2. Step(op, t).op = op
    BY DEF Step
  <2>3. thread_mutex # c
    BY <2>1, <2>2, DoFacts
  <2> QED
    BY <2>1, <2>3, DoFacts
<1>7. Held'
  BY <1>6 DEF Held
<1>8. Tabled'
  <2>1. ASSUME NEW u \in Threads \ table
        PROVE  \/ thread'[u] \in {"none", "ended"}
               \/ thread_mutex # "free" /\ Head(program'[thread_mutex]) = Step("join", u)
    <3>1. \/ thread[u] \in {"none", "ended"}
          \/ thread_mutex # "free" /\ Head(program[thread_mutex]) = Step("join", u)
      BY DEF IInv, Tabled
    <3> QED
      BY <1>6, <3>1
  <2> QED
    BY <2>1 DEF Tabled
<1> QED
  BY <1>2, <1>3, <1>4, <1>5, <1>7, <1>8

LEMMA StartsCloses == \A p : Starts(p) => ~Closes(p)
  BY DEF Starts, Closes, Step

LEMMA EmptyProgram == ~Closes(<<>>) /\ JoinsFirst(<<>>) /\ StartsNothing(<<>>)
  BY DEF Closes, JoinsFirst, StartsNothing

LEMMA StartIInv ==
    ASSUME IInv, NEW c \in Callers, NEW t \in Threads, Start(c, t)
    PROVE  IInv'
<1>1. /\ thread_mutex = "free" /\ Do(c, "start", t)
      /\ thread' = [thread EXCEPT ![t] = "start"] /\ table' = table \cup {t}
      /\ UNCHANGED <<updating, connection, requested, in_pause, lost, thread_mutex,
                     bContinue, stopped, codec>>
  BY DEF Start, endVars
<1>2. connection = "none" /\ c = "app_main"
  BY <1>1, DoAfter, DoBefore
<1>3. /\ program["app_main"] # <<>> /\ Head(program["app_main"]) = Step("start", t)
      /\ program'["app_main"] = Tail(program["app_main"])
      /\ program'["worker"] = program["worker"] /\ ProgramType'
  BY <1>1, <1>2, DoFacts DEF Callers
<1>4. /\ codec /\ ~updating /\ program["worker"] = <<>> /\ Starts(program["app_main"])
      /\ \A u \in Threads : thread[u] = "none" => ToStart(program["app_main"], u)
  BY <1>2 DEF IInv, Starting
<1>5. Starts(program'["app_main"])
  <2>1. Head(program["app_main"]).op # "connected"
    BY <1>3 DEF Step
  <2> QED
    BY <1>3, <1>4, <2>1, TailStarts
<1>6. ThreadType' /\ TableType' /\ FlagType' /\ NameType'
  BY <1>1 DEF IInv, ThreadType, TableType, FlagType, NameType, Places
<1>7. Starting'
  <2>1. ASSUME NEW u \in Threads, thread'[u] = "none"
        PROVE  ToStart(program'["app_main"], u)
    <3>1. u # t /\ thread[u] = "none"
      BY <1>1, <2>1 DEF IInv, ThreadType
    <3>2. Head(program["app_main"]) # Step("start", u)
      BY <1>3, <3>1 DEF Step
    <3> QED
      BY <1>3, <1>4, <3>1, <3>2, TailStarts
  <2> QED
    BY <1>1, <1>3, <1>4, <1>5, <2>1 DEF Starting
<1>8. Started' /\ Looping' /\ Held' /\ CodecOutlivesThreads'
  BY <1>1, <1>2, <1>4 DEF Started, Looping, Held, CodecOutlivesThreads
<1>9. Closing'
  <2>1. \A d \in Callers : ~Closes(program'[d])
    BY <1>3, <1>4, <1>5, StartsCloses, EmptyProgram DEF Callers
  <2>2. \A d \in Callers : JoinsFirst(program'[d])
    BY <1>1, DoRest
  <2> QED
    BY <2>1, <2>2 DEF Closing
<1>10. Tabled'
  <2>1. ASSUME NEW u \in Threads \ table' PROVE thread'[u] \in {"none", "ended"}
    <3>1. u \in Threads \ table /\ u # t
      BY <1>1
    <3>2. thread[u] \in {"none", "ended"}
      BY <1>1, <3>1 DEF IInv, Tabled
    <3> QED
      BY <1>1, <3>1, <3>2 DEF IInv, ThreadType
  <2> QED
    BY <2>1 DEF Tabled
<1> QED
  BY <1>3, <1>6, <1>7, <1>8, <1>9, <1>10 DEF IInv

LEMMA ConnectedIInv == ASSUME IInv, Connected PROVE IInv'
<1>1. /\ Do("app_main", "connected", "none") /\ connection' = "connected" /\ updating' = TRUE
      /\ UNCHANGED <<requested, thread, in_pause, lost, table, thread_mutex,
                     bContinue, stopped, codec>>
  BY DEF Connected, threadVars, tableVars, endVars
<1>2. connection = "none"
  BY <1>1, DoAfter DEF Callers
<1>3. /\ program["app_main"] # <<>> /\ Head(program["app_main"]) = Step("connected", "none")
      /\ program'["app_main"] = Tail(program["app_main"])
      /\ program'["worker"] = program["worker"] /\ ProgramType'
  BY <1>1, DoFacts DEF Callers
<1>4. /\ codec /\ program["worker"] = <<>> /\ Starts(program["app_main"])
      /\ \A u \in Threads : thread[u] = "none" => ToStart(program["app_main"], u)
  BY <1>2 DEF IInv, Starting
<1>5. Len(program["app_main"]) = 1 /\ program'["app_main"] = <<>>
  <2>1. Head(program["app_main"]).op = "connected"
    BY <1>3 DEF Step
  <2> QED
    BY <1>3, <1>4, <2>1, TailStarts
<1>6. ThreadType' /\ TableType' /\ FlagType' /\ NameType'
  BY <1>1 DEF IInv, ThreadType, TableType, FlagType, NameType
<1>7. \A u \in Threads : thread[u] # "none"
  <2>1. program["app_main"][1] = Step("connected", "none")
    BY <1>4, <1>5 DEF Starts
  <2>2. \A u \in Threads : ~ToStart(program["app_main"], u)
    BY <1>5, <2>1 DEF ToStart, Has, Step
  <2> QED
    BY <1>4, <2>2
<1>8. \A d \in Callers : program'[d] = <<>>
  BY <1>3, <1>4, <1>5 DEF Callers
<1>9. Started' /\ Starting' /\ Looping' /\ CodecOutlivesThreads'
  BY <1>1, <1>4, <1>5, <1>7, <1>8, EmptyProgram DEF Started, Starting, Looping, CodecOutlivesThreads
<1>10. Closing'
  BY <1>8, EmptyProgram DEF Closing
<1>11. thread_mutex = "free"
  <2>1. thread_mutex # "app_main"
    BY <1>3 DEF IInv, Held, Step
  <2>2. thread_mutex # "worker"
    BY <1>4 DEF IInv, Held
  <2> QED
    BY <2>1, <2>2 DEF IInv, TableType, Callers
<1>12. Held' /\ Tabled'
  BY <1>1, <1>11 DEF IInv, Held, Tabled
<1> QED
  BY <1>3, <1>6, <1>9, <1>10, <1>12 DEF IInv

\* A caller with nothing to do begins a procedure.
LEMMA InstallIInv ==
    ASSUME IInv, NEW c \in Callers, NEW p, Sound(p), connection # "none",
           program[c] = <<>>, program' = [program EXCEPT ![c] = p],
           UNCHANGED <<connection, threadVars, tableVars, endVars>>,
           updating' \in {updating, FALSE}, c = "app_main" => ~updating',
           requested' \in {"none", "pause", "resume", "exit"}
    PROVE  IInv'
<1>1. program \in [Callers -> Seq(Steps)] /\ p \in Seq(Steps)
  BY DEF IInv, ProgramType, Sound
<1>2. program'[c] = p /\ \A d \in Callers : d # c => program'[d] = program[d]
  BY <1>1
<1>3. ProgramType'
  BY <1>1 DEF ProgramType
<1>4. ThreadType' /\ TableType' /\ NameType' /\ CodecOutlivesThreads'
  BY DEF IInv, ThreadType, TableType, NameType, CodecOutlivesThreads, threadVars, tableVars, endVars
<1>5. FlagType'
  BY DEF IInv, FlagType, endVars
<1>6. Starting'
  BY DEF Starting
<1>7. Started'
  <2>1. \A d \in Callers : StartsNothing(program'[d])
    BY <1>2 DEF IInv, Started, Sound
  <2> QED
    BY <2>1 DEF IInv, Started, threadVars
<1>8. Looping'
  BY <1>2 DEF IInv, Looping, Callers
<1>9. Closing'
  <2>1. ASSUME NEW d \in Callers PROVE JoinsFirst(program'[d])
    BY <1>2 DEF IInv, Closing, Sound
  <2>2. ASSUME NEW d \in Callers, Closes(program'[d]), NEW u \in Users
        PROVE  thread'[u] = "ended" \/ Awaits(program'[d], u)
    BY <1>2, <2>2 DEF IInv, Closing, Sound, threadVars
  <2> QED
    BY <2>1, <2>2 DEF Closing
<1>10. thread_mutex # "free" => thread_mutex \in Callers /\ program'[thread_mutex] = program[thread_mutex]
  <2>1. thread_mutex # "free" => thread_mutex \in Callers /\ thread_mutex # c
    BY DEF IInv, TableType, Held
  <2> QED
    BY <1>2, <2>1
<1>11. Held' /\ Tabled'
  BY <1>10 DEF IInv, Held, Tabled, tableVars, threadVars
<1> QED
  BY <1>3, <1>4, <1>5, <1>6, <1>7, <1>8, <1>9, <1>11 DEF IInv

LEMMA EndLoopIInv == ASSUME IInv, EndLoop PROVE IInv'
<1>1. /\ updating /\ updating' = FALSE /\ program' = [program EXCEPT !["app_main"] = TearDown]
      /\ UNCHANGED <<connection, requested, threadVars, tableVars>>
      /\ UNCHANGED endVars
  BY DEF EndLoop
<1>2. program["app_main"] = <<>> /\ connection # "none" /\ "app_main" \in Callers
  BY <1>1 DEF IInv, Looping, Starting, Callers
<1>3. Sound(TearDown)
  BY ProceduresSound
<1>4. requested' \in {"none", "pause", "resume", "exit"}
  BY <1>1 DEF IInv, NameType
<1> QED
  BY <1>1, <1>2, <1>3, <1>4, InstallIInv

LEMMA CallIInv ==
    ASSUME IInv, NEW name \in {"pause", "resume", "exit"}, Call(name)
    PROVE  IInv'
<1>1. /\ connection = "connected" /\ program["worker"] = <<>>
      /\ UNCHANGED <<updating, connection, threadVars, tableVars, endVars>>
      /\ requested' = name
  BY DEF Call
<1>2. PICK p \in {Pause, Resume, Resume \o Exit} : program' = [program EXCEPT !["worker"] = p]
  BY DEF Call
<1>3. Sound(p)
  BY ProceduresSound
<1>4. "worker" \in Callers /\ "worker" # "app_main" /\ connection # "none"
  BY <1>1 DEF Callers
<1> QED
  BY <1>1, <1>2, <1>3, <1>4, InstallIInv

\* A signal moves at most the thread that waits for it.
LEMMA SignalledFacts ==
    ASSUME IInv, NEW t \in Threads, Signalled(t)
    PROVE  /\ thread' \in [Threads -> Places]
           /\ \A v \in Threads : thread'[v] = thread[v] \/ (thread[v] = "blocked" /\ thread'[v] = "body")
<1>1. thread \in [Threads -> Places]
  BY DEF IInv, ThreadType
<1>2. thread' = [thread EXCEPT ![t] = IF thread[t] = "blocked" THEN "body" ELSE thread[t]]
  BY DEF Signalled
<1>3. (IF thread[t] = "blocked" THEN "body" ELSE thread[t]) \in Places
  BY <1>1 DEF Places
<1>4. thread' \in [Threads -> Places]
  BY <1>1, <1>2, <1>3
<1>5. \A v \in Threads : thread'[v] = thread[v] \/ (thread[v] = "blocked" /\ thread'[v] = "body")
  BY <1>1, <1>2
<1> QED
  BY <1>4, <1>5

\* The pause flags, the end flags and the signals; the report of the end.
LEMMA QuietIInv ==
    ASSUME IInv, NEW c \in Callers, NEW t \in Threads,
           Suspend(c, t) \/ ResumeThread(c, t) \/ Stop(c, t) \/ Signal(c, t) \/ ExitFlag(c) \/ Disconnected
    PROVE  IInv'
<1>1. PICK d \in Callers, op \in {"suspend", "resume", "stop", "signal", "exit", "disconnected"},
           u \in Threads \cup {"none"} : Do(d, op, u)
  BY DEF Suspend, ResumeThread, Stop, Signal, ExitFlag, Disconnected, Callers
<1>2. UNCHANGED <<updating, table, thread_mutex, codec>>
  BY DEF Suspend, ResumeThread, Stop, Signal, ExitFlag, Disconnected, threadVars, tableVars, endVars
<1>3. connection' \in {connection, "disconnected"} /\ UNCHANGED requested
  BY DEF Suspend, ResumeThread, Stop, Signal, ExitFlag, Disconnected
<1>4. UNCHANGED thread \/ Signalled(t)
  BY DEF Suspend, ResumeThread, Stop, Signal, ExitFlag, Disconnected, threadVars
<1>5. /\ thread' \in [Threads -> Places]
      /\ \A v \in Threads : thread'[v] = thread[v] \/ (thread[v] = "blocked" /\ thread'[v] = "body")
  <2>1. thread \in [Threads -> Places]
    BY DEF IInv, ThreadType
  <2>2. CASE UNCHANGED thread
    BY <2>1, <2>2
  <2>3. CASE Signalled(t)
    BY <2>3, SignalledFacts
  <2> QED
    BY <1>4, <2>2, <2>3
<1>6. in_pause' \in [Threads -> BOOLEAN]
  <2>1. UNCHANGED in_pause \/ \E b \in BOOLEAN : in_pause' = [in_pause EXCEPT ![t] = b]
    BY DEF Suspend, ResumeThread, Stop, Signal, ExitFlag, Disconnected, threadVars
  <2> QED
    BY <2>1 DEF IInv, ThreadType
<1>7. stopped' \subseteq Threads /\ bContinue' \in BOOLEAN
  <2>1. /\ UNCHANGED stopped \/ stopped' = stopped \cup {t}
        /\ UNCHANGED bContinue \/ bContinue' = FALSE
    BY DEF Suspend, ResumeThread, Stop, Signal, ExitFlag, Disconnected, endVars
  <2> QED
    BY <2>1 DEF IInv, NameType, FlagType
<1>8. ProgramType'
  BY <1>1, DoFacts
<1>9. ThreadType' /\ TableType' /\ NameType'
  <2>1. UNCHANGED lost
    BY DEF Suspend, ResumeThread, Stop, Signal, ExitFlag, Disconnected, threadVars
  <2> QED
    BY <1>2, <1>3, <1>5, <1>6, <1>7, <2>1 DEF IInv, ThreadType, TableType, NameType
<1>10. FlagType'
  BY <1>2, <1>7 DEF IInv, FlagType
<1>11. \A v \in Threads : /\ thread[v] # "none" => thread'[v] # "none"
                          /\ thread[v] = "ended" => thread'[v] = "ended"
                          /\ thread[v] = "none" => thread'[v] = "none"
  BY <1>5
<1>12. Starting' /\ Started' /\ Looping' /\ Closing' /\ Held' /\ Tabled'
  <2>1. op \notin {"start", "connected", "join"} /\ (connection # "none" => connection' # "none")
    BY <1>3
  <2> QED
    BY <1>1, <1>2, <1>11, <2>1, QuietDo
<1>13. CodecOutlivesThreads'
  BY <1>2, <1>11, ThreadFacts DEF IInv, CodecOutlivesThreads, Users
<1> QED
  BY <1>8, <1>9, <1>10, <1>12, <1>13 DEF IInv

LEMMA CloseCodecIInv ==
    ASSUME IInv, NEW c \in Callers, CloseCodec(c)
    PROVE  IInv'
<1>1. /\ Do(c, "close", "none") /\ codec' = FALSE
      /\ UNCHANGED <<updating, connection, requested, bContinue, stopped,
                     thread, in_pause, lost, table, thread_mutex>>
  BY DEF CloseCodec, threadVars, tableVars
<1>2. ProgramType'
  BY <1>1, DoFacts
<1>3. ThreadType' /\ TableType' /\ NameType' /\ FlagType'
  BY <1>1 DEF IInv, ThreadType, TableType, NameType, FlagType
<1>4. Starting' /\ Started' /\ Looping' /\ Closing' /\ Held' /\ Tabled'
  BY <1>1, QuietDo
<1>5. CodecOutlivesThreads'
  <2>1. program[c] \in Seq(Steps) /\ program[c] # <<>> /\ Head(program[c]).op = "close"
    <3>1. Step("close", "none").op = "close"
      BY DEF Step
    <3> QED
      BY <1>1, <3>1, DoFacts
  <2>2. JoinsFirst(program[c])
    BY DEF IInv, Closing
  <2>3. Closes(program[c]) /\ \A u \in Users : ~Awaits(program[c], u)
    <3>1. Users # {}
      BY DEF Users
    <3> QED
      BY <2>1, <2>2, <3>1, HeadCloses
  <2>4. \A u \in Users : thread[u] = "ended"
    BY <2>3 DEF IInv, Closing
  <2> QED
    BY <1>1, <2>4 DEF CodecOutlivesThreads, Users
<1> QED
  BY <1>2, <1>3, <1>4, <1>5 DEF IInv

\* The thread is taken out of the table, and awaited with the mutex held.
LEMMA JoinFoundIInv ==
    ASSUME IInv, NEW c \in Callers, NEW t \in Threads, JoinBegins(c, t), t \in table
    PROVE  IInv'
<1>1. /\ thread_mutex = "free" /\ program[c] # <<>> /\ Head(program[c]) = Step("join", t)
      /\ table' = table \ {t} /\ thread_mutex' = c
      /\ UNCHANGED <<program, updating, connection, requested, thread, in_pause, lost,
                     bContinue, stopped, codec>>
  BY DEF JoinBegins, threadVars, endVars
<1>2. ProgramType' /\ ThreadType' /\ NameType' /\ FlagType'
  BY <1>1 DEF IInv, ProgramType, ThreadType, NameType, FlagType
<1>3. TableType'
  BY <1>1 DEF IInv, TableType
<1>4. Starting' /\ Started' /\ Looping' /\ Closing' /\ CodecOutlivesThreads'
  BY <1>1 DEF IInv, Starting, Started, Looping, Closing, CodecOutlivesThreads
<1>5. c # "free"
  BY DEF Callers
<1>6. Held'
  BY <1>1 DEF Held, Step
<1>7. Tabled'
  <2>1. ASSUME NEW u \in Threads \ table'
        PROVE  thread[u] \in {"none", "ended"} \/ u = t
    BY <1>1 DEF IInv, Tabled
  <2> QED
    BY <1>1, <1>5, <2>1 DEF Tabled
<1> QED
  BY <1>2, <1>3, <1>4, <1>6, <1>7 DEF IInv

\* The join ends, or there is nothing to await: in both cases the thread has
\* ended.
LEMMA JoinedIInv ==
    ASSUME IInv, NEW c \in Callers, NEW t \in Threads, Do(c, "join", t), thread[t] = "ended",
           thread_mutex \in {"free", c}, thread_mutex' = "free",
           UNCHANGED <<updating, connection, requested, table>>,
           UNCHANGED <<threadVars, endVars>>
    PROVE  IInv'
<1>1. ProgramType'
  BY DoFacts
<1>2. ThreadType' /\ NameType' /\ FlagType' /\ TableType' /\ CodecOutlivesThreads'
  BY DEF IInv, ThreadType, NameType, FlagType, TableType, CodecOutlivesThreads, threadVars, endVars
<1>3. connection # "none"
  BY DoBefore
<1>4. Starting' /\ Held'
  BY <1>3 DEF Starting, Held
<1>5. Started'
  <2>1. \A d \in Callers : StartsNothing(program'[d])
    BY <1>3, DoRest DEF IInv, Started
  <2> QED
    BY <2>1, <1>3 DEF IInv, Started, threadVars
<1>6. Looping'
  <2>1. ASSUME updating PROVE program'["app_main"] = <<>>
    <3>1. program["app_main"] = <<>>
      BY <2>1 DEF IInv, Looping
    <3>2. c # "app_main" /\ "app_main" \in Callers
      BY <3>1, DoFacts DEF Callers
    <3> QED
      BY <3>1, <3>2, DoFacts
  <2> QED
    BY <2>1 DEF Looping
<1>7. Closing'
  <2>1. ASSUME NEW d \in Callers PROVE JoinsFirst(program'[d])
    BY DoRest
  <2>2. ASSUME NEW d \in Callers, Closes(program'[d]), NEW u \in Users
        PROVE  thread'[u] = "ended" \/ Awaits(program'[d], u)
    <3>1. thread[u] = "ended" \/ Awaits(program[d], u)
      BY <2>2, DoRest DEF IInv, Closing
    <3>2. CASE u = t
      BY <3>2 DEF threadVars
    <3>3. CASE u # t
      <4>1. Step("join", t) # Step("join", u)
        BY <3>3 DEF Step
      <4> QED
        BY <3>1, <4>1, DoRest DEF threadVars
    <3> QED
      BY <3>2, <3>3
  <2> QED
    BY <2>1, <2>2 DEF Closing
<1>8. Tabled'
  <2>1. ASSUME NEW u \in Threads \ table
        PROVE  thread[u] \in {"none", "ended"}
    <3>1. \/ thread[u] \in {"none", "ended"}
          \/ thread_mutex = c /\ Head(program[c]) = Step("join", u)
      BY DEF IInv, Tabled
    <3>2. Head(program[c]) = Step("join", u) => u = t
      <4>1. Head(program[c]) = Step("join", t)
        BY DoFacts
      <4>2. Step("join", t) = Step("join", u) => u = t
        BY DEF Step
      <4> QED
        BY <4>1, <4>2
    <3> QED
      BY <3>1, <3>2
  <2> QED
    BY <2>1 DEF Tabled, threadVars
<1> QED
  BY <1>1, <1>2, <1>4, <1>5, <1>6, <1>7, <1>8 DEF IInv

LEMMA JoinIInv ==
    ASSUME IInv, NEW c \in Callers, NEW t \in Threads, JoinBegins(c, t) \/ JoinEnds(c, t)
    PROVE  IInv'
<1>1. CASE JoinBegins(c, t) /\ t \in table
  BY <1>1, JoinFoundIInv
<1>2. CASE JoinBegins(c, t) /\ t \notin table
  <2>1. /\ thread_mutex = "free" /\ Do(c, "join", t)
        /\ UNCHANGED <<updating, connection, requested, table, thread_mutex>>
        /\ UNCHANGED <<threadVars, endVars>>
    BY <1>2 DEF JoinBegins, tableVars
  <2>2. thread[t] \in {"none", "ended"}
    BY <1>2, <2>1 DEF IInv, Tabled
  <2>3. connection # "none"
    BY <2>1, DoBefore
  <2>4. thread[t] = "ended"
    BY <2>2, <2>3 DEF IInv, Started
  <2> QED
    BY <2>1, <2>4, JoinedIInv
<1>3. CASE JoinEnds(c, t)
  <2>1. /\ thread_mutex = c /\ Do(c, "join", t) /\ thread[t] = "ended" /\ thread_mutex' = "free"
        /\ UNCHANGED <<updating, connection, requested, table>>
        /\ UNCHANGED <<threadVars, endVars>>
    BY <1>3 DEF JoinEnds
  <2> QED
    BY <2>1, JoinedIInv
<1> QED
  BY <1>1, <1>2, <1>3

\* A caller enters the shutdown of a thread of the Academy, or passes it over.
LEMMA ShutdownFacts ==
    ASSUME IInv, NEW c \in Callers, NEW t \in Academy, ShutdownAcademy(c, t)
    PROVE  LET q == IF t \in stopped THEN <<>> ELSE Ending(t)
           IN  /\ program[c] \in Seq(Steps) /\ program[c] # <<>>
               /\ Head(program[c]) = Step("shutdown", t) /\ Tail(program[c]) \in Seq(Steps)
               /\ q \in Seq(Steps) /\ Sound(q) /\ ~Closes(q)
               /\ program'[c] = q \o Tail(program[c])
               /\ \A d \in Callers : d # c => program'[d] = program[d]
               /\ ProgramType'
<1> DEFINE q == IF t \in stopped THEN <<>> ELSE Ending(t)
<1>1. program \in [Callers -> Seq(Steps)]
  BY DEF IInv, ProgramType
<1>2. /\ program[c] \in Seq(Steps) /\ program[c] # <<>> /\ Head(program[c]) = Step("shutdown", t)
      /\ program' = [program EXCEPT ![c] = q \o Tail(program[c])]
  BY <1>1 DEF ShutdownAcademy
<1>3. Tail(program[c]) \in Seq(Steps)
  BY <1>2, TailFacts
<1>4. Sound(q) /\ ~Closes(q)
  <2>1. <<>> \in Seq(Steps)
    BY EmptySeq
  <2> QED
    BY <2>1, EndingSound, EmptyProgram DEF Sound
<1> HIDE DEF q
<1>5. q \in Seq(Steps)
  BY <1>4 DEF Sound
<1>6. q \o Tail(program[c]) \in Seq(Steps)
  BY <1>3, <1>5, ConcatFacts
<1>7. program' \in [Callers -> Seq(Steps)]
  BY <1>1, <1>2, <1>6
<1>8. program'[c] = q \o Tail(program[c]) /\ \A d \in Callers : d # c => program'[d] = program[d]
  BY <1>1, <1>2
<1> USE DEF q
<1> QED
  BY <1>2, <1>3, <1>4, <1>5, <1>7, <1>8 DEF ProgramType

LEMMA ShutdownKeeps ==
    ASSUME IInv, NEW c \in Callers, NEW t \in Academy, ShutdownAcademy(c, t), NEW d \in Callers
    PROVE  /\ JoinsFirst(program'[d])
           /\ Closes(program'[d]) => Closes(program[d])
           /\ StartsNothing(program[d]) => StartsNothing(program'[d])
           /\ \A u : Awaits(program[d], u) => Awaits(program'[d], u)
<1>1. CASE d # c
  BY <1>1, ShutdownFacts DEF IInv, Closing
<1>2. CASE d = c
  <2>1. PICK q : /\ program[c] \in Seq(Steps) /\ program[c] # <<>>
                 /\ Head(program[c]) = Step("shutdown", t) /\ Tail(program[c]) \in Seq(Steps)
                 /\ q \in Seq(Steps) /\ Sound(q) /\ ~Closes(q)
                 /\ program'[c] = q \o Tail(program[c])
    BY ShutdownFacts
  <2> DEFINE p == program[c]
             r == Tail(p)
  <2>2. /\ p \in Seq(Steps) /\ p # <<>> /\ Head(p) = Step("shutdown", t) /\ r \in Seq(Steps)
        /\ JoinsFirst(p)
    BY <2>1 DEF IInv, Closing
  <2>3. JoinsFirst(r)
    BY <2>2, TailJoinsFirst
  <2>4. Closes(r) => Closes(p)
    BY <2>2, TailCloses
  <2>5. StartsNothing(p) => StartsNothing(r)
    BY <2>2, TailStartsNothing
  <2>6. ASSUME NEW u, Awaits(p, u) PROVE Awaits(r, u)
    <3>1. Step("shutdown", t) # Step("join", u)
      BY DEF Step
    <3> QED
      BY <2>2, <2>6, <3>1, TailAwaits
  <2>7. /\ program'[d] = q \o r /\ program[d] = p
        /\ q \in Seq(Steps) /\ JoinsFirst(q) /\ StartsNothing(q) /\ ~Closes(q)
    BY <1>2, <2>1 DEF Sound
  <2> HIDE DEF r
  <2>8. JoinsFirst(q \o r)
    BY <2>2, <2>3, <2>7, ConcatJoinsFirst
  <2>9. Closes(q \o r) => Closes(p)
    BY <2>2, <2>4, <2>7, ConcatCloses
  <2>10. StartsNothing(p) => StartsNothing(q \o r)
    BY <2>2, <2>5, <2>7, ConcatStartsNothing
  <2>11. \A u : Awaits(p, u) => Awaits(q \o r, u)
    BY <2>2, <2>6, <2>7, ConcatAwaits
  <2> QED
    BY <2>7, <2>8, <2>9, <2>10, <2>11
<1> QED
  BY <1>1, <1>2

LEMMA ShutdownIInv ==
    ASSUME IInv, NEW c \in Callers, NEW t \in Academy, ShutdownAcademy(c, t)
    PROVE  IInv'
<1>1. UNCHANGED <<updating, connection, requested, thread, in_pause, lost, table, thread_mutex,
                  bContinue, stopped, codec>>
  BY DEF ShutdownAcademy, threadVars, tableVars, endVars
<1>2. /\ program[c] \in Seq(Steps) /\ program[c] # <<>> /\ Head(program[c]) = Step("shutdown", t)
      /\ ProgramType' /\ \A d \in Callers : d # c => program'[d] = program[d]
  BY ShutdownFacts
<1>3. Head(program[c]).op = "shutdown"
  BY <1>2 DEF Step
<1>4. ThreadType' /\ TableType' /\ FlagType' /\ NameType' /\ CodecOutlivesThreads'
  BY <1>1 DEF IInv, ThreadType, TableType, FlagType, NameType, CodecOutlivesThreads
<1>5. connection # "none"
  <2>1. ASSUME connection = "none" PROVE FALSE
    <3>1. program["worker"] = <<>> /\ Starts(program["app_main"])
      BY <2>1 DEF IInv, Starting
    <3>2. c = "app_main"
      BY <1>2, <3>1 DEF Callers
    <3>3. Head(program["app_main"]).op \in {"start", "connected"}
      BY <3>1, TailStarts
    <3> QED
      BY <1>3, <3>2, <3>3
  <2> QED
    BY <2>1
<1>6. Starting'
  BY <1>1, <1>5 DEF Starting
<1>7. Started'
  <2>1. \A d \in Callers : StartsNothing(program'[d])
    BY <1>5, ShutdownKeeps DEF IInv, Started
  <2> QED
    BY <1>1, <1>5, <2>1 DEF IInv, Started
<1>8. Looping'
  <2>1. ASSUME updating PROVE program'["app_main"] = <<>>
    <3>1. program["app_main"] = <<>> /\ "app_main" \in Callers
      BY <2>1 DEF IInv, Looping, Callers
    <3>2. c # "app_main"
      BY <1>2, <3>1
    <3> QED
      BY <1>2, <3>1, <3>2
  <2> QED
    BY <1>1, <2>1 DEF Looping
<1>9. Closing'
  <2>1. ASSUME NEW d \in Callers PROVE JoinsFirst(program'[d])
    BY ShutdownKeeps
  <2>2. ASSUME NEW d \in Callers, Closes(program'[d]), NEW u \in Users
        PROVE  thread'[u] = "ended" \/ Awaits(program'[d], u)
    <3>1. Closes(program[d])
      BY <2>2, ShutdownKeeps
    <3>2. thread[u] = "ended" \/ Awaits(program[d], u)
      BY <3>1 DEF IInv, Closing
    <3> QED
      BY <1>1, <3>2, ShutdownKeeps
  <2> QED
    BY <2>1, <2>2 DEF Closing
<1>10. thread_mutex # "free" => program'[thread_mutex] = program[thread_mutex]
  <2>1. thread_mutex # "free" => /\ thread_mutex \in Callers
                                 /\ Head(program[thread_mutex]).op = "join"
    BY DEF IInv, TableType, Held
  <2> QED
    BY <1>2, <1>3, <2>1
<1>11. Held' /\ Tabled'
  BY <1>1, <1>10 DEF IInv, Held, Tabled
<1> QED
  BY <1>2, <1>4, <1>6, <1>7, <1>8, <1>9, <1>11 DEF IInv

\* Whoever locks a destroyed mutex stays where it is.
LEMMA LockIInv ==
    ASSUME IInv, NEW c \in Callers, NEW t \in Threads, LockDestroyed(c, t)
    PROVE  IInv'
<1>1. UNCHANGED <<program, updating, connection, requested, thread, in_pause, table, thread_mutex,
                  bContinue, stopped, codec>>
  BY DEF LockDestroyed, appVars, tableVars, endVars
<1>2. lost' = lost \cup {c}
  BY DEF LockDestroyed
<1>3. ProgramType' /\ ThreadType' /\ TableType' /\ FlagType' /\ NameType' /\ CodecOutlivesThreads'
  BY <1>1, <1>2
  DEF IInv, ProgramType, ThreadType, TableType, FlagType, NameType, CodecOutlivesThreads
<1>4. Starting' /\ Started' /\ Looping' /\ Closing' /\ Held' /\ Tabled'
  BY <1>1 DEF IInv, Starting, Started, Looping, Closing, Held, Tabled
<1> QED
  BY <1>3, <1>4 DEF IInv

\* Steps of the threads, where one that has ended stays so.
LEMMA RunningIInv ==
    ASSUME IInv, UNCHANGED <<appVars, tableVars, endVars>>, ThreadType',
           \A u \in Threads : /\ thread[u] = "none" <=> thread'[u] = "none"
                              /\ thread[u] = "ended" => thread'[u] = "ended"
    PROVE  IInv'
<1>1. ProgramType' /\ TableType' /\ NameType' /\ FlagType'
  BY DEF IInv, ProgramType, TableType, NameType, FlagType, appVars, tableVars, endVars
<1>2. Starting' /\ Started' /\ Looping' /\ Held'
  BY DEF IInv, Starting, Started, Looping, Held, appVars, tableVars, endVars
<1>3. Closing' /\ CodecOutlivesThreads'
  <2>1. \A u \in Users : thread[u] = "ended" => thread'[u] = "ended"
    BY ThreadFacts
  <2> QED
    BY <2>1 DEF IInv, Closing, CodecOutlivesThreads, Users, appVars, endVars
<1>4. Tabled'
  BY DEF IInv, Tabled, appVars, tableVars
<1> QED
  BY <1>1, <1>2, <1>3, <1>4 DEF IInv

LEMMA ThreadIInv ==
    ASSUME IInv, NEW t \in Threads, ThreadRuns(t) \/ SpuriousWakeup(t)
    PROVE  IInv'
<1>1. UNCHANGED <<appVars, tableVars, endVars>> /\ UNCHANGED lost
  BY DEF ThreadRuns, SpuriousWakeup, Begin, Top, Block, Body, AcademyBody
<1>2. /\ thread[t] \notin {"none", "ended"}
      /\ \E next \in Places \ {"none"} : thread' = [thread EXCEPT ![t] = next]
  BY DEF ThreadRuns, SpuriousWakeup, Begin, Top, Block, Body, AcademyBody, Succeeds, Places
<1>3. thread' \in [Threads -> Places]
  BY <1>2 DEF IInv, ThreadType
<1>4. in_pause' \in [Threads -> BOOLEAN]
  <2>1. UNCHANGED in_pause \/ \E b \in BOOLEAN : in_pause' = [in_pause EXCEPT ![t] = b]
    BY DEF ThreadRuns, SpuriousWakeup, Begin, Top, Block, Body, AcademyBody
  <2> QED
    BY <2>1 DEF IInv, ThreadType
<1>5. \A u \in Threads : /\ thread[u] = "none" <=> thread'[u] = "none"
                         /\ thread[u] = "ended" => thread'[u] = "ended"
  BY <1>2 DEF IInv, ThreadType
<1>6. ThreadType'
  BY <1>1, <1>3, <1>4 DEF IInv, ThreadType
<1> QED
  BY <1>1, <1>5, <1>6, RunningIInv

\* The handler of the navdata thread wakes academy_download, or is lost.
LEMMA ResumeDownloadFacts ==
    ASSUME IInv, ResumeDownload
    PROVE  /\ ThreadType'
           /\ \A u \in Threads : thread'[u] = thread[u] \/ (thread[u] = "blocked" /\ thread'[u] = "body")
<1>1. CASE /\ Signalled("academy_download") /\ UNCHANGED lost
           /\ in_pause' = [in_pause EXCEPT !["academy_download"] = FALSE]
  <2>1. "academy_download" \in Threads
    BY ThreadFacts
  <2>2. /\ thread' \in [Threads -> Places]
        /\ \A u \in Threads : thread'[u] = thread[u] \/ (thread[u] = "blocked" /\ thread'[u] = "body")
    BY <1>1, <2>1, SignalledFacts
  <2>3. in_pause' \in [Threads -> BOOLEAN]
    BY <1>1 DEF IInv, ThreadType
  <2>4. ThreadType'
    BY <1>1, <2>2, <2>3 DEF IInv, ThreadType
  <2> QED
    BY <2>2, <2>4
<1>2. CASE lost' = lost \cup {"navdata_update"} /\ UNCHANGED <<thread, in_pause>>
  <2>1. lost' \subseteq Callers \cup {"navdata_update"}
    BY <1>2 DEF IInv, ThreadType
  <2>2. ThreadType'
    BY <1>2, <2>1 DEF IInv, ThreadType
  <2>3. \A u \in Threads : thread'[u] = thread[u]
    BY <1>2
  <2> QED
    BY <2>2, <2>3
<1> QED
  BY <1>1, <1>2 DEF ResumeDownload

LEMMA StutterIInv == IInv /\ UNCHANGED vars => IInv'
  BY DEF vars, appVars, threadVars, tableVars, endVars, IInv, ProgramType, ThreadType, TableType, NameType,
     FlagType, Starting, Started, Looping, Closing, Held, Tabled, CodecOutlivesThreads

LEMMA NextIInv == IInv /\ [Next]_vars => IInv'
<1> SUFFICES ASSUME IInv, [Next]_vars PROVE IInv'
  OBVIOUS
<1>1. ASSUME NEW c \in Callers, Run(c) PROVE IInv'
  <2>1. CASE \E t \in Threads : Start(c, t)
    BY <2>1, StartIInv
  <2>2. CASE \E t \in Threads : Suspend(c, t) \/ ResumeThread(c, t) \/ Stop(c, t) \/ Signal(c, t)
    BY <2>2, QuietIInv
  <2>3. CASE \E t \in Threads : JoinBegins(c, t) \/ JoinEnds(c, t)
    BY <2>3, JoinIInv
  <2>4. CASE ExitFlag(c)
    BY <2>4, QuietIInv DEF Threads
  <2>5. CASE CloseCodec(c)
    BY <2>5, CloseCodecIInv
  <2>6. CASE \E t \in Threads : LockDestroyed(c, t)
    BY <2>6, LockIInv
  <2>7. CASE \E t \in Academy : ShutdownAcademy(c, t)
    BY <2>7, ShutdownIInv
  <2> QED
    BY <1>1, <2>1, <2>2, <2>3, <2>4, <2>5, <2>6, <2>7 DEF Run
<1>2. CASE AppMain
  BY <1>1, <1>2, ConnectedIInv, EndLoopIInv, QuietIInv DEF AppMain, Callers, Threads
<1>3. CASE Run("worker")
  BY <1>1, <1>3 DEF Callers
<1>4. CASE \E name \in {"pause", "resume", "exit"} : Call(name)
  BY <1>4, CallIInv
<1>5. CASE \E t \in Threads : ThreadRuns(t) \/ SpuriousWakeup(t)
  BY <1>5, ThreadIInv
<1>6. CASE UNCHANGED vars
  BY <1>6, StutterIInv
<1>7. CASE ResumeDownload
  <2>1. UNCHANGED <<appVars, tableVars, endVars>>
    BY <1>7 DEF ResumeDownload
  <2>2. ThreadType'
    BY <1>7, ResumeDownloadFacts
  <2>3. \A u \in Threads : thread'[u] = thread[u] \/ (thread[u] = "blocked" /\ thread'[u] = "body")
    BY <1>7, ResumeDownloadFacts
  <2>4. \A u \in Threads : /\ thread[u] = "none" <=> thread'[u] = "none"
                           /\ thread[u] = "ended" => thread'[u] = "ended"
    BY <2>3
  <2> QED
    BY <2>1, <2>2, <2>4, RunningIInv
<1> QED
  BY <1>2, <1>3, <1>4, <1>5, <1>6, <1>7 DEF Next

LEMMA Safety == Spec => []IInv
  BY InitIInv, NextIInv, PTL DEF Spec

\* The programs, the threads and their table keep their types, and the mutex of
\* the table is held only at a join.
THEOREM TypeCorrect == Spec => []TypeOK
<1>1. IInv => TypeOK
  <2> SUFFICES ASSUME IInv PROVE TypeOK
    OBVIOUS
  <2>1. ASSUME NEW c \in Callers, NEW i \in DOMAIN program[c]
        PROVE  program[c][i].thread \in Threads \cup {"none"}
    <3>1. program[c] \in Seq(Steps)
      BY DEF IInv, ProgramType
    <3>2. program[c][i] \in Steps
      BY <3>1, LenProperties, ElementOfSeq
    <3> QED
      BY <3>2 DEF Steps
  <2> QED
    BY <2>1 DEF IInv, ThreadType, TableType, FlagType, NameType, Places, Held, TypeOK
<1> QED
  BY <1>1, Safety, PTL

\* With one video thread and with two, however the two shutdowns interleave,
\* the AT codec is closed only after the control thread and the navdata thread
\* have ended: a caller that does not find a thread in the table comes after
\* the join of the other (vp_os_thread_join holds the mutex while it awaits).
THEOREM CodecClosedLast == Spec => []CodecOutlivesThreads
<1>1. IInv => CodecOutlivesThreads
  BY DEF IInv
<1> QED
  BY <1>1, Safety, PTL

-----------------------------------------------------------------------------
(* The report of the end.  It is the last step of app_main, and a thread   *)
(* that has not ended is one app_main has still to await or to shut down;  *)
(* one that it passes over has been awaited by the worker, or, if it is    *)
(* one of the Academy, the worker has still to await it.                   *)

Tells(p) == \E i \in 1 .. Len(p) : p[i].op = "disconnected"
TellsLast(p) == \A i \in 1 .. Len(p) : p[i].op = "disconnected" => i = Len(p)

\* A thread that is told to end is awaited further on.
StopsThenAwaits(p) == \A i \in 1 .. Len(p) :
    p[i].op = "stop" => \E j \in 1 .. Len(p) : j > i /\ p[j] = Step("join", p[i].thread)

Orderly(p) == TellsLast(p) /\ StopsThenAwaits(p)
Silent(p) == p \in Seq(Steps) /\ ~Tells(p) /\ StopsThenAwaits(p)
ShutsDown(p, t) == Has(p, Step("shutdown", t))
Ahead(p, t) == Awaits(p, t) \/ ShutsDown(p, t)

Settled(t) == \/ thread[t] = "ended"
              \/ t \in Academy /\ t \in stopped /\ Awaits(program["worker"], t)

\* The second inductive invariant, on top of the first.
Telling ==
    /\ connection = "disconnected" => \A t \in Threads : Settled(t)
    /\ \A c \in Callers : Orderly(program[c])
    /\ ~Tells(program["worker"])
    /\ Tells(program["app_main"]) =>
          \A t \in Threads : Settled(t) \/ Ahead(program["app_main"], t)
    /\ \A t \in Academy \cap stopped :
          thread[t] = "ended" \/ \E c \in Callers : Awaits(program[c], t)
    /\ connection = "none" => stopped = {}

LEMMA SilentOrderly == \A p : Silent(p) => Orderly(p)
  BY DEF Silent, Tells, TellsLast, Orderly

LEMMA StartsSilent == \A p : Starts(p) => Silent(p)
<1> SUFFICES ASSUME NEW p, Starts(p) PROVE Silent(p)
  OBVIOUS
<1>1. Step("connected", "none").op = "connected"
  BY DEF Step
<1>2. \A i \in 1 .. Len(p) : p[i].op \in {"start", "connected"}
  BY <1>1 DEF Starts
<1> QED
  BY <1>2 DEF Starts, Silent, Tells, StopsThenAwaits

LEMMA EmptySilent == Silent(<<>>)
  BY EmptySeq DEF Silent, Tells, StopsThenAwaits

\* Steps that neither tell a thread to end nor report.
LEMMA PlainSilent ==
    ASSUME NEW p \in Seq(Steps), \A i \in 1 .. Len(p) : p[i].op \notin {"stop", "disconnected"}
    PROVE  Silent(p)
  BY DEF Silent, Tells, StopsThenAwaits

LEMMA ConcatOrderly ==
    ASSUME NEW p \in Seq(Steps), NEW q \in Seq(Steps), ~Tells(p), StopsThenAwaits(p), Orderly(q)
    PROVE  /\ Orderly(p \o q)
           /\ Tells(p \o q) => Tells(q)
<1> DEFINE r == p \o q
           n == Len(p)
<1>1. /\ Len(r) = n + Len(q) /\ n \in Nat /\ Len(q) \in Nat
      /\ \A i \in 1 .. n : i \in 1 .. Len(r) /\ r[i] = p[i]
      /\ \A i \in 1 .. Len(q) : n + i \in 1 .. Len(r) /\ r[n + i] = q[i]
      /\ \A i \in 1 .. Len(r) : \/ i <= n /\ i \in 1 .. n /\ r[i] = p[i]
                                \/ i > n /\ i - n \in 1 .. Len(q) /\ r[i] = q[i - n]
  BY ConcatFacts
<1> HIDE DEF r
<1>2. ASSUME NEW i \in 1 .. Len(r), r[i].op = "disconnected"
      PROVE  i = Len(r) /\ Tells(q)
  <2>1. CASE i \in 1 .. n /\ r[i] = p[i]
    BY <1>2, <2>1 DEF Tells
  <2>2. CASE i > n /\ i - n \in 1 .. Len(q) /\ r[i] = q[i - n]
    <3>1. i - n = Len(q)
      BY <1>2, <2>2 DEF Orderly, TellsLast
    <3>2. Tells(q)
      BY <1>2, <2>2 DEF Tells
    <3> QED
      BY <1>1, <3>1, <3>2
  <2> QED
    BY <1>1, <2>1, <2>2
<1>3. ASSUME NEW i \in 1 .. Len(r), r[i].op = "stop"
      PROVE  \E j \in 1 .. Len(r) : j > i /\ r[j] = Step("join", r[i].thread)
  <2>1. CASE i \in 1 .. n /\ r[i] = p[i]
    <3>1. PICK j \in 1 .. n : j > i /\ p[j] = Step("join", p[i].thread)
      BY <1>3, <2>1 DEF StopsThenAwaits
    <3>2. j \in 1 .. Len(r) /\ r[j] = p[j]
      BY <1>1
    <3> QED
      BY <2>1, <3>1, <3>2
  <2>2. CASE i > n /\ i - n \in 1 .. Len(q) /\ r[i] = q[i - n]
    <3>1. q[i - n].op = "stop"
      BY <1>3, <2>2
    <3>2. PICK j \in 1 .. Len(q) : j > i - n /\ q[j] = Step("join", q[i - n].thread)
      BY <2>2, <3>1 DEF Orderly, StopsThenAwaits
    <3>3. n + j \in 1 .. Len(r) /\ r[n + j] = q[j]
      BY <1>1
    <3>4. n + j > i
      BY <1>1, <3>2
    <3> QED
      BY <2>2, <3>2, <3>3, <3>4
  <2> QED
    BY <1>1, <2>1, <2>2
<1>4. Orderly(r) /\ (Tells(r) => Tells(q))
  BY <1>2, <1>3 DEF Orderly, TellsLast, StopsThenAwaits, Tells
<1> QED
  BY <1>4 DEF r

LEMMA ConcatSilent ==
    ASSUME NEW p, NEW q, Silent(p), Silent(q)
    PROVE  Silent(p \o q)
<1>1. p \in Seq(Steps) /\ q \in Seq(Steps) /\ ~Tells(p) /\ ~Tells(q) /\ StopsThenAwaits(p)
  BY DEF Silent
<1>2. Orderly(q)
  BY SilentOrderly
<1>3. p \o q \in Seq(Steps)
  BY <1>1, ConcatFacts
<1>4. Orderly(p \o q) /\ ~Tells(p \o q)
  BY <1>1, <1>2, ConcatOrderly
<1> QED
  BY <1>3, <1>4 DEF Silent, Orderly

LEMMA TailOrderly ==
    ASSUME NEW p \in Seq(Steps), p # <<>>, Orderly(p)
    PROVE  /\ Orderly(Tail(p))
           /\ Tells(Tail(p)) => Tells(p)
           /\ Head(p).op = "disconnected" => Tells(p) /\ Len(p) = 1
           /\ Head(p).op = "stop" => Awaits(Tail(p), Head(p).thread)
<1> DEFINE q == Tail(p)
           h == Head(p)
           n == Len(p)
<1>1. /\ n \in Nat \ {0} /\ h = p[1] /\ Len(q) = n - 1
      /\ \A i \in 1 .. n - 1 : q[i] = p[i + 1]
  BY TailFacts
<1>2. \A i \in 1 .. n : p[i].op = "disconnected" => i = n /\ Tells(p)
  BY DEF Orderly, TellsLast, Tells
<1>3. \A i \in 1 .. n : p[i].op = "stop" => \E j \in 1 .. n : j > i /\ p[j] = Step("join", p[i].thread)
  BY DEF Orderly, StopsThenAwaits
<1> HIDE DEF q, h
<1>4. ASSUME NEW i \in 1 .. Len(q), q[i].op = "disconnected"
      PROVE  i = Len(q) /\ Tells(p)
  <2>1. i + 1 \in 1 .. n /\ p[i + 1].op = "disconnected"
    BY <1>1, <1>4
  <2>2. i + 1 = n /\ Tells(p)
    BY <1>2, <2>1
  <2> QED
    BY <1>1, <2>2
<1>5. ASSUME NEW i \in 1 .. n, p[i].op = "stop"
      PROVE  \E j \in 1 .. Len(q) : j > i - 1 /\ q[j] = Step("join", p[i].thread)
  <2>1. PICK j \in 1 .. n : j > i /\ p[j] = Step("join", p[i].thread)
    BY <1>3, <1>5
  <2>2. j - 1 \in 1 .. Len(q) /\ j - 1 > i - 1 /\ q[j - 1] = p[j]
    BY <1>1, <2>1
  <2> QED
    BY <2>1, <2>2
<1>6. StopsThenAwaits(q)
  <2> SUFFICES ASSUME NEW i \in 1 .. Len(q), q[i].op = "stop"
               PROVE  \E j \in 1 .. Len(q) : j > i /\ q[j] = Step("join", q[i].thread)
    BY DEF StopsThenAwaits
  <2>1. i + 1 \in 1 .. n /\ p[i + 1] = q[i] /\ i + 1 - 1 = i
    BY <1>1
  <2>2. \E j \in 1 .. Len(q) : j > i + 1 - 1 /\ q[j] = Step("join", p[i + 1].thread)
    BY <1>5, <2>1
  <2> QED
    BY <2>1, <2>2
<1>7. TellsLast(q) /\ (Tells(q) => Tells(p))
  BY <1>4 DEF TellsLast, Tells
<1>8. 1 \in 1 .. n
  BY <1>1
<1>9. h.op = "disconnected" => Tells(p) /\ n = 1
  BY <1>1, <1>2, <1>8
<1>10. h.op = "stop" => Awaits(q, h.thread)
  BY <1>1, <1>5, <1>8 DEF Awaits
<1> QED
  BY <1>6, <1>7, <1>9, <1>10 DEF q, h, Orderly

-----------------------------------------------------------------------------
(* The procedures again.                                                   *)

LEMMA ForSilent ==
    ASSUME NEW op \in Ops \ {"stop", "disconnected"}, NEW threads \in Seq(Threads)
    PROVE  Silent(For(op, threads))
<1> DEFINE s == For(op, threads)
<1>1. s \in Seq(Steps) /\ Len(s) = Len(threads) /\ \A i \in 1 .. Len(threads) : s[i].op = op
  BY ForFacts
<1> HIDE DEF s
<1>2. \A i \in 1 .. Len(s) : s[i].op \notin {"stop", "disconnected"}
  BY <1>1
<1>3. Silent(s)
  BY <1>1, <1>2, PlainSilent
<1> QED
  BY <1>3 DEF s

LEMMA StepSilent ==
    ASSUME NEW op \in {"suspend", "resume", "exit"}, NEW t \in Threads \cup {"none"}
    PROVE  Silent(<<Step(op, t)>>)
<1>1. Step(op, t) \in Steps /\ Step(op, t).op = op
  BY DEF Step, Steps, Ops
<1> DEFINE s == <<Step(op, t)>>
<1>2. s \in Seq(Steps) /\ Len(s) = 1 /\ s[1].op = op
  BY <1>1
<1> HIDE DEF s
<1>3. Silent(s)
  BY <1>2, PlainSilent
<1> QED
  BY <1>3 DEF s

LEMMA CoreSilent == Silent(Core)
<1>1. Core \in Seq(Steps) /\ Len(Core) = 6
  BY CoreSound DEF Sound, Core
<1>2. /\ Core[1] = Step("stop", "navdata_update") /\ Core[2].op = "signal"
      /\ Core[3] = Step("stop", "ardrone_control")
      /\ Core[4] = Step("join", "ardrone_control") /\ Core[5] = Step("join", "navdata_update")
      /\ Core[4].op = "join" /\ Core[5].op = "join" /\ Core[6].op = "close"
  BY DEF Core, Step
<1>3. /\ Core[1].op = "stop" /\ Core[1].thread = "navdata_update"
      /\ Core[3].op = "stop" /\ Core[3].thread = "ardrone_control"
  BY <1>2 DEF Step
<1>4. ASSUME NEW i \in 1 .. Len(Core), Core[i].op = "stop"
      PROVE  \E j \in 1 .. Len(Core) : j > i /\ Core[j] = Step("join", Core[i].thread)
  <2>1. i = 1 \/ i = 3
    BY <1>1, <1>2, <1>4
  <2>2. CASE i = 1
    <3>1. 5 \in 1 .. Len(Core) /\ 5 > i /\ Core[5] = Step("join", Core[i].thread)
      BY <1>1, <1>2, <1>3, <2>2
    <3> QED
      BY <3>1
  <2>3. CASE i = 3
    <3>1. 4 \in 1 .. Len(Core) /\ 4 > i /\ Core[4] = Step("join", Core[i].thread)
      BY <1>1, <1>2, <1>3, <2>3
    <3> QED
      BY <3>1
  <2> QED
    BY <2>1, <2>2, <2>3
<1>5. ~Tells(Core)
  BY <1>1, <1>2, <1>3 DEF Tells
<1> QED
  BY <1>1, <1>4, <1>5 DEF Silent, StopsThenAwaits

\* ardrone_tool_shutdown awaits the users of the codec, and shuts the threads of
\* the Academy down.
LEMMA ShutdownAhead ==
    /\ Silent(Shutdown)
    /\ \A t \in Users \cup Academy : Ahead(Shutdown, t)
<1> DEFINE f == For("shutdown", AcademyThreads)
<1>1. Shutdown = Core \o f
  BY DEF Shutdown, Core
<1>2. Silent(f)
  BY AcademyFacts, ForSilent DEF Ops
<1>3. ASSUME NEW t \in Academy PROVE Has(f, Step("shutdown", t))
  <2>1. PICK i \in 1 .. Len(AcademyThreads) : AcademyThreads[i] = t
    BY AcademyFacts
  <2>2. Len(f) = Len(AcademyThreads) /\ f[i] = Step("shutdown", t)
    BY <2>1, ForFacts, AcademyFacts DEF Ops
  <2> QED
    BY <2>2 DEF Has
<1>4. \A t \in Users : Awaits(Core, t)
  <2>1. Len(Core) = 6 /\ Core[4] = Step("join", "ardrone_control")
        /\ Core[5] = Step("join", "navdata_update")
    BY DEF Core
  <2> QED
    BY <2>1 DEF Awaits, Users
<1> HIDE DEF f
<1>5. Core \in Seq(Steps) /\ f \in Seq(Steps)
  BY <1>2, CoreSilent DEF Silent
<1>6. ASSUME NEW t \in Academy PROVE Ahead(Core \o f, t)
  <2>1. Has(Core \o f, Step("shutdown", t))
    BY <1>3, <1>5, ConcatHas
  <2> QED
    BY <2>1 DEF Ahead, ShutsDown
<1>7. ASSUME NEW t \in Users PROVE Ahead(Core \o f, t)
  <2>1. Awaits(Core \o f, t)
    BY <1>4, <1>5, ConcatAwaits
  <2> QED
    BY <2>1 DEF Ahead
<1>8. Silent(Core \o f)
  BY <1>2, CoreSilent, ConcatSilent
<1> QED
  BY <1>1, <1>6, <1>7, <1>8

LEMMA EndingSilent ==
    ASSUME NEW t \in Academy
    PROVE  Silent(Ending(t))
<1> DEFINE e == Ending(t)
<1>1. /\ e \in Seq(Steps) /\ Len(e) = 3 /\ e[1] = Step("stop", t)
      /\ e[1].op = "stop" /\ e[2].op \in {"resume", "signal"}
      /\ e[3] = Step("join", t) /\ e[3].op = "join"
  BY EndingFacts
<1> HIDE DEF e
<1>2. e[1].thread = t
  BY <1>1 DEF Step
<1>3. ASSUME NEW i \in 1 .. Len(e), e[i].op = "stop"
      PROVE  \E j \in 1 .. Len(e) : j > i /\ e[j] = Step("join", e[i].thread)
  <2>1. i = 1
    BY <1>1, <1>3
  <2>2. 3 \in 1 .. Len(e) /\ 3 > i /\ e[3] = Step("join", e[i].thread)
    BY <1>1, <1>2, <2>1
  <2> QED
    BY <2>2
<1>4. ~Tells(e)
  BY <1>1 DEF Tells
<1>5. Silent(e)
  BY <1>1, <1>3, <1>4 DEF Silent, StopsThenAwaits
<1> QED
  BY <1>5 DEF e

\* The worker's procedures report nothing.
LEMMA CallsSilent == Silent(Pause) /\ Silent(Resume) /\ Silent(Resume \o Exit)
<1>1. ASSUME NEW op \in {"suspend", "resume"}
      PROVE  Silent(For(op, VideoThreads) \o <<Step(op, "navdata_update")>>)
  <2>1. Silent(For(op, VideoThreads))
    BY VideoFacts, ForSilent DEF Ops
  <2>2. Silent(<<Step(op, "navdata_update")>>)
    BY StepSilent DEF Threads, Sleepers, Pausable
  <2> QED
    BY <2>1, <2>2, ConcatSilent
<1>2. Silent(Pause) /\ Silent(Resume)
  BY <1>1 DEF Pause, Resume
<1>3. Silent(Pause \o <<Step("exit", "none")>>)
  BY <1>2, StepSilent, ConcatSilent
<1>4. Silent(Exit)
  BY <1>3, ShutdownAhead, ConcatSilent DEF Exit
<1> QED
  BY <1>2, <1>4, ConcatSilent

LEMMA ConcatAhead ==
    ASSUME NEW p \in Seq(Steps), NEW q \in Seq(Steps), NEW t, Ahead(p, t) \/ Ahead(q, t)
    PROVE  Ahead(p \o q, t)
<1>1. Awaits(p, t) \/ Awaits(q, t) => Awaits(p \o q, t)
  BY ConcatAwaits
<1>2. Has(p, Step("shutdown", t)) \/ Has(q, Step("shutdown", t)) => Has(p \o q, Step("shutdown", t))
  BY ConcatHas
<1> QED
  BY <1>1, <1>2 DEF Ahead, ShutsDown

\* The end of app_main awaits every thread or shuts it down, and reports last.
LEMMA TearDownAhead == Orderly(TearDown) /\ \A t \in Threads : Ahead(TearDown, t)
<1> DEFINE v == For("join", VideoThreads)
           a == v \o Shutdown
           d == <<Step("disconnected", "none")>>
<1>1. Silent(v)
  BY VideoFacts, ForSilent DEF Ops
<1>2. Silent(a)
  BY <1>1, ShutdownAhead, ConcatSilent
<1>3. d \in Seq(Steps) /\ Orderly(d)
  <2>1. Step("disconnected", "none") \in Steps /\ Step("disconnected", "none").op = "disconnected"
    BY DEF Step, Steps, Ops
  <2>2. d \in Seq(Steps) /\ Len(d) = 1 /\ d[1].op = "disconnected"
    BY <2>1
  <2> HIDE DEF d
  <2> QED
    BY <2>2 DEF Orderly, TellsLast, StopsThenAwaits
<1>4. TearDown = a \o d
  BY DEF TearDown
<1>5. ASSUME NEW t \in Threads
      PROVE  Ahead(a, t)
  <2>0. v \in Seq(Steps) /\ Shutdown \in Seq(Steps)
    BY <1>1, ShutdownAhead DEF Silent
  <2>1. CASE t \in Video
    <3>1. PICK i \in 1 .. Len(VideoThreads) : VideoThreads[i] = t
      BY <2>1, VideoFacts
    <3>2. Len(v) = Len(VideoThreads) /\ v[i] = Step("join", t)
      BY <3>1, VideoFacts, ForFacts DEF Ops
    <3>3. Ahead(v, t)
      BY <3>2 DEF Awaits, Ahead
    <3> QED
      BY <2>0, <3>3, ConcatAhead
  <2>2. CASE t \in Users \cup Academy
    BY <2>0, <2>2, ShutdownAhead, ConcatAhead
  <2> QED
    BY <2>1, <2>2 DEF Threads, Sleepers, Pausable, Users
<1> HIDE DEF a, d
<1>6. a \in Seq(Steps) /\ ~Tells(a) /\ StopsThenAwaits(a)
  BY <1>2 DEF Silent
<1>7. \A t \in Threads : Ahead(a \o d, t)
  BY <1>3, <1>5, <1>6, ConcatAhead
<1>8. Orderly(a \o d)
  BY <1>3, <1>6, ConcatOrderly
<1> QED
  BY <1>4, <1>7, <1>8

-----------------------------------------------------------------------------
(* The steps.                                                              *)

\* Threads that have ended or have been told to end stay so; a program loses a
\* step that awaits or shuts a thread down only when that is done.
LEMMA KeepsTelling ==
    ASSUME Telling, connection' # "none", stopped \subseteq stopped',
           \A t \in Threads : thread[t] = "ended" => thread'[t] = "ended",
           connection' = "disconnected" => connection = "disconnected" \/ \A t \in Threads : Settled(t),
           \A c \in Callers : Orderly(program'[c]),
           ~Tells(program'["worker"]),
           \A c \in Callers, t \in Threads :
              Awaits(program[c], t) => Awaits(program'[c], t) \/ thread'[t] = "ended",
           Tells(program'["app_main"]) =>
              \/ \A t \in Threads : Ahead(program'["app_main"], t)
              \/ /\ Tells(program["app_main"])
                 /\ \A t \in Threads : ShutsDown(program["app_main"], t) =>
                       Ahead(program'["app_main"], t) \/ Settled(t) \/ thread'[t] = "ended",
           \A t \in Academy \cap stopped' :
              t \in stopped \/ \E c \in Callers : Awaits(program'[c], t)
    PROVE  Telling'
<1>0. "worker" \in Callers /\ "app_main" \in Callers /\ Academy \subseteq Threads
  BY ThreadFacts DEF Callers
<1>1. \A t \in Threads : Settled(t) => Settled(t)'
  BY <1>0 DEF Settled
<1>2. connection' = "disconnected" => \A t \in Threads : Settled(t)'
  BY <1>1 DEF Telling
<1>3. ASSUME Tells(program'["app_main"]), NEW t \in Threads
      PROVE  Settled(t)' \/ Ahead(program'["app_main"], t)
  <2>1. CASE \A u \in Threads : Ahead(program'["app_main"], u)
    BY <2>1
  <2>2. CASE /\ Tells(program["app_main"])
             /\ \A u \in Threads : ShutsDown(program["app_main"], u) =>
                   Ahead(program'["app_main"], u) \/ Settled(u) \/ thread'[u] = "ended"
    <3>1. Settled(t) \/ Ahead(program["app_main"], t)
      BY <2>2 DEF Telling
    <3>2. CASE Settled(t)
      BY <1>1, <3>2
    <3>3. CASE Awaits(program["app_main"], t)
      <4>1. Awaits(program'["app_main"], t) \/ thread'[t] = "ended"
        BY <1>0, <3>3
      <4> QED
        BY <4>1 DEF Ahead, Settled
    <3>4. CASE ShutsDown(program["app_main"], t)
      <4>1. Ahead(program'["app_main"], t) \/ Settled(t) \/ thread'[t] = "ended"
        BY <2>2, <3>4
      <4> QED
        BY <1>1, <4>1 DEF Settled
    <3> QED
      BY <3>1, <3>2, <3>3, <3>4 DEF Ahead
  <2> QED
    BY <1>3, <2>1, <2>2
<1>4. ASSUME NEW t \in Academy \cap stopped'
      PROVE  thread'[t] = "ended" \/ \E c \in Callers : Awaits(program'[c], t)
  <2>1. CASE t \in stopped
    <3>1. thread[t] = "ended" \/ \E c \in Callers : Awaits(program[c], t)
      BY <1>4, <2>1 DEF Telling
    <3>2. t \in Threads
      BY <1>0, <1>4
    <3> QED
      BY <3>1, <3>2
  <2> QED
    BY <1>4, <2>1
<1> QED
  BY <1>2, <1>3, <1>4 DEF Telling

\* A step of a caller that awaits nothing, or a thread that has ended; one that
\* tells a thread to end has still to await it.
LEMMA DoTelling ==
    ASSUME IInv, Telling, NEW c \in Callers, NEW op, NEW t, Do(c, op, t), op # "shutdown",
           connection' # "none",
           op = "join" => t \in Threads /\ thread[t] = "ended",
           stopped' = IF op = "stop" THEN stopped \cup {t} ELSE stopped,
           \A u \in Threads : thread[u] = "ended" => thread'[u] = "ended",
           connection' = "disconnected" => connection = "disconnected" \/ \A u \in Threads : Settled(u)
    PROVE  Telling'
<1> DEFINE p == program[c]
           r == Tail(p)
<1>1. /\ p \in Seq(Steps) /\ p # <<>> /\ Head(p) = Step(op, t) /\ program'[c] = r
      /\ \A d \in Callers : d # c => program'[d] = program[d]
  BY DoFacts
<1>2. /\ Orderly(p) /\ ~Tells(program["worker"])
      /\ \A d \in Callers : Orderly(program[d])
  BY DEF Telling
<1>3. Head(p).op = op /\ Head(p).thread = t
  BY <1>1 DEF Step
<1>4. Orderly(r) /\ (Tells(r) => Tells(p)) /\ (op = "stop" => Awaits(r, t))
  BY <1>1, <1>2, <1>3, TailOrderly
<1>5. \A d \in Callers : Orderly(program'[d]) /\ (Tells(program'[d]) => Tells(program[d]))
  BY <1>1, <1>2, <1>4
<1>6. ASSUME NEW d \in Callers, NEW u \in Threads, Awaits(program[d], u)
      PROVE  Awaits(program'[d], u) \/ thread'[u] = "ended"
  <2>1. CASE op = "join" /\ u = t
    BY <2>1
  <2>2. CASE ~(op = "join" /\ u = t)
    <3>1. Step(op, t) # Step("join", u)
      BY <2>2 DEF Step
    <3> QED
      BY <1>6, <3>1, DoRest
  <2> QED
    BY <2>1, <2>2
<1>7. ASSUME NEW d \in Callers, NEW u, ShutsDown(program[d], u)
      PROVE  ShutsDown(program'[d], u)
  <2>1. Step(op, t) # Step("shutdown", u)
    BY DEF Step
  <2>2. CASE d = c
    <3>1. Has(p, Step("shutdown", u))
      BY <1>7, <2>2 DEF ShutsDown
    <3>2. Has(r, Step("shutdown", u))
      BY <1>1, <2>1, <3>1, TailHas
    <3> QED
      BY <1>1, <2>2, <3>2 DEF ShutsDown
  <2> QED
    BY <1>1, <1>7, <2>2
<1>8. "worker" \in Callers /\ "app_main" \in Callers
  BY DEF Callers
<1>9. ~Tells(program'["worker"])
  BY <1>2, <1>5, <1>8
<1>10. Tells(program'["app_main"]) =>
          /\ Tells(program["app_main"])
          /\ \A u \in Threads : ShutsDown(program["app_main"], u) => Ahead(program'["app_main"], u)
  BY <1>5, <1>7, <1>8 DEF Ahead
<1>11. \A u \in Academy \cap stopped' : u \in stopped \/ \E d \in Callers : Awaits(program'[d], u)
  BY <1>1, <1>4
<1> HIDE DEF p, r
<1> QED
  BY <1>5, <1>6, <1>9, <1>10, <1>11, KeepsTelling

\* Steps that leave the programs alone.
LEMMA IdleTelling ==
    ASSUME Telling, connection # "none", UNCHANGED <<program, connection, stopped>>,
           \A u \in Threads : thread[u] = "ended" => thread'[u] = "ended"
    PROVE  Telling'
<1>1. \A c \in Callers : Orderly(program'[c])
  BY DEF Telling
<1>2. ~Tells(program'["worker"])
  BY DEF Telling
<1>3. \A t \in Threads : ShutsDown(program["app_main"], t) => Ahead(program'["app_main"], t)
  BY DEF Ahead
<1> QED
  BY <1>1, <1>2, <1>3, KeepsTelling

\* Until the connection nobody has the end to report, or has told a thread to end.
LEMMA BeforeTelling ==
    ASSUME IInv', connection' = "none", stopped' = {}
    PROVE  Telling'
<1>1. Starts(program'["app_main"]) /\ program'["worker"] = <<>>
  BY DEF IInv, Starting
<1>2. \A c \in Callers : Silent(program'[c])
  BY <1>1, StartsSilent, EmptySilent DEF Callers
<1>3. \A c \in Callers : Orderly(program'[c])
  BY <1>2, SilentOrderly
<1>4. ~Tells(program'["worker"]) /\ ~Tells(program'["app_main"])
  BY <1>2 DEF Silent, Callers
<1> QED
  BY <1>3, <1>4 DEF Telling

\* No thread is told to end before the connection.
LEMMA StopsLater ==
    ASSUME IInv, Telling, [Next]_vars, connection' = "none"
    PROVE  stopped' = {}
<1>1. ASSUME NEW c \in Callers, NEW t \in Threads, Stop(c, t), connection = "none" PROVE FALSE
  <2>1. Do(c, "stop", t)
    BY <1>1 DEF Stop
  <2> QED
    BY <1>1, <2>1, DoBefore
<1>2. ASSUME NEW c \in Callers, Run(c)
      PROVE  connection = "none" /\ UNCHANGED stopped
  <2>1. UNCHANGED connection
    BY <1>2 DEF Run, Start, Suspend, ResumeThread, LockDestroyed, Stop, Signal, JoinBegins, JoinEnds,
                ShutdownAcademy, ExitFlag, CloseCodec, appVars
  <2>2. (\E t \in Threads : Stop(c, t)) \/ UNCHANGED stopped
    BY <1>2 DEF Run, Start, Suspend, ResumeThread, LockDestroyed, Signal, JoinBegins, JoinEnds,
                ShutdownAcademy, ExitFlag, CloseCodec, endVars
  <2> QED
    BY <1>1, <2>1, <2>2
<1>3. CASE AppMain \/ Run("worker")
  <2>1. "app_main" \in Callers /\ "worker" \in Callers
    BY DEF Callers
  <2>2. connection = "none" /\ UNCHANGED stopped
    BY <1>2, <1>3, <2>1 DEF AppMain, Connected, EndLoop, Disconnected, endVars
  <2> QED
    BY <2>2 DEF Telling
<1>4. CASE \E name \in {"pause", "resume", "exit"} : Call(name)
  BY <1>4 DEF Call
<1>5. CASE \E t \in Threads : ThreadRuns(t) \/ SpuriousWakeup(t)
  BY <1>5 DEF ThreadRuns, SpuriousWakeup, Begin, Top, Block, Body, AcademyBody, Telling, appVars, endVars
<1>6. CASE ResumeDownload
  BY <1>6 DEF ResumeDownload, Telling, appVars, endVars
<1>7. CASE UNCHANGED vars
  BY <1>7 DEF vars, Telling, appVars, endVars
<1> QED
  BY <1>3, <1>4, <1>5, <1>6, <1>7 DEF Next

LEMMA QuietTelling ==
    ASSUME IInv, Telling, connection' # "none", NEW c \in Callers, NEW t \in Threads,
           Suspend(c, t) \/ ResumeThread(c, t) \/ Stop(c, t) \/ Signal(c, t)
              \/ ExitFlag(c) \/ CloseCodec(c)
    PROVE  Telling'
<1>1. PICK op \in {"suspend", "resume", "stop", "signal", "exit", "close"},
           u \in Threads \cup {"none"} :
              Do(c, op, u) /\ stopped' = IF op = "stop" THEN stopped \cup {u} ELSE stopped
  BY DEF Suspend, ResumeThread, Stop, Signal, ExitFlag, CloseCodec, endVars
<1>2. UNCHANGED connection /\ (UNCHANGED thread \/ Signalled(t))
  BY DEF Suspend, ResumeThread, Stop, Signal, ExitFlag, CloseCodec, threadVars
<1>3. \A v \in Threads : thread[v] = "ended" => thread'[v] = "ended"
  BY <1>2, SignalledFacts
<1>4. op # "join" /\ op # "shutdown"
  OBVIOUS
<1> QED
  BY <1>1, <1>2, <1>3, <1>4, DoTelling

\* The thread is in the table and is awaited from now on, or it has ended.
LEMMA JoinTelling ==
    ASSUME IInv, Telling, connection' # "none", NEW c \in Callers, NEW t \in Threads,
           JoinBegins(c, t) \/ JoinEnds(c, t)
    PROVE  Telling'
<1>1. UNCHANGED <<connection, thread, stopped>>
  BY DEF JoinBegins, JoinEnds, threadVars, endVars
<1>2. CASE UNCHANGED program
  BY <1>1, <1>2, IdleTelling
<1>3. CASE Do(c, "join", t) /\ thread[t] = "ended"
  BY <1>1, <1>3, DoTelling
<1>4. CASE Do(c, "join", t) /\ JoinBegins(c, t) /\ t \notin table
  <2>1. thread_mutex = "free"
    BY <1>4 DEF JoinBegins
  <2>2. thread[t] \in {"none", "ended"}
    BY <1>4, <2>1 DEF IInv, Tabled
  <2> QED
    BY <1>1, <1>3, <1>4, <2>2 DEF IInv, Started
<1> QED
  BY <1>2, <1>3, <1>4 DEF JoinBegins, JoinEnds

\* A thread that has been told to end is passed over: it is awaited by the caller
\* that told it.
LEMMA ShutdownTelling ==
    ASSUME IInv, Telling, connection' # "none", NEW c \in Callers, NEW t \in Academy,
           ShutdownAcademy(c, t)
    PROVE  Telling'
<1> DEFINE p == program[c]
           r == Tail(p)
           q == IF t \in stopped THEN <<>> ELSE Ending(t)
<1>0. /\ UNCHANGED <<connection, thread, stopped>>
      /\ "worker" \in Callers /\ "app_main" \in Callers /\ t \in Threads
  BY ThreadFacts DEF ShutdownAcademy, threadVars, endVars, Callers
<1>1. /\ p \in Seq(Steps) /\ p # <<>> /\ Head(p) = Step("shutdown", t) /\ r \in Seq(Steps)
      /\ q \in Seq(Steps) /\ program'[c] = q \o r
      /\ \A d \in Callers : d # c => program'[d] = program[d]
  BY ShutdownFacts
<1>2. Silent(q) /\ (t \notin stopped => Awaits(q, t))
  BY EmptySilent, EndingSilent, EndingSound
<1>3. /\ Orderly(p) /\ ~Tells(program["worker"])
      /\ \A d \in Callers : Orderly(program[d])
  BY DEF Telling
<1> HIDE DEF q
<1>4. Orderly(r) /\ (Tells(r) => Tells(p))
  BY <1>1, <1>3, TailOrderly
<1> HIDE DEF p, r
<1>5. Orderly(q \o r) /\ (Tells(q \o r) => Tells(p))
  <2>1. ~Tells(q) /\ StopsThenAwaits(q)
    BY <1>2 DEF Silent
  <2> QED
    BY <1>1, <1>4, <2>1, ConcatOrderly
<1>6. \A d \in Callers : Orderly(program'[d]) /\ (Tells(program'[d]) => Tells(program[d]))
  BY <1>1, <1>3, <1>5 DEF p
<1>7. \A d \in Callers, u \in Threads : Awaits(program[d], u) => Awaits(program'[d], u)
  BY ShutdownKeeps
<1>8. c = "app_main" => Awaits(program'["app_main"], t) \/ Settled(t)
  <2>1. CASE t \in stopped
    <3>1. thread[t] = "ended" \/ \E d \in Callers : Awaits(program[d], t)
      BY <2>1 DEF Telling
    <3> QED
      BY <1>0, <1>7, <2>1, <3>1 DEF Settled, Callers
  <2>2. CASE t \notin stopped
    <3>1. Awaits(q \o r, t)
      BY <1>1, <1>2, <2>2, ConcatAwaits
    <3> QED
      BY <1>1, <3>1
  <2> QED
    BY <2>1, <2>2
<1>9. ASSUME NEW u \in Threads, ShutsDown(program["app_main"], u)
      PROVE  Ahead(program'["app_main"], u) \/ Settled(u)
  <2>1. CASE c # "app_main"
    <3>1. program'["app_main"] = program["app_main"]
      BY <1>0, <1>1, <2>1
    <3> QED
      BY <1>9, <3>1 DEF Ahead
  <2>2. CASE c = "app_main" /\ u = t
    BY <1>8, <2>2 DEF Ahead
  <2>3. CASE c = "app_main" /\ u # t
    <3>1. Has(p, Step("shutdown", u)) /\ Step("shutdown", u) # Step("shutdown", t)
      BY <1>9, <2>3 DEF ShutsDown, Step, p
    <3>2. Has(r, Step("shutdown", u))
      BY <1>1, <3>1, TailHas DEF r
    <3>3. Has(q \o r, Step("shutdown", u))
      BY <1>1, <3>2, ConcatHas
    <3> QED
      BY <1>1, <2>3, <3>3 DEF Ahead, ShutsDown
  <2> QED
    BY <2>1, <2>2, <2>3
<1>10. ~Tells(program'["worker"])
  BY <1>0, <1>3, <1>6
<1>11. Tells(program'["app_main"]) => Tells(program["app_main"])
  BY <1>0, <1>6
<1> QED
  BY <1>0, <1>6, <1>7, <1>9, <1>10, <1>11, KeepsTelling

\* The next procedure of a caller that has done the last.
LEMMA InstallTelling ==
    ASSUME IInv, Telling, connection # "none", NEW c \in Callers, NEW p,
           program[c] = <<>>, program' = [program EXCEPT ![c] = p],
           Orderly(p), UNCHANGED <<connection, thread, stopped>>,
           Tells(p) => c = "app_main" /\ \A t \in Threads : Ahead(p, t)
    PROVE  Telling'
<1>1. program'[c] = p /\ \A d \in Callers : d # c => program'[d] = program[d]
  BY DEF IInv, ProgramType
<1>2. \A d \in Callers : Orderly(program'[d])
  BY <1>1 DEF Telling
<1>3. \A t : ~Awaits(<<>>, t) /\ ~ShutsDown(<<>>, t)
  BY DEF Awaits, ShutsDown, Has
<1>4. \A d \in Callers, t \in Threads : Awaits(program[d], t) => Awaits(program'[d], t)
  BY <1>1, <1>3
<1>5. "worker" \in Callers /\ "app_main" \in Callers /\ "worker" # "app_main"
  BY DEF Callers
<1>6. ~Tells(program'["worker"])
  <2>1. ~Tells(program["worker"])
    BY DEF Telling
  <2> QED
    BY <1>1, <1>5, <2>1
<1>7. Tells(program'["app_main"]) =>
         \/ \A t \in Threads : Ahead(program'["app_main"], t)
         \/ /\ Tells(program["app_main"])
            /\ \A t \in Threads : ShutsDown(program["app_main"], t) => Ahead(program'["app_main"], t)
  <2>1. CASE c = "app_main"
    BY <1>1, <2>1
  <2>2. CASE c # "app_main"
    BY <1>1, <1>5, <2>2 DEF Ahead
  <2> QED
    BY <2>1, <2>2
<1> QED
  BY <1>2, <1>4, <1>6, <1>7, KeepsTelling

LEMMA DisconnectedTelling == ASSUME IInv, Telling, Disconnected PROVE Telling'
<1>1. /\ Do("app_main", "disconnected", "none") /\ UNCHANGED <<thread, stopped>>
      /\ "app_main" \in Callers /\ connection' = "disconnected"
  BY DEF Disconnected, threadVars, endVars, Callers
<1> DEFINE p == program["app_main"]
<1>2. p \in Seq(Steps) /\ p # <<>> /\ Head(p) = Step("disconnected", "none")
  BY <1>1, DoFacts
<1>3. Head(p).op = "disconnected" /\ Head(p) = p[1]
  BY <1>2, TailFacts DEF Step
<1>4. Tells(p) /\ Len(p) = 1
  BY <1>1, <1>2, <1>3, TailOrderly DEF Telling
<1>5. \A t \in Threads : ~Ahead(p, t)
  <2>1. \A t \in Threads : p[1] # Step("join", t) /\ p[1] # Step("shutdown", t)
    BY <1>3 DEF Step
  <2> HIDE DEF p
  <2> QED
    BY <1>4, <2>1 DEF Ahead, Awaits, ShutsDown, Has
<1>6. \A t \in Threads : Settled(t)
  BY <1>4, <1>5 DEF Telling
<1> HIDE DEF p
<1> QED
  BY <1>1, <1>6, DoTelling

\* A thread runs, or is woken by the navdata thread.
LEMMA ThreadTelling ==
    ASSUME IInv, Telling, connection # "none",
           (\E t \in Threads : ThreadRuns(t) \/ SpuriousWakeup(t)) \/ ResumeDownload
    PROVE  Telling'
<1>1. UNCHANGED <<program, connection, stopped>>
  BY DEF ThreadRuns, SpuriousWakeup, Begin, Top, Block, Body, AcademyBody, ResumeDownload, appVars, endVars
<1>2. CASE \E t \in Threads : ThreadRuns(t) \/ SpuriousWakeup(t)
  <2>1. PICK t \in Threads : ThreadRuns(t) \/ SpuriousWakeup(t)
    BY <1>2
  <2>2. thread[t] # "ended" /\ \E next : thread' = [thread EXCEPT ![t] = next]
    BY <2>1 DEF ThreadRuns, SpuriousWakeup, Begin, Top, Block, Body, AcademyBody, Succeeds
  <2>3. \A u \in Threads : thread[u] = "ended" => thread'[u] = "ended"
    BY <2>2 DEF IInv, ThreadType
  <2> QED
    BY <1>1, <2>3, IdleTelling
<1>3. CASE ResumeDownload
  <2>1. \A u \in Threads : thread'[u] = thread[u] \/ (thread[u] = "blocked" /\ thread'[u] = "body")
    BY <1>3, ResumeDownloadFacts
  <2>2. \A u \in Threads : thread[u] = "ended" => thread'[u] = "ended"
    BY <2>1
  <2> QED
    BY <1>1, <2>2, IdleTelling
<1> QED
  BY <1>2, <1>3

LEMMA NextTelling == IInv /\ IInv' /\ Telling /\ [Next]_vars => Telling'
<1> SUFFICES ASSUME IInv, IInv', Telling, [Next]_vars, connection' # "none" PROVE Telling'
  BY BeforeTelling, StopsLater
<1>0. "app_main" \in Callers /\ "worker" \in Callers
  BY DEF Callers
<1>1. ASSUME NEW c \in Callers, Run(c) PROVE Telling'
  <2>1. ASSUME NEW t \in Threads, Start(c, t) PROVE FALSE
    <3>1. Do(c, "start", t) /\ UNCHANGED connection
      BY <2>1 DEF Start
    <3> QED
      BY <3>1, DoAfter
  <2>2. CASE \E t \in Threads : Suspend(c, t) \/ ResumeThread(c, t) \/ Stop(c, t) \/ Signal(c, t)
    BY <2>2, QuietTelling
  <2>3. CASE \E t \in Threads : JoinBegins(c, t) \/ JoinEnds(c, t)
    BY <2>3, JoinTelling
  <2>4. CASE ExitFlag(c) \/ CloseCodec(c)
    BY <2>4, QuietTelling DEF Threads
  <2>5. CASE \E t \in Academy : ShutdownAcademy(c, t)
    BY <2>5, ShutdownTelling
  <2>6. CASE \E t \in Threads : LockDestroyed(c, t)
    <3>1. UNCHANGED <<program, connection, stopped, thread>>
      BY <2>6 DEF LockDestroyed, appVars, endVars
    <3> QED
      BY <3>1, IdleTelling
  <2> QED
    BY <1>1, <2>1, <2>2, <2>3, <2>4, <2>5, <2>6 DEF Run
<1>2. CASE Connected
  <2>1. /\ Do("app_main", "connected", "none") /\ UNCHANGED <<thread, stopped>>
        /\ connection' = "connected"
    BY <1>2 DEF Connected, threadVars, endVars
  <2> QED
    BY <1>0, <2>1, DoTelling
<1>3. CASE EndLoop
  <2>1. /\ updating /\ UNCHANGED <<connection, thread, stopped>>
        /\ program' = [program EXCEPT !["app_main"] = TearDown]
    BY <1>3 DEF EndLoop, threadVars, endVars
  <2>2. program["app_main"] = <<>>
    BY <2>1 DEF IInv, Looping
  <2> QED
    BY <1>0, <2>1, <2>2, TearDownAhead, InstallTelling
<1>4. CASE Disconnected
  BY <1>4, DisconnectedTelling
<1>5. CASE AppMain
  BY <1>0, <1>1, <1>2, <1>3, <1>4, <1>5 DEF AppMain
<1>6. CASE \E name \in {"pause", "resume", "exit"} : Call(name)
  <2>1. UNCHANGED <<connection, thread, stopped>> /\ program["worker"] = <<>>
    BY <1>6 DEF Call, threadVars, endVars
  <2>2. PICK p \in {Pause, Resume, Resume \o Exit} : program' = [program EXCEPT !["worker"] = p]
    BY <1>6 DEF Call
  <2>3. Silent(p)
    BY CallsSilent
  <2>4. Orderly(p) /\ ~Tells(p)
    BY <2>3, SilentOrderly DEF Silent
  <2> QED
    BY <1>0, <2>1, <2>2, <2>4, InstallTelling
<1>7. CASE (\E t \in Threads : ThreadRuns(t) \/ SpuriousWakeup(t)) \/ ResumeDownload
  <2>1. UNCHANGED connection
    BY <1>7 DEF ThreadRuns, SpuriousWakeup, Begin, Top, Block, Body, AcademyBody, ResumeDownload, appVars
  <2> QED
    BY <1>7, <2>1, ThreadTelling
<1>8. CASE UNCHANGED vars
  BY <1>8, IdleTelling DEF vars, appVars, threadVars, endVars
<1>9. CASE Run("worker")
  BY <1>0, <1>1, <1>9
<1> QED
  BY <1>5, <1>6, <1>7, <1>8, <1>9 DEF Next

\* However the two shutdowns interleave, and although each thread is awaited by
\* only one of them, app.c reports the end to the application only when every
\* thread it has started has ended; except a thread of the Academy that the
\* worker has told to end and has still to await: its shutdown clears the flag
\* that app_main tests before it awaits the thread.
THEOREM ReportedLast == Spec => []DisconnectedLast
<1>1. Init => Telling
  <2> SUFFICES ASSUME Init PROVE Telling
    OBVIOUS
  <2>1. \A c \in Callers : Starts(program[c]) \/ program[c] = <<>>
    BY StartUpStarts DEF Init, Callers
  <2>2. \A c \in Callers : Silent(program[c])
    BY <2>1, StartsSilent, EmptySilent
  <2>3. \A c \in Callers : Orderly(program[c])
    BY <2>2, SilentOrderly
  <2>4. ~Tells(program["worker"]) /\ ~Tells(program["app_main"])
    BY <2>2 DEF Silent, Callers
  <2> QED
    BY <2>3, <2>4 DEF Init, Telling
<1>2. Telling => DisconnectedLast
  BY DEF Telling, Settled, DisconnectedLast, Told
<1> QED
  BY <1>1, <1>2, NextTelling, Safety, PTL DEF Spec
=============================================================================
