-------------------------- MODULE UnwindingProofs --------------------------
(***************************************************************************)
(* For all samples, tables, files and stacks: the frames that are sent are *)
(* those that the sample determines, those that depend on older samples    *)
(* are marked as guessed, and what was guessed is among the frames.        *)
(***************************************************************************)
EXTENDS Unwinding, WellFoundedInduction, TLAPS

Frames == [ip : Int, isKernel : BOOLEAN]

Walks == [number : 0 .. 2, pc : Int, sp : Int, activation : BOOLEAN, saved : Seq(Frames)]

Phases == {"idle", "callchain", "branch", "resolved", "callback", "read", "attempted", "ip", "send"}

Unwinds ==
  [phase : Phases, sample : SampleRecords, attempt : 0 .. 2, frames : Seq(Frames),
   firstGuessedFrame : Int, isInterworking : BOOLEAN, pos : Nat \ {0}, isKernel : BOOLEAN,
   addedUserFrames : BOOLEAN, walk : Walks]

TypeInv ==
  /\ ui \in Unwinds
  /\ stackValues \in [DOMAIN stackValues -> Int]

\* The first guessed frame is behind none but the frames that the second walk may
\* yet bring back.
Bounded(u) ==
  \/ u.firstGuessedFrame <= Len(u.frames)
  \/ /\ u.phase \in {"callback", "read"} /\ u.walk.number = 2
     /\ u.firstGuessedFrame <= Len(u.walk.saved)

\* Only a frame can be of a veneer: there is one to keep for the second walk.
HasVeneer(u) == u.isInterworking => Len(u.frames) > 0

IInv == TypeInv /\ Bounded(ui) /\ HasVeneer(ui)

-----------------------------------------------------------------------------
(***************************************************************************)
(* The operators on the state of an unwinding                              *)
(***************************************************************************)
LEMMA NewUnwindIsOne ==
  ASSUME NEW s \in SampleRecords, NEW n \in 0 .. 2
  PROVE  NewUnwind(s, n) \in Unwinds /\ NewUnwind(s, n).frames = <<>>
         /\ NewUnwind(s, n).firstGuessedFrame = -1
BY DEF NewUnwind, Unwinds, Walks, Phases, NoWalk, None

LEMMA NoSampleIsOne == NoSample \in SampleRecords
BY DEF NoSample, SampleRecords

Walking(w, u, n, saved) ==
  /\ w \in Unwinds /\ w.frames = u.frames
  /\ w.firstGuessedFrame = u.firstGuessedFrame
  /\ w.phase = "callback" /\ w.walk.number = n /\ w.walk.saved = saved

LEMMA BeginWalkIsOne ==
  ASSUME NEW u \in Unwinds, NEW n \in 1 .. 2, NEW saved \in Seq(Frames)
  PROVE  Walking(BeginWalk(u, n, saved), u, n, saved)
<1> DEFINE pc   == IF u.isInterworking THEN u.sample.lr ELSE u.sample.pc
           walk == [number |-> n, saved |-> saved, sp |-> u.sample.sp, activation |-> TRUE,
                    pc |-> pc]
<1>1. u.sample.sp \in Int /\ pc \in Int
  BY DEF Unwinds, SampleRecords
<1> HIDE DEF pc
<1>2. walk \in Walks /\ walk.number = n /\ walk.saved = saved
  BY <1>1 DEF Walks
<1> HIDE DEF walk
<1>3. BeginWalk(u, n, saved) = [u EXCEPT !.phase = "callback", !.walk = walk]
  BY DEF BeginWalk, walk, pc
<1> QED
  BY <1>2, <1>3 DEF Unwinds, Phases, Walking

LEMMA FirstOf ==
  ASSUME NEW f \in Seq(Frames), Len(f) > 0
  PROVE  SubSeq(f, 1, 1) \in Seq(Frames) /\ Len(SubSeq(f, 1, 1)) = 1
OBVIOUS

\* Whatever the second walk finds, the guesses of the first one are among the frames
\* that are kept.
LEMMA EndWalkIsOne ==
  ASSUME NEW u \in Unwinds, Bounded(u), HasVeneer(u)
  PROVE  EndWalk(u) \in Unwinds /\ Bounded(EndWalk(u)) /\ HasVeneer(EndWalk(u))
<1> DEFINE goal(v) == v \in Unwinds /\ Bounded(v) /\ HasVeneer(v)
<1>0. u.firstGuessedFrame \in Int /\ Len(u.frames) \in Nat /\ Len(u.walk.saved) \in Nat
      /\ u.frames \in Seq(Frames) /\ u.walk.saved \in Seq(Frames)
  BY DEF Unwinds, Walks
<1>1. CASE u.walk.number = 1 /\ u.isInterworking
  <2> DEFINE first == SubSeq(u.frames, 1, 1)
             cut   == [u EXCEPT !.frames = first]
  <2>1. first \in Seq(Frames) /\ Len(first) = 1
    BY <1>0, <1>1, FirstOf DEF HasVeneer
  <2> HIDE DEF first
  <2>2. /\ cut \in Unwinds /\ cut.frames = first
        /\ cut.firstGuessedFrame = u.firstGuessedFrame
    BY <2>1 DEF Unwinds
  <2>3. EndWalk(u) = BeginWalk(cut, 2, u.frames)
    BY <1>1 DEF EndWalk, first
  <2> HIDE DEF cut
  <2> DEFINE again == BeginWalk(cut, 2, u.frames)
  <2>4. /\ again \in Unwinds /\ again.frames = first
        /\ again.firstGuessedFrame = u.firstGuessedFrame
        /\ again.phase = "callback" /\ again.walk.number = 2 /\ again.walk.saved = u.frames
    <3>1. 2 \in 1 .. 2
      OBVIOUS
    <3>2. Walking(again, cut, 2, u.frames)
      BY ONLY <1>0, <2>2, <3>1, BeginWalkIsOne, Zenon
    <3> HIDE DEF again
    <3> QED
      BY ONLY <2>2, <3>2 DEF Walking
  <2>5. u.firstGuessedFrame <= Len(u.frames)
    BY <1>1 DEF Bounded
  <2>6. again = EndWalk(u)
    BY <2>3
  <2> HIDE DEF again
  <2>7. Bounded(again)
    BY <2>4, <2>5 DEF Bounded
  <2>8. HasVeneer(again)
    <3>1. again.frames = first
      BY ONLY <2>4
    <3>2. Len(again.frames) = 1
      BY ONLY <2>1, <3>1, Zenon
    <3> QED
      BY ONLY <3>2 DEF HasVeneer
  <2> QED
    BY <2>4, <2>6, <2>7, <2>8
<1>2. CASE /\ ~(u.walk.number = 1 /\ u.isInterworking)
           /\ u.walk.number = 2 /\ Len(u.walk.saved) > Len(u.frames)
  <2> DEFINE back == [u EXCEPT !.phase = "attempted", !.frames = u.walk.saved]
  <2>1. EndWalk(u) = back
    BY <1>2 DEF EndWalk
  <2>2. /\ back \in Unwinds /\ back.frames = u.walk.saved
        /\ back.firstGuessedFrame = u.firstGuessedFrame
    BY <1>0 DEF Unwinds, Phases
  <2> HIDE DEF back
  <2>3. u.firstGuessedFrame <= Len(u.walk.saved)
    BY <1>0, <1>2 DEF Bounded
  <2>4. Bounded(back)
    BY <2>2, <2>3 DEF Bounded
  <2>5. HasVeneer(back)
    BY <1>0, <1>2, <2>2 DEF HasVeneer
  <2> QED
    BY <2>1, <2>2, <2>4, <2>5
<1>3. CASE /\ ~(u.walk.number = 1 /\ u.isInterworking)
           /\ ~(u.walk.number = 2 /\ Len(u.walk.saved) > Len(u.frames))
  <2> DEFINE same == [u EXCEPT !.phase = "attempted"]
  <2>1. EndWalk(u) = same
    BY <1>3 DEF EndWalk
  <2>2. /\ same \in Unwinds /\ same.frames = u.frames
        /\ same.firstGuessedFrame = u.firstGuessedFrame
        /\ same.isInterworking = u.isInterworking
    BY DEF Unwinds, Phases
  <2> HIDE DEF same
  <2>3. u.firstGuessedFrame <= Len(u.frames)
    BY <1>0, <1>3 DEF Bounded
  <2> QED
    BY <2>1, <2>2, <2>3 DEF Bounded, HasVeneer
<1> QED
  BY <1>1, <1>2, <1>3

LEMMA GuessIsOne ==
  ASSUME NEW u \in Unwinds, HasVeneer(u)
  PROVE  Guess(u) \in Unwinds /\ Bounded(Guess(u)) /\ HasVeneer(Guess(u))
<1>1. Len(u.frames) \in Nat
  BY DEF Unwinds
<1>2. /\ Guess(u) \in Unwinds /\ Guess(u).frames = u.frames
      /\ Guess(u).firstGuessedFrame = Len(u.frames)
      /\ Guess(u).isInterworking = u.isInterworking
  BY <1>1 DEF Guess, Unwinds
<1> QED
  BY <1>1, <1>2 DEF Bounded, HasVeneer

LEMMA ElementOf ==
  ASSUME NEW S, NEW s \in Seq(S), NEW i \in 1 .. Len(s)
  PROVE  s[i] \in S
OBVIOUS

LEMMA ConcatOf ==
  ASSUME NEW S, NEW s \in Seq(S), NEW t \in Seq(S)
  PROVE  s \o t \in Seq(S) /\ Len(s \o t) = Len(s) + Len(t)
OBVIOUS

LEMMA AppendOf ==
  ASSUME NEW S, NEW s \in Seq(S), NEW e \in S
  PROVE  /\ Append(s, e) \in Seq(S) /\ Len(Append(s, e)) = Len(s) + 1
         /\ <<e>> \in Seq(S) /\ Len(<<e>>) = 1
OBVIOUS

LEMMA ReturnIsOne ==
  ASSUME NEW u \in Unwinds, Bounded(u), HasVeneer(u), u.phase = "read",
         u.walk.pc \in DOMAIN Cfi, NEW v \in Int
  PROVE  Return(u, v) \in Unwinds /\ Bounded(Return(u, v)) /\ HasVeneer(Return(u, v))
<1> DEFINE size == Rule(u.walk.pc).size
           walk == [number |-> u.walk.number, pc |-> v, sp |-> u.walk.sp + size,
                    activation |-> FALSE, saved |-> u.walk.saved]
<1>1. size \in Int
  BY UnwindingAssumption DEF Rule
<1>2. u.walk \in Walks
  BY DEF Unwinds
<1>3. walk \in Walks
  BY <1>1, <1>2 DEF Walks
<1>5. Return(u, v) = [u EXCEPT !.phase = "callback", !.walk = walk]
  BY DEF Return
<1>6. walk.number = u.walk.number /\ walk.saved = u.walk.saved
  OBVIOUS
<1> HIDE DEF walk
<1>7. /\ Return(u, v) \in Unwinds /\ Return(u, v).frames = u.frames
      /\ Return(u, v).firstGuessedFrame = u.firstGuessedFrame
      /\ Return(u, v).isInterworking = u.isInterworking
      /\ Return(u, v).phase = "callback" /\ Return(u, v).walk = walk
  BY <1>3, <1>5 DEF Unwinds, Phases
<1> QED
  BY <1>6, <1>7 DEF Bounded, HasVeneer

\* Looking up addresses only adds frames.
LEMMA ReportIsOne ==
  ASSUME ui \in Unwinds, NEW ips \in Seq(Int), NEW next \in Unwinds,
         next.firstGuessedFrame <= Len(next.frames), reportIps(ips, next)
  PROVE  ui' \in Unwinds /\ Bounded(ui)' /\ HasVeneer(ui)'
<1>1. PICK n \in DOMAIN ips :
        LET reported == [next EXCEPT
              !.frames = @ \o [k \in 1 .. n |-> Frame(ips[k], ui.isKernel)],
              !.isInterworking = ips[n] \in Veneers]
        IN  ui' = IF Table(ui.isKernel) \in dirty' THEN [reported EXCEPT !.phase = "resolved"]
                                                   ELSE reported
  BY DEF reportIps
<1> DEFINE new      == [k \in 1 .. n |-> Frame(ips[k], ui.isKernel)]
           frames   == next.frames \o new
           veneer   == ips[n] \in Veneers
           reported == [next EXCEPT !.frames = frames, !.isInterworking = veneer]
<1>2. n \in 1 .. Len(ips) /\ Len(ips) \in Nat
  OBVIOUS
<1>3. \A k \in 1 .. n : Frame(ips[k], ui.isKernel) \in Frames
  BY <1>2 DEF Frame, Frames, Unwinds
<1>4. new \in Seq(Frames) /\ Len(new) = n
  <2>1. n \in Nat /\ \A k \in 1 .. n : new[k] \in Frames
    BY <1>2, <1>3
  <2>2. new = [k \in 1 .. n |-> new[k]]
    OBVIOUS
  <2> HIDE DEF new
  <2> QED
    BY ONLY <2>1, <2>2
<1>5. next.frames \in Seq(Frames) /\ next.firstGuessedFrame \in Int
  BY DEF Unwinds
<1> HIDE DEF new
<1>6. frames \in Seq(Frames) /\ Len(frames) = Len(next.frames) + n
  BY <1>4, <1>5, ConcatOf
<1>7. Len(frames) > 0 /\ next.firstGuessedFrame <= Len(frames)
  BY <1>2, <1>5, <1>6
<1>8. veneer \in BOOLEAN
  OBVIOUS
<1>9. ui' = reported \/ ui' = [reported EXCEPT !.phase = "resolved"]
  BY <1>1 DEF new
<1> HIDE DEF frames, veneer
<1>10. /\ ui' \in Unwinds /\ ui'.frames = frames
       /\ ui'.firstGuessedFrame = next.firstGuessedFrame
  <2>1. /\ reported \in Unwinds /\ reported.frames = frames
        /\ reported.firstGuessedFrame = next.firstGuessedFrame
    BY ONLY next \in Unwinds, <1>6, <1>8 DEF Unwinds
  <2> HIDE DEF reported
  <2>2. CASE ui' = reported
    BY ONLY <2>1, <2>2
  <2>3. CASE ui' = [reported EXCEPT !.phase = "resolved"]
    BY ONLY <2>1, <2>3 DEF Unwinds, Phases
  <2> QED
    BY ONLY <1>9, <2>2, <2>3
<1> QED
  BY <1>7, <1>10 DEF Bounded, HasVeneer

-----------------------------------------------------------------------------
(***************************************************************************)
(* The inductive invariant                                                 *)
(***************************************************************************)
LEMMA IdleIsOne == Idle \in Unwinds /\ Bounded(Idle) /\ HasVeneer(Idle)
<1>1. 0 \in 0 .. 2
  OBVIOUS
<1>2. /\ NewUnwind(NoSample, 0) \in Unwinds /\ NewUnwind(NoSample, 0).frames = <<>>
      /\ NewUnwind(NoSample, 0).firstGuessedFrame = -1
  BY <1>1, NoSampleIsOne, NewUnwindIsOne
<1>3. NewUnwind(NoSample, 0).isInterworking = FALSE
  BY DEF NewUnwind
<1> QED
  BY <1>2, <1>3 DEF Idle, Unwinds, Phases, Bounded, HasVeneer

LEMMA InitInv == Init => IInv
BY IdleIsOne DEF Init, IInv, TypeInv

\* Steps that change nothing that the invariant is about but the phase.
LEMMA PhaseStep ==
  ASSUME NEW u \in Unwinds, Bounded(u), HasVeneer(u),
         NEW v \in Unwinds, v.frames = u.frames, v.firstGuessedFrame = u.firstGuessedFrame,
         v.isInterworking = u.isInterworking, u.phase \notin {"callback", "read"}
  PROVE  Bounded(v) /\ HasVeneer(v)
BY DEF Bounded, HasVeneer

LEMMA NextInv == IInv /\ [Next]_vars => IInv'
<1> SUFFICES ASSUME IInv, [Next]_vars PROVE IInv'
  OBVIOUS
<1> USE DEF IInv
<1>0. /\ ui \in Unwinds /\ Bounded(ui) /\ HasVeneer(ui)
      /\ stackValues \in [DOMAIN stackValues -> Int]
  BY DEF TypeInv
<1>a. /\ ui.sample \in SampleRecords /\ ui.pos \in Nat \ {0} /\ ui.frames \in Seq(Frames)
      /\ ui.firstGuessedFrame \in Int /\ ui.walk \in Walks
  BY <1>0 DEF Unwinds
<1>b. ui.phase \notin {"callback", "read"} => ui.firstGuessedFrame <= Len(ui.frames)
  BY <1>0 DEF Bounded
<1>c. ASSUME ui' \in Unwinds, Bounded(ui'), HasVeneer(ui'), UNCHANGED stackValues PROVE IInv'
  BY <1>0, <1>c DEF TypeInv, Bounded, HasVeneer
<1>d. ASSUME ui' \in Unwinds, ui'.frames = ui.frames,
             ui'.firstGuessedFrame = ui.firstGuessedFrame,
             ui'.isInterworking = ui.isInterworking, ui.phase \notin {"callback", "read"},
             UNCHANGED stackValues
      PROVE IInv'
  BY <1>0, <1>c, <1>d, PhaseStep
<1>1. CASE \E s \in Samples : analyze(s)
  <2> PICK s \in Samples : analyze(s)
    BY <1>1
  <2>1. s \in SampleRecords /\ 1 \in 0 .. 2
    BY UnwindingAssumption
  <2>2. ui' = NewUnwind(s, 1) /\ UNCHANGED stackValues
    BY DEF analyze
  <2>3. ui' \in Unwinds /\ ui'.frames = <<>> /\ ui'.firstGuessedFrame = -1
    BY <2>1, <2>2, NewUnwindIsOne
  <2>4. ui'.isInterworking = FALSE
    BY <2>2 DEF NewUnwind
  <2> QED
    BY <1>c, <2>2, <2>3, <2>4 DEF Bounded, HasVeneer
<1>2. CASE Context
  <2>1. ui.phase = "callchain" /\ UNCHANGED stackValues
    BY <1>2 DEF Context, InCallchain
  <2>2. \/ ui' = [ui EXCEPT !.isKernel = (Entry # USER), !.pos = @ + 1]
        \/ ui' = [ui EXCEPT !.phase = "resolved"]
    BY <1>2 DEF Context
  <2> DEFINE pos == ui.pos + 1
             mode == Entry # USER
  <2>3. pos \in Nat \ {0} /\ mode \in BOOLEAN
    BY <1>a
  <2>4. ui' = [ui EXCEPT !.isKernel = mode, !.pos = pos] \/ ui' = [ui EXCEPT !.phase = "resolved"]
    BY <2>2
  <2> HIDE DEF pos, mode
  <2>5. /\ ui' \in Unwinds /\ ui'.frames = ui.frames
        /\ ui'.firstGuessedFrame = ui.firstGuessedFrame
        /\ ui'.isInterworking = ui.isInterworking
    <3>1. ui \in Unwinds
      BY <1>0 DEF TypeInv
    <3>2. CASE ui' = [ui EXCEPT !.isKernel = mode, !.pos = pos]
      BY ONLY <2>3, <3>1, <3>2 DEF Unwinds
    <3>3. CASE ui' = [ui EXCEPT !.phase = "resolved"]
      BY ONLY <3>1, <3>3 DEF Unwinds, Phases
    <3> QED
      BY ONLY <2>4, <3>2, <3>3
  <2> QED
    BY <1>d, <2>1, <2>5
<1>3. CASE Address
  <2> DEFINE first  == IF SkipsFirst THEN <<ui.sample.ip>> ELSE <<>>
             next   == [ui EXCEPT !.pos = @ + 1, !.addedUserFrames = @ \/ ~ui.isKernel]
             branch == [ui EXCEPT !.phase = "branch", !.pos = 1]
  <2>1. ui.phase = "callchain" /\ UNCHANGED stackValues
        /\ ui.pos \in 1 .. Len(ui.sample.callchain)
    BY <1>3, <1>a DEF Address, InCallchain
  <2>2. Entry \in Int /\ ui.sample.ip \in Int
    <3>1. ui.sample.callchain \in Seq(Int) /\ ui.sample.ip \in Int
      BY ONLY <1>a DEF SampleRecords
    <3> QED
      BY ONLY <2>1, <3>1 DEF Entry
  <2>3. first \in Seq(Int) /\ Append(first, Entry) \in Seq(Int)
    BY <2>2
  <2>4. /\ next \in Unwinds /\ next.frames = ui.frames
        /\ next.firstGuessedFrame = ui.firstGuessedFrame
    <3> DEFINE pos   == ui.pos + 1
               added == ui.addedUserFrames \/ ~ui.isKernel
    <3>1. pos \in Nat \ {0} /\ added \in BOOLEAN
      BY <1>a
    <3>2. next = [ui EXCEPT !.pos = pos, !.addedUserFrames = added]
      OBVIOUS
    <3> HIDE DEF pos, added, next
    <3> QED
      BY <1>0, <3>1, <3>2 DEF Unwinds
  <2>5. /\ branch \in Unwinds /\ branch.frames = ui.frames
        /\ branch.firstGuessedFrame = ui.firstGuessedFrame
        /\ branch.isInterworking = ui.isInterworking
    <3>1. 1 \in Nat \ {0} /\ "branch" \in Phases
      BY DEF Phases
    <3> QED
      BY <1>0, <3>1 DEF Unwinds
  <2>6. \/ ui' = branch \/ reportIps(first, branch) \/ reportIps(Append(first, Entry), next)
    BY <1>3 DEF Address
  <2> HIDE DEF first, next, branch
  <2>7. ui.firstGuessedFrame <= Len(ui.frames)
    BY <1>b, <2>1
  <2>8. CASE ui' = branch
    BY <1>d, <2>1, <2>5, <2>8
  <2>9. CASE reportIps(first, branch)
    <3>1. ui' \in Unwinds /\ Bounded(ui)' /\ HasVeneer(ui)'
      BY <1>0, <2>3, <2>5, <2>7, <2>9, ReportIsOne
    <3> QED
      BY <1>c, <2>1, <3>1 DEF Bounded, HasVeneer
  <2>10. CASE reportIps(Append(first, Entry), next)
    <3>1. ui' \in Unwinds /\ Bounded(ui)' /\ HasVeneer(ui)'
      BY <1>0, <2>3, <2>4, <2>7, <2>10, ReportIsOne
    <3> QED
      BY <1>c, <2>1, <3>1 DEF Bounded, HasVeneer
  <2> QED
    BY <2>6, <2>8, <2>9, <2>10
<1>4. CASE CallchainEnds \/ BranchEnds
  <2>1. ui.phase \in {"callchain", "branch"} /\ UNCHANGED stackValues
    BY <1>4 DEF CallchainEnds, BranchEnds
  <2>2. \E p \in Phases, k \in Nat \ {0} : ui' = [ui EXCEPT !.phase = p, !.pos = k]
    <3>1. CASE CallchainEnds
      <4>1. ui' = [ui EXCEPT !.phase = IF ui.isKernel THEN "resolved" ELSE "branch", !.pos = 1]
        BY <3>1 DEF CallchainEnds
      <4>2. (IF ui.isKernel THEN "resolved" ELSE "branch") \in Phases /\ 1 \in Nat \ {0}
        BY DEF Phases
      <4> QED
        BY <4>1, <4>2
    <3>2. CASE BranchEnds
      <4>1. ui' = [ui EXCEPT !.phase = "resolved", !.pos = ui.pos]
        BY <1>0, <3>2 DEF BranchEnds, Unwinds
      <4>2. "resolved" \in Phases
        BY DEF Phases
      <4> QED
        BY <1>a, <4>1, <4>2
    <3> QED
      BY <1>4, <3>1, <3>2
  <2>3. /\ ui' \in Unwinds /\ ui'.frames = ui.frames
        /\ ui'.firstGuessedFrame = ui.firstGuessedFrame
        /\ ui'.isInterworking = ui.isInterworking
    BY <1>0, <2>2 DEF Unwinds
  <2> QED
    BY <1>d, <2>1, <2>3
<1>5. CASE Branch
  <2> DEFINE entry == ui.sample.branch[ui.pos]
             ips   == IF ui.pos = 1 THEN <<entry.to, entry.from>> ELSE <<entry.from>>
             next  == [ui EXCEPT !.pos = @ + 1]
  <2>1. ui.phase = "branch" /\ UNCHANGED stackValues
        /\ ui.pos \in 1 .. Len(ui.sample.branch)
    BY <1>5, <1>a DEF Branch
  <2>2. entry.to \in Int /\ entry.from \in Int
    <3>1. ui.sample.branch \in Seq([from : Int, to : Int])
      BY <1>a DEF SampleRecords
    <3>2. entry \in [from : Int, to : Int]
      BY <2>1, <3>1, ElementOf
    <3> QED
      BY <3>2
  <2>3. ips \in Seq(Int)
    BY <2>2
  <2>4. /\ next \in Unwinds /\ next.frames = ui.frames
        /\ next.firstGuessedFrame = ui.firstGuessedFrame
    BY <1>0 DEF Unwinds
  <2>5. reportIps(ips, next)
    BY <1>5 DEF Branch
  <2> HIDE DEF ips, next
  <2>6. ui' \in Unwinds /\ Bounded(ui)' /\ HasVeneer(ui)'
    BY <1>0, <1>b, <2>1, <2>3, <2>4, <2>5, ReportIsOne
  <2> QED
    BY <1>c, <2>1, <2>6 DEF Bounded, HasVeneer
<1>6. CASE unwindStack
  <2>1. ui.phase = "resolved" /\ UNCHANGED stackValues
    BY <1>6 DEF unwindStack
  <2>2. CASE ui' = [ui EXCEPT !.phase = "attempted"]
    <3>1. /\ ui' \in Unwinds /\ ui'.frames = ui.frames
          /\ ui'.firstGuessedFrame = ui.firstGuessedFrame
          /\ ui'.isInterworking = ui.isInterworking
      BY <1>0, <2>2 DEF Unwinds, Phases
    <3> QED
      BY <1>d, <2>1, <3>1
  <2>3. CASE ui' = BeginWalk(ui, 1, <<>>)
    <3>1. 1 \in 1 .. 2 /\ <<>> \in Seq(Frames)
      OBVIOUS
    <3>2. /\ ui' \in Unwinds /\ ui'.frames = ui.frames
          /\ ui'.firstGuessedFrame = ui.firstGuessedFrame
      <4>1. ui \in Unwinds
        BY <1>0 DEF TypeInv
      <4>2. Walking(ui', ui, 1, <<>>)
        BY ONLY <2>3, <3>1, <4>1, BeginWalkIsOne
      <4> QED
        BY ONLY <4>2 DEF Walking
    <3>3. ui'.isInterworking = ui.isInterworking
      BY <1>0, <2>3 DEF BeginWalk, Unwinds
    <3> QED
      BY <1>d, <2>1, <3>2, <3>3
  <2> QED
    BY <1>6, <2>2, <2>3 DEF unwindStack
<1>7. ASSUME \/ ui' = EndWalk(ui) \/ ui' = EndWalk(Guess(ui)), UNCHANGED stackValues
      PROVE  IInv'
  <2>1. ui' \in Unwinds /\ Bounded(ui') /\ HasVeneer(ui')
    BY <1>0, <1>7, EndWalkIsOne, GuessIsOne
  <2> QED
    BY <1>c, <1>7, <2>1
<1>8. CASE frameCallback
  <2>1. ui.phase = "callback" /\ UNCHANGED stackValues
    BY <1>8 DEF frameCallback
  <2> DEFINE frames == Append(ui.frames, Frame(Adjusted, FALSE))
             veneer == ui.isInterworking \/ (ui.frames = <<>> /\ Adjusted \in Veneers)
             added  == [ui EXCEPT !.phase = "read", !.frames = frames, !.isInterworking = veneer]
  <2>2. \/ ui' = EndWalk(Guess(ui)) \/ ui' = EndWalk(ui) \/ ui' = added
    BY <1>8, <1>0 DEF frameCallback, Unwinds
  <2>3. CASE ui' = added
    <3>1. Adjusted \in Int
      BY <1>a DEF Adjusted, Walks
    <3>2. Frame(Adjusted, FALSE) \in Frames
      BY <3>1 DEF Frame, Frames
    <3>a. ui.frames \in Seq(Frames) /\ Len(ui.frames) \in Nat
      BY <1>a
    <3>3. frames \in Seq(Frames) /\ Len(frames) = Len(ui.frames) + 1
      BY <3>2, <3>a, AppendOf
    <3>4. veneer \in BOOLEAN
      BY <1>0 DEF Unwinds
    <3> HIDE DEF frames, veneer
    <3>5. /\ ui' \in Unwinds /\ ui'.frames = frames /\ ui'.walk = ui.walk
          /\ ui'.firstGuessedFrame = ui.firstGuessedFrame /\ ui'.phase = "read"
      BY <1>0, <2>3, <3>3, <3>4 DEF Unwinds, Phases
    <3>6. Bounded(ui')
      BY <1>0, <1>a, <3>a, <3>3, <3>5 DEF Bounded
    <3>7. HasVeneer(ui')
      BY <3>a, <3>3, <3>5 DEF HasVeneer
    <3> QED
      BY <1>c, <2>1, <3>5, <3>6, <3>7
  <2> QED
    BY <1>7, <2>1, <2>2, <2>3
<1>9. CASE NoRule \/ ReadPastEnd \/ ReadKernel
  BY <1>7, <1>9 DEF NoRule, ReadPastEnd, ReadKernel
<1>w. Asks => Asked \in Int
  <2> SUFFICES ASSUME Asks PROVE Asked \in Int
    OBVIOUS
  <2>1. ui.walk.sp \in Int /\ ui.walk.pc \in DOMAIN Cfi
    BY <1>a DEF Walks, Asks
  <2>2. Rule(ui.walk.pc).offset \in Int
    BY <2>1, UnwindingAssumption DEF Rule
  <2> QED
    BY <2>1, <2>2 DEF Asked, WordOf
<1>10. CASE ReadStack
  <2> DEFINE value == ui.sample.stack[Asked - ui.sample.sp + 1]
  <2>1. Asks /\ OnStack(ui.sample, Asked) /\ ui' = Return(ui, value)
    BY <1>10 DEF ReadStack
  <2>2. ui.sample.sp \in Int /\ ui.sample.stack \in Seq(Int) /\ Asked \in Int
    BY <1>a, <1>w, <2>1 DEF SampleRecords
  <2>3. Asked - ui.sample.sp + 1 \in 1 .. Len(ui.sample.stack)
    BY <2>1, <2>2 DEF OnStack
  <2>4. value \in Int
    BY <2>2, <2>3
  <2>5. stackValues' = [a \in DOMAIN stackValues \cup {Asked} |->
                          IF a = Asked THEN value ELSE stackValues[a]]
    BY <1>10 DEF ReadStack
  <2> HIDE DEF value
  <2>6. stackValues' \in [DOMAIN stackValues' -> Int]
    BY <1>0, <2>4, <2>5
  <2>7. ui' \in Unwinds /\ Bounded(ui') /\ HasVeneer(ui')
    BY <1>0, <2>1, <2>4, ReturnIsOne DEF Asks
  <2> QED
    BY <2>6, <2>7 DEF TypeInv, Bounded, HasVeneer
<1>11. CASE ReadFile
  <2>1. /\ Asks /\ Asked \in DOMAIN FileData /\ ui' = Return(ui, FileData[Asked])
        /\ UNCHANGED stackValues
    BY <1>11 DEF ReadFile, Elsewhere
  <2>2. FileData[Asked] \in Int
    BY <2>1, UnwindingAssumption
  <2>3. ui' \in Unwinds /\ Bounded(ui') /\ HasVeneer(ui')
    BY <1>0, <2>1, <2>2, ReturnIsOne DEF Asks
  <2> QED
    BY <1>c, <2>1, <2>3
<1>12. CASE ReadOlder
  <2>1. Asks /\ UNCHANGED stackValues
    BY <1>12 DEF ReadOlder, Elsewhere
  <2>2. CASE Asked \notin DOMAIN stackValues
    BY <1>7, <1>12, <2>1, <2>2 DEF ReadOlder
  <2>3. CASE Asked \in DOMAIN stackValues
    <3>1. ui' = Return(Guess(ui), stackValues[Asked])
      BY <1>12, <2>3 DEF ReadOlder
    <3>2. stackValues[Asked] \in Int
      BY <1>0, <2>3
    <3>3. Guess(ui) \in Unwinds /\ Bounded(Guess(ui)) /\ HasVeneer(Guess(ui))
      BY <1>0, GuessIsOne
    <3>4. Guess(ui).phase = "read" /\ Guess(ui).walk.pc \in DOMAIN Cfi
      BY <1>0, <2>1 DEF Guess, Asks, Unwinds
    <3>5. ui' \in Unwinds /\ Bounded(ui') /\ HasVeneer(ui')
      BY <3>1, <3>2, <3>3, <3>4, ReturnIsOne
    <3> QED
      BY <1>c, <2>1, <3>5
  <2> QED
    BY <2>2, <2>3
<1>13. CASE Retry
  <2>1. 2 \in 0 .. 2
    OBVIOUS
  <2>2. ui' = NewUnwind(ui.sample, 2) /\ UNCHANGED stackValues
    BY <1>13 DEF Retry
  <2>3. ui' \in Unwinds /\ ui'.frames = <<>> /\ ui'.firstGuessedFrame = -1
    BY <1>a, <2>1, <2>2, NewUnwindIsOne
  <2>4. ui'.isInterworking = FALSE
    BY <2>2 DEF NewUnwind
  <2> QED
    BY <1>c, <2>2, <2>3, <2>4 DEF Bounded, HasVeneer
<1>14. CASE Finish
  <2>1. ui.phase \notin {"callback", "read"} /\ UNCHANGED stackValues
    BY <1>14 DEF Finish, Attempted
  <2>2. ui' = [ui EXCEPT !.phase = "ip"] \/ ui' = [ui EXCEPT !.phase = "send"]
    BY <1>14 DEF Finish
  <2>3. /\ ui' \in Unwinds /\ ui'.frames = ui.frames
        /\ ui'.firstGuessedFrame = ui.firstGuessedFrame
        /\ ui'.isInterworking = ui.isInterworking
    BY <1>0, <2>2 DEF Unwinds, Phases
  <2> QED
    BY <1>d, <2>1, <2>3
<1>15. CASE LookupIp
  <2> DEFINE frame == Frame(ui.sample.ip, ui.sample.ip \in Kernel)
  <2>1. /\ ui.frames = <<>> /\ ui.phase = "ip" /\ UNCHANGED stackValues
        /\ ui' = [ui EXCEPT !.phase = "send", !.frames = <<frame>>]
    BY <1>15 DEF LookupIp
  <2>2. frame \in Frames
    BY <1>a DEF Frame, Frames, SampleRecords
  <2> HIDE DEF frame
  <2>a. <<frame>> \in Seq(Frames) /\ Len(<<frame>>) = 1
    BY <1>a, <2>2, AppendOf
  <2>3. /\ ui' \in Unwinds /\ ui'.frames = <<frame>>
        /\ ui'.firstGuessedFrame = ui.firstGuessedFrame
    BY <1>0, <2>1, <2>a DEF Unwinds, Phases
  <2>4. ui.firstGuessedFrame <= 0
    BY <1>b, <2>1
  <2>5. Bounded(ui') /\ HasVeneer(ui')
    BY <1>a, <2>3, <2>4 DEF Bounded, HasVeneer
  <2> QED
    BY <1>c, <2>1, <2>3, <2>5
<1>16. CASE Send
  <2>1. ui' = Idle /\ UNCHANGED stackValues
    BY <1>16 DEF Send
  <2>2. Idle \in Unwinds /\ Bounded(Idle) /\ HasVeneer(Idle)
    BY IdleIsOne
  <2> QED
    BY <1>c, <2>1, <2>2
<1>17. CASE UNCHANGED vars
  BY <1>0, <1>c, <1>17 DEF vars
<1> QED
  BY <1>1, <1>2, <1>3, <1>4, <1>5, <1>6, <1>8, <1>9, <1>10, <1>11, <1>12, <1>13, <1>14,
     <1>15, <1>16, <1>17 DEF Next

\* For all samples: what was guessed is a part of the frames that are sent, and libdw is
\* never asked to unwind a second time without a frame to start from (unwindStack).
THEOREM GuessesAlwaysAreFrames == Spec => []GuessesAreFrames
<1>1. IInv => GuessesAreFrames
  <2> SUFFICES ASSUME IInv, ui.phase = "send"
               PROVE  Len(ui.frames) - ui.firstGuessedFrame >= 0
    BY DEF GuessesAreFrames
  <2>1. ui.firstGuessedFrame \in Int /\ Len(ui.frames) \in Nat
    BY DEF IInv, TypeInv, Unwinds
  <2>2. ui.firstGuessedFrame <= Len(ui.frames)
    BY DEF IInv, Bounded
  <2> QED
    BY <2>1, <2>2
<1> QED
  BY <1>1, InitInv, NextInv, PTL DEF Spec

\* For all samples: a frame is kept for the second walk, which only happens after a
\* veneer (frames.resize(1)), as one that is a veneer has been found.
THEOREM VeneersAreKept == Spec => [](ui.isInterworking => Len(ui.frames) > 0)
<1>1. IInv => (ui.isInterworking => Len(ui.frames) > 0)
  BY DEF IInv, HasVeneer
<1> QED
  BY <1>1, InitInv, NextInv, PTL DEF Spec

-----------------------------------------------------------------------------
(***************************************************************************)
(* What the frames are while an attempt goes on: for every phase, how far  *)
(* they have come of those that the sample determines.  FInv is inductive  *)
(* relative to IInv.                                                       *)
(***************************************************************************)
Begins(f, g) == Len(f) <= Len(g) /\ \A i \in 1 .. Len(f) : f[i] = g[i]

\* Before the stack is looked at, the last frame tells whether there is a veneer.
EndsAtVeneer(u) ==
  u.isInterworking = (u.frames # <<>> /\ u.frames[Len(u.frames)].ip \in Veneers)

UserBefore(s, p) == \E j \in UserAddresses(s) : j < p

ReadsChain(u) ==
  LET s == u.sample
  IN  /\ u.pos <= Len(s.callchain) + 1
      /\ \A j \in 1 .. u.pos - 1 : j \in Known(s)
      /\ u.isKernel = InKernel(s, u.pos)
      /\ u.addedUserFrames = UserBefore(s, u.pos)
      /\ s.branch # <<>> => ~UserBefore(s, u.pos)
      /\ u.frames = ChainFrames(s)[u.pos - 1]
      /\ EndsAtVeneer(u)

ReadsBranches(u) ==
  LET s == u.sample
  IN  /\ ~u.isKernel
      /\ u.pos <= Len(s.branch) + 1
      /\ s.branch # <<>> => UsesBranches(s)
      /\ Begins(u.frames, Recorded(s))
      /\ Len(u.frames) = Len(ChainFrames(s)[Len(s.callchain)]) + (IF u.pos = 1 THEN 0 ELSE u.pos)
      /\ EndsAtVeneer(u)

HasRecorded(u, d) ==
  /\ Begins(u.frames, Recorded(u.sample))
  /\ d = {} => u.frames = Recorded(u.sample)
  /\ EndsAtVeneer(u)

Guessed(u) == u.firstGuessedFrame # None

FrameAt(place, k) == Frame(place.pc - (IF k = 1 THEN 0 ELSE 1), FALSE)

\* The frames are those of base, and one for each of the first places of the trail.
Follow(u, base, trail, n) ==
  /\ Begins(base, u.frames)
  /\ Len(u.frames) - Len(base) <= n \/ Len(u.frames) = Len(base)
  /\ \A j \in 1 .. Len(u.frames) - Len(base) :
       /\ trail[j].pc # 0
       /\ u.frames[Len(base) + j] = FrameAt(trail[j], j)
       /\ trail[j].older => Guessed(u)

\* libdw is at the place of the last frame, or at the next one, in the callback.
IsAt(u, d, base, trail, n) ==
  LET m == Len(u.frames) - Len(base)
  IN  /\ u.phase = "read" =>
           d = {} /\ m > 0 /\ u.walk.pc = trail[m].pc /\ u.walk.sp = trail[m].sp
      /\ u.phase = "callback" =>
           /\ u.walk.activation = (m = 0)
           /\ d = {} /\ m < n =>
                /\ u.walk.pc = trail[m + 1].pc
                /\ u.walk.pc # 0 => /\ u.walk.sp = trail[m + 1].sp
                                    /\ trail[m + 1].older => Guessed(u)

GuessesAt(u, places) == (\E k \in DOMAIN places : places[k].older) => Guessed(u)

\* What the two walks of a stack go on from, and how far.
BaseOf(u, values) ==
  IF u.walk.number = 1 THEN Recorded(u.sample) ELSE <<Head(First(u.sample, values))>>
LimitOf(u) ==
  IF u.walk.number = 1 THEN MaxFrames + 1 - Len(Recorded(u.sample)) ELSE MaxFrames
StartOf(u) ==
  IF u.walk.number = 1 /\ ~FromVeneer(u.sample) THEN u.sample.pc ELSE u.sample.lr
TrailOf(u, values) == Trail(u.sample, values, StartOf(u), LimitOf(u))

\* Whether there is a second walk, and what the first one has left for it.
Repeats(u, values, d) ==
  LET s == u.sample
  IN  \/ /\ u.walk.number = 1
         /\ u.isInterworking <=>
              FromVeneer(s) \/ (Recorded(s) = <<>> /\ u.frames # <<>> /\ u.frames[1].ip \in Veneers)
      \/ /\ u.walk.number = 2
         /\ WalksTwice(s, values)
         /\ Begins(u.walk.saved, First(s, values))
         /\ d = {} => u.walk.saved = First(s, values) /\ GuessesAt(u, FirstPlaces(s, values))

WalksStack(u, values, d) ==
  /\ Repeats(u, values, d)
  /\ Follow(u, BaseOf(u, values), TrailOf(u, values), LimitOf(u))
  /\ IsAt(u, d, BaseOf(u, values), TrailOf(u, values), LimitOf(u))

PlacesOf(s, values) ==
  IF TakesSecond(s, values) THEN SecondPlaces(s, values) ELSE FirstPlaces(s, values)

HasAll(u, values, a) ==
  /\ u.frames = AllFrames(u.sample, values, HasStack(u.sample) /\ a)
  /\ HasStack(u.sample) /\ a => GuessesAt(u, PlacesOf(u.sample, values))

Only(s) == <<Frame(s.ip, s.ip \in Kernel)>>

Sends(u, all, values, a) ==
  /\ u.frames = IF all = <<>> THEN Only(u.sample) ELSE all
  /\ HasStack(u.sample) /\ a => GuessesAt(u, PlacesOf(u.sample, values))

\* In the second attempt, the tables were clean.
Counts(u, d, x) == u.attempt \in {1, 2} /\ (x => d # {}) /\ (u.attempt = 2 /\ d # {} => x)

\* d, a, x: dirty, attached and disturbed.
Follows(u, values, d, a, x) ==
  /\ u.phase \notin {"idle", "ip", "send"} => Counts(u, d, x)
  /\ u.phase = "callchain" => ReadsChain(u)
  /\ u.phase = "branch" => ReadsBranches(u)
  /\ u.phase = "resolved" => HasRecorded(u, d)
  /\ u.phase \in {"callback", "read"} =>
       HasStack(u.sample) /\ a /\ d \subseteq {"user"} /\ WalksStack(u, values, d)
  /\ u.phase = "attempted" =>
       IF d = {} THEN HasAll(u, values, a) ELSE PartOfFrames(u.frames, u.sample, values)
  /\ u.phase = "ip" => u.frames = <<>> /\ (~x => HasAll(u, values, a))
  /\ u.phase = "send" =>
       IF x THEN u.frames = Only(u.sample) \/ PartOfFrames(u.frames, u.sample, values)
       ELSE Sends(u, AllFrames(u.sample, values, HasStack(u.sample) /\ a), values, a)

\* OlderValues, of any values.
Older(values, s) == [a \in {word \in DOMAIN values : ~OnStack(s, word)} |-> values[a]]

FInv == Follows(ui, Older(stackValues, ui.sample), dirty, attached, disturbed)

-----------------------------------------------------------------------------
(***************************************************************************)
(* Sequences that begin with others                                        *)
(***************************************************************************)
LEMMA NoneOf ==
  ASSUME NEW S
  PROVE  <<>> \in Seq(S)
OBVIOUS

LEMMA OneOf ==
  ASSUME NEW S, NEW e \in S
  PROVE  <<e>> \in Seq(S) /\ Len(<<e>>) = 1 /\ <<e>>[1] = e
OBVIOUS

LEMMA ConcatNone ==
  ASSUME NEW S, NEW f \in Seq(S)
  PROVE  f \o <<>> = f /\ <<>> \o f = f
OBVIOUS

LEMMA BeginsItself ==
  ASSUME NEW S, NEW f \in Seq(S)
  PROVE  Begins(f, f)
BY DEF Begins

LEMMA BeginsWithNothing ==
  ASSUME NEW S, NEW f \in Seq(S)
  PROVE  Begins(<<>>, f)
BY DEF Begins

LEMMA BeginsConcat ==
  ASSUME NEW S, NEW f \in Seq(S), NEW g \in Seq(S)
  PROVE  Begins(f, f \o g)
BY DEF Begins

LEMMA BeginsConcats ==
  ASSUME NEW S, NEW f \in Seq(S), NEW g \in Seq(S), NEW h \in Seq(S), Begins(g, h)
  PROVE  Begins(f \o g, f \o h)
BY DEF Begins

LEMMA BeginsBegins ==
  ASSUME NEW S, NEW f \in Seq(S), NEW g \in Seq(S), NEW h \in Seq(S),
         Begins(f, g), Begins(g, h)
  PROVE  Begins(f, h)
BY DEF Begins

LEMMA BeginsIsPrefix ==
  ASSUME NEW S, NEW f \in Seq(S), NEW g \in Seq(S), Begins(f, g)
  PROVE  IsPrefix(f, g)
<1>1. Len(f) \in Nat /\ Len(g) \in Nat /\ Len(f) <= Len(g)
  BY DEF Begins
<1>2. SubSeq(f, 1, Len(f)) = [i \in 1 .. Len(f) |-> f[i]]
  BY <1>1
<1>3. SubSeq(g, 1, Len(f)) = [i \in 1 .. Len(f) |-> g[i]]
  BY <1>1
<1>4. \A i \in 1 .. Len(f) : f[i] = g[i]
  BY DEF Begins
<1>5. SubSeq(f, 1, Len(f)) = SubSeq(g, 1, Len(f))
  BY ONLY <1>2, <1>3, <1>4
<1> QED
  BY <1>1, <1>5 DEF IsPrefix

LEMMA BeginsAndAsLong ==
  ASSUME NEW S, NEW f \in Seq(S), NEW g \in Seq(S), Begins(f, g), Len(g) <= Len(f)
  PROVE  f = g
<1>1. Len(f) = Len(g) /\ \A i \in 1 .. Len(f) : f[i] = g[i]
  BY DEF Begins
<1> QED
  BY <1>1

-----------------------------------------------------------------------------
(***************************************************************************)
(* The frames of the call chain and the branch stack.  A recursive         *)
(* function has the value that its definition says, because one for a part *)
(* of its domain extends to the next argument.                             *)
(***************************************************************************)
LEMMA Induction ==
  ASSUME NEW n \in Nat, NEW T, 0 \in T, \A k \in 1 .. n : k - 1 \in T => k \in T
  PROVE  \A k \in 0 .. n : k \in T
<1> DEFINE bad == {k \in 0 .. n : k \notin T}
<1> SUFFICES ASSUME bad # {} PROVE FALSE
  OBVIOUS
<1>1. bad \subseteq Nat
  OBVIOUS
<1>2. PICK m \in bad : \A k \in bad : ~(k < m)
  <2>1. PICK m \in bad : \A k \in bad : ~(<<k, m>> \in OpToRel(<, Nat))
    BY <1>1, NatLessThanWellFounded, WFMin
  <2>2. \A k \in bad : k < m => <<k, m>> \in OpToRel(<, Nat)
    BY <1>1 DEF OpToRel
  <2> QED
    BY <2>1, <2>2
<1>3. m # 0 /\ m \in 1 .. n
  BY <1>2
<1>4. m - 1 \in 0 .. n /\ m - 1 < m
  BY <1>3
<1>5. m - 1 \in T
  BY <1>2, <1>4
<1> QED
  BY <1>2, <1>3, <1>5

\* Up to m, f is what ChainFrames evaluates.
Chains(s, f, m) == f = [k \in 0 .. m |-> IF k = 0 THEN <<>> ELSE f[k - 1] \o FramesOf(s, k)]

LEMMA ChainExists ==
  ASSUME NEW s, NEW n \in Nat
  PROVE  \E f : Chains(s, f, n)
<1> DEFINE T == {m \in 0 .. n : \E f : Chains(s, f, m)}
<1>1. 0 \in T
  <2> DEFINE f == [k \in 0 .. 0 |-> <<>>]
  <2>1. Chains(s, f, 0)
    BY DEF Chains
  <2> QED
    BY <2>1
<1>2. ASSUME NEW m \in 1 .. n, m - 1 \in T
      PROVE  m \in T
  <2>1. PICK f : Chains(s, f, m - 1)
    BY <1>2
  <2> DEFINE g == [k \in 0 .. m |-> IF k = m THEN f[m - 1] \o FramesOf(s, m) ELSE f[k]]
  <2>2. Chains(s, g, m)
    <3>1. ASSUME NEW k \in 0 .. m
          PROVE  g[k] = IF k = 0 THEN <<>> ELSE g[k - 1] \o FramesOf(s, k)
      <4>1. CASE k = m
        <5>1. g[k] = f[m - 1] \o FramesOf(s, m) /\ g[m - 1] = f[m - 1] /\ k # 0
          BY <4>1
        <5> QED
          BY ONLY <4>1, <5>1, Zenon
      <4>2. CASE k # m
        <5>1. k \in 0 .. m - 1 /\ g[k] = f[k]
          BY <4>2
        <5>2. k # 0 => g[k - 1] = f[k - 1]
          BY <5>1
        <5>3. f[k] = IF k = 0 THEN <<>> ELSE f[k - 1] \o FramesOf(s, k)
          BY <2>1, <5>1 DEF Chains
        <5> HIDE DEF g
        <5> QED
          BY ONLY <5>1, <5>2, <5>3, Zenon
      <4> QED
        BY <4>1, <4>2
    <3>2. g = [k \in 0 .. m |-> g[k]]
      OBVIOUS
    <3> HIDE DEF g
    <3>3. g = [k \in 0 .. m |-> IF k = 0 THEN <<>> ELSE g[k - 1] \o FramesOf(s, k)]
      BY ONLY <3>1, <3>2
    <3> QED
      BY <3>3 DEF Chains
  <2> QED
    BY <2>2
<1> HIDE DEF T
<1>3. n \in T
  BY <1>1, <1>2, Induction
<1> QED
  BY <1>3 DEF T

LEMMA ChainIs ==
  ASSUME NEW s, NEW n \in Nat, n = Len(s.callchain)
  PROVE  /\ ChainFrames(s)[0] = <<>>
         /\ \A k \in 1 .. n : ChainFrames(s)[k] = ChainFrames(s)[k - 1] \o FramesOf(s, k)
<1> DEFINE C == CHOOSE f : Chains(s, f, n)
<1>1. Chains(s, C, n)
  BY ChainExists
<1>2. C = ChainFrames(s)
  BY DEF ChainFrames, Chains
<1> HIDE DEF C
<1>3. C[0] = <<>> /\ \A k \in 1 .. n : C[k] = C[k - 1] \o FramesOf(s, k)
  <2>1. \A k \in 0 .. n : C[k] = IF k = 0 THEN <<>> ELSE C[k - 1] \o FramesOf(s, k)
    BY <1>1 DEF Chains
  <2>2. 0 \in 0 .. n /\ \A k \in 1 .. n : k \in 0 .. n /\ k # 0
    OBVIOUS
  <2> QED
    BY ONLY <2>1, <2>2, Zenon
<1> QED
  BY <1>2, <1>3

\* The parts of a sample.
LEMMA SampleTypes ==
  ASSUME NEW s \in SampleRecords
  PROVE  /\ s.ip \in Int /\ s.pc \in Int /\ s.sp \in Int /\ s.lr \in Int
         /\ s.callchain \in Seq(Int) /\ s.branch \in Seq([from : Int, to : Int])
         /\ s.stack \in Seq(Int) /\ Len(s.callchain) \in Nat /\ Len(s.branch) \in Nat
BY DEF SampleRecords

LEMMA FramesOfAreFrames ==
  ASSUME NEW s \in SampleRecords, NEW i \in 1 .. Len(s.callchain)
  PROVE  FramesOf(s, i) \in Seq(Frames)
<1>1. s.ip \in Int /\ s.callchain[i] \in Int
  BY SampleTypes, ElementOf
<1>2. Frame(s.ip, FALSE) \in Frames /\ Frame(s.callchain[i], InKernel(s, i)) \in Frames
  <2>1. InKernel(s, i) \in BOOLEAN
    BY DEF InKernel
  <2> QED
    BY <1>1, <2>1 DEF Frame, Frames
<1> DEFINE f == IF FirstUser(s, i) /\ s.callchain[i] # s.ip THEN <<Frame(s.ip, FALSE)>> ELSE <<>>
           g == IF s.branch # <<>> /\ FirstUser(s, i) THEN <<>>
                ELSE <<Frame(s.callchain[i], InKernel(s, i))>>
<1>3. f \in Seq(Frames) /\ g \in Seq(Frames)
  <2>1. /\ <<>> \in Seq(Frames) /\ <<Frame(s.ip, FALSE)>> \in Seq(Frames)
        /\ <<Frame(s.callchain[i], InKernel(s, i))>> \in Seq(Frames)
    BY ONLY <1>2, NoneOf, OneOf, Zenon
  <2> QED
    BY ONLY <2>1, Zenon
<1>4. FramesOf(s, i) = <<>> \/ FramesOf(s, i) = f \o g
  BY DEF FramesOf
<1> HIDE DEF f, g
<1> QED
  BY ONLY <1>3, <1>4, NoneOf, ConcatOf, Zenon

LEMMA ChainFramesAreFrames ==
  ASSUME NEW s \in SampleRecords
  PROVE  \A k \in 0 .. Len(s.callchain) : ChainFrames(s)[k] \in Seq(Frames)
<1>1. PICK n \in Nat : n = Len(s.callchain)
  BY SampleTypes
<1> DEFINE T == {k \in 0 .. n : ChainFrames(s)[k] \in Seq(Frames)}
<1>2. 0 \in T
  <2>1. ChainFrames(s)[0] = <<>> /\ 0 \in 0 .. n
    BY <1>1, ChainIs
  <2> QED
    BY ONLY <2>1, NoneOf, Zenon
<1>3. ASSUME NEW k \in 1 .. n, k - 1 \in T
      PROVE  k \in T
  <2>1. FramesOf(s, k) \in Seq(Frames)
    BY <1>1, FramesOfAreFrames
  <2>2. ChainFrames(s)[k] = ChainFrames(s)[k - 1] \o FramesOf(s, k)
    BY <1>1, ChainIs
  <2>3. k \in 0 .. n /\ ChainFrames(s)[k - 1] \in Seq(Frames)
    BY <1>3
  <2> QED
    BY ONLY <2>1, <2>2, <2>3, ConcatOf, Zenon
<1> HIDE DEF T
<1>4. \A k \in 0 .. n : k \in T
  BY ONLY <1>2, <1>3, Induction
<1> QED
  BY <1>1, <1>4 DEF T

LEMMA ChainBegins ==
  ASSUME NEW s \in SampleRecords
  PROVE  \A k \in 0 .. Len(s.callchain), j \in 0 .. Len(s.callchain) :
           j <= k => Begins(ChainFrames(s)[j], ChainFrames(s)[k])
<1>1. PICK n \in Nat : n = Len(s.callchain)
  BY SampleTypes
<1>c. PICK C : C = ChainFrames(s)
  OBVIOUS
<1>t. \A k \in 0 .. n : C[k] \in Seq(Frames)
  BY <1>1, <1>c, ChainFramesAreFrames
<1> DEFINE T == {k \in 0 .. n : \A j \in 0 .. n : j <= k => Begins(C[j], C[k])}
<1>2. 0 \in T
  <2>1. 0 \in 0 .. n /\ \A j \in 0 .. n : j <= 0 => j = 0
    OBVIOUS
  <2>2. Begins(C[0], C[0])
    BY <1>t, <2>1, BeginsItself
  <2> QED
    BY <2>1, <2>2
<1>3. ASSUME NEW k \in 1 .. n, k - 1 \in T
      PROVE  k \in T
  <2>1. FramesOf(s, k) \in Seq(Frames)
    BY <1>1, FramesOfAreFrames
  <2>2. C[k] = C[k - 1] \o FramesOf(s, k)
    BY <1>1, <1>c, ChainIs
  <2>3. k - 1 \in 0 .. n /\ k \in 0 .. n
    OBVIOUS
  <2>4. C[k - 1] \in Seq(Frames) /\ C[k] \in Seq(Frames)
    BY <1>t, <2>3
  <2>5. Begins(C[k - 1], C[k])
    BY ONLY <2>1, <2>2, <2>4, BeginsConcat
  <2>6. ASSUME NEW j \in 0 .. n, j <= k
        PROVE  Begins(C[j], C[k])
    <3>1. C[j] \in Seq(Frames)
      BY <1>t
    <3>2. CASE j = k
      BY ONLY <3>1, <3>2, BeginsItself
    <3>3. CASE j # k
      <4>1. j <= k - 1
        BY <2>6, <3>3
      <4>2. Begins(C[j], C[k - 1])
        BY <1>3, <4>1
      <4> QED
        BY ONLY <2>4, <2>5, <3>1, <4>2, BeginsBegins
    <3> QED
      BY <3>2, <3>3
  <2> QED
    BY <2>3, <2>6
<1> HIDE DEF T
<1>4. \A k \in 0 .. n : k \in T
  BY ONLY <1>2, <1>3, Induction
<1> QED
  BY <1>1, <1>4, <1>c DEF T

\* Entries that add no frames.
LEMMA ChainStays ==
  ASSUME NEW s \in SampleRecords, NEW p \in 0 .. Len(s.callchain),
         \A i \in p + 1 .. Len(s.callchain) : FramesOf(s, i) = <<>>
  PROVE  ChainFrames(s)[Len(s.callchain)] = ChainFrames(s)[p]
<1>1. PICK n \in Nat : n = Len(s.callchain)
  BY SampleTypes
<1>c. PICK C : C = ChainFrames(s)
  OBVIOUS
<1>p. p \in 0 .. n /\ \A i \in p + 1 .. n : FramesOf(s, i) = <<>>
  BY <1>1
<1>t. \A k \in 0 .. n : C[k] \in Seq(Frames)
  BY <1>1, <1>c, ChainFramesAreFrames
<1> DEFINE T == {k \in 0 .. n : p <= k => C[k] = C[p]}
<1>2. 0 \in T
  <2>1. p <= 0 => p = 0
    BY <1>p
  <2> QED
    BY <2>1
<1>3. ASSUME NEW k \in 1 .. n, k - 1 \in T
      PROVE  k \in T
  <2>1. CASE k = p \/ k < p
    BY <1>p, <2>1
  <2>2. CASE p < k
    <3>1. k \in p + 1 .. n /\ p <= k - 1 /\ k - 1 \in 0 .. n
      BY <1>p, <2>2
    <3>2. C[k] = C[k - 1] \o FramesOf(s, k)
      BY <1>1, <1>c, ChainIs
    <3>3. FramesOf(s, k) = <<>> /\ C[k - 1] = C[p] /\ C[k - 1] \in Seq(Frames)
      BY <1>p, <1>t, <1>3, <3>1
    <3>4. C[k] = C[p]
      BY ONLY <3>2, <3>3
    <3> QED
      BY <3>4
  <2> QED
    BY <1>p, <2>1, <2>2
<1> HIDE DEF T
<1>4. \A k \in 0 .. n : k \in T
  BY ONLY <1>2, <1>3, Induction
<1>5. n \in 0 .. n /\ p <= n
  BY <1>p
<1> QED
  BY <1>1, <1>4, <1>5, <1>c DEF T

LEMMA BranchesAreFrames ==
  ASSUME NEW s \in SampleRecords, s.branch # <<>>
  PROVE  /\ Branches(s) \in Seq(Frames) /\ Len(Branches(s)) = Len(s.branch) + 1
         /\ Branches(s)[1] = Frame(s.branch[1].to, FALSE)
         /\ \A i \in 1 .. Len(s.branch) : Branches(s)[i + 1] = Frame(s.branch[i].from, FALSE)
<1>1. PICK n \in Nat : n = Len(s.branch) /\ n > 0
  BY SampleTypes
<1>2. \A i \in 1 .. n : s.branch[i].from \in Int /\ s.branch[i].to \in Int
  <2>1. \A i \in 1 .. n : s.branch[i] \in [from : Int, to : Int]
    BY <1>1, SampleTypes, ElementOf
  <2> QED
    BY <2>1
<1>3. PICK B : B = Branches(s)
  OBVIOUS
<1>4. B = [i \in 1 .. n + 1 |->
             Frame(IF i = 1 THEN s.branch[1].to ELSE s.branch[i - 1].from, FALSE)]
  BY <1>1, <1>3 DEF Branches
<1>5. \A i \in 1 .. n + 1 : B[i] \in Frames
  <2>1. \A a \in Int : Frame(a, FALSE) \in Frames
    BY DEF Frame, Frames
  <2>2. ASSUME NEW i \in 1 .. n + 1
        PROVE  (IF i = 1 THEN s.branch[1].to ELSE s.branch[i - 1].from) \in Int
    <3>1. 1 \in 1 .. n /\ (i # 1 => i - 1 \in 1 .. n)
      BY <1>1
    <3> QED
      BY ONLY <1>2, <3>1, Zenon
  <2> QED
    BY <1>4, <2>1, <2>2
<1>6. B \in Seq(Frames) /\ Len(B) = n + 1
  <2>1. n + 1 \in Nat /\ B = [i \in 1 .. n + 1 |-> B[i]]
    BY <1>4
  <2> QED
    BY ONLY <1>5, <2>1
<1>7. /\ B[1] = Frame(s.branch[1].to, FALSE)
      /\ \A i \in 1 .. n : B[i + 1] = Frame(s.branch[i].from, FALSE)
  <2>1. 1 \in 1 .. n + 1 /\ \A i \in 1 .. n : i + 1 \in 1 .. n + 1 /\ i + 1 # 1 /\ (i + 1) - 1 = i
    BY <1>1
  <2> QED
    BY <1>4, <2>1
<1> QED
  BY <1>1, <1>3, <1>6, <1>7

LEMMA RecordedAreFrames ==
  ASSUME NEW s \in SampleRecords
  PROVE  /\ Recorded(s) \in Seq(Frames)
         /\ Begins(ChainFrames(s)[Len(s.callchain)], Recorded(s))
         /\ ~UsesBranches(s) => Recorded(s) = ChainFrames(s)[Len(s.callchain)]
         /\ UsesBranches(s) => Recorded(s) = ChainFrames(s)[Len(s.callchain)] \o Branches(s)
<1> DEFINE B == IF UsesBranches(s) THEN Branches(s) ELSE <<>>
<1>1. Len(s.callchain) \in 0 .. Len(s.callchain)
  BY SampleTypes
<1>2. PICK c \in Seq(Frames) : c = ChainFrames(s)[Len(s.callchain)]
  BY <1>1, ChainFramesAreFrames
<1>3. B \in Seq(Frames)
  <2>1. UsesBranches(s) => s.branch # <<>>
    BY DEF UsesBranches
  <2> QED
    BY ONLY s \in SampleRecords, <2>1, NoneOf, BranchesAreFrames, Zenon
<1>4. Recorded(s) = c \o B
  BY <1>2 DEF Recorded
<1>5. c \o B \in Seq(Frames) /\ Begins(c, c \o B) /\ c \o <<>> = c
  BY ONLY <1>2, <1>3, ConcatOf, ConcatNone, BeginsConcat, Zenon
<1> QED
  BY <1>2, <1>4, <1>5

-----------------------------------------------------------------------------
(***************************************************************************)
(* The entries of a call chain, one after the other                        *)
(***************************************************************************)
IsKnown(entry) == entry <= ContextMax \/ entry \in {HV, KERNEL, USER}

LEMMA KnownNext ==
  ASSUME NEW s \in SampleRecords, NEW p \in 1 .. Len(s.callchain),
         \A j \in 1 .. p - 1 : j \in Known(s), IsKnown(s.callchain[p])
  PROVE  p \in Known(s) /\ \A j \in 1 .. p : j \in Known(s)
<1>1. PICK n \in Nat : n = Len(s.callchain)
  BY SampleTypes
<1> DEFINE U == {i \in DOMAIN s.callchain : s.callchain[i] > ContextMax
                                            /\ s.callchain[i] \notin {HV, KERNEL, USER}}
<1>2. DOMAIN s.callchain = 1 .. n /\ \A i \in 1 .. n : s.callchain[i] \in Int
  BY <1>1, SampleTypes
<1>3. Known(s) = {i \in 1 .. n : \A u \in U : i < u}
  BY <1>2 DEF Known
<1>4. U \subseteq 1 .. n /\ p \notin U
  BY <1>2, UnwindingAssumption DEF IsKnown
<1> HIDE DEF U
<1>5. ASSUME NEW u \in U, ~(p < u)
      PROVE  FALSE
  <2>1. u \in 1 .. p - 1
    BY <1>1, <1>4, <1>5
  <2>2. u \in Known(s)
    BY <2>1
  <2>3. u \in Int /\ u < u
    BY <1>3, <1>5, <2>1, <2>2
  <2> QED
    BY <2>3
<1>6. p \in Known(s)
  BY <1>1, <1>3, <1>5
<1>7. ASSUME NEW j \in 1 .. p
      PROVE  j = p \/ j \in 1 .. p - 1
  OBVIOUS
<1> QED
  BY <1>6, <1>7

LEMMA KnownNoMore ==
  ASSUME NEW s \in SampleRecords, NEW p \in 1 .. Len(s.callchain), ~IsKnown(s.callchain[p])
  PROVE  \A i \in Known(s) : i < p
<1>1. s.callchain[p] \in Int /\ p \in DOMAIN s.callchain
  BY SampleTypes
<1>2. s.callchain[p] > ContextMax /\ s.callchain[p] \notin {HV, KERNEL, USER}
  BY <1>1, UnwindingAssumption DEF IsKnown
<1> QED
  BY <1>1, <1>2 DEF Known

LEMMA KnownAreEntries ==
  ASSUME NEW s \in SampleRecords
  PROVE  /\ Known(s) \subseteq 1 .. Len(s.callchain)
         /\ UserAddresses(s) \subseteq Known(s)
         /\ DOMAIN s.callchain = 1 .. Len(s.callchain)
<1>1. DOMAIN s.callchain = 1 .. Len(s.callchain)
  BY SampleTypes
<1> QED
  BY <1>1 DEF Known, UserAddresses

LEMMA InKernelFirst ==
  ASSUME NEW s \in SampleRecords
  PROVE  ~InKernel(s, 1)
<1>1. \A j \in Known(s) : ~(j < 1)
  BY KnownAreEntries, SampleTypes
<1> QED
  BY <1>1 DEF InKernel

LEMMA InKernelNext ==
  ASSUME NEW s \in SampleRecords, NEW p \in 1 .. Len(s.callchain), p \in Known(s)
  PROVE  /\ s.callchain[p] > ContextMax => InKernel(s, p + 1) = (s.callchain[p] # USER)
         /\ ~(s.callchain[p] > ContextMax) => InKernel(s, p + 1) = InKernel(s, p)
<1> DEFINE M(i) == {j \in Known(s) : j < i /\ s.callchain[j] > ContextMax}
<1>1. \A j \in Known(s) : j \in Int /\ (j < p + 1 <=> j < p \/ j = p)
  BY KnownAreEntries, SampleTypes
<1>2. \A i : InKernel(s, i) = \E j \in M(i) : (\A k \in M(i) : k <= j) /\ s.callchain[j] # USER
  BY DEF InKernel
<1>3. CASE s.callchain[p] > ContextMax
  <2>1. p \in M(p + 1) /\ \A k \in M(p + 1) : k <= p /\ k \in Int
    BY <1>1, <1>3
  <2>2. \A j \in M(p + 1) : (\A k \in M(p + 1) : k <= j) => j = p
    <3> HIDE DEF M
    <3> QED
      BY <2>1
  <2> HIDE DEF M
  <2> QED
    BY <1>2, <1>3, <2>1, <2>2
<1>4. CASE ~(s.callchain[p] > ContextMax)
  <2>1. M(p + 1) = M(p)
    BY <1>1, <1>4
  <2> HIDE DEF M
  <2>2. /\ InKernel(s, p + 1) = \E j \in M(p + 1) : (\A k \in M(p + 1) : k <= j) /\ s.callchain[j] # USER
        /\ InKernel(s, p) = \E j \in M(p) : (\A k \in M(p) : k <= j) /\ s.callchain[j] # USER
    BY ONLY <1>2, Zenon
  <2>3. InKernel(s, p + 1) = InKernel(s, p)
    BY ONLY <2>1, <2>2, Zenon
  <2> QED
    BY ONLY <1>4, <2>3
<1> QED
  BY <1>3, <1>4

LEMMA UserBeforeNext ==
  ASSUME NEW s \in SampleRecords, NEW p \in 1 .. Len(s.callchain), p \in Known(s)
  PROVE  /\ p \in UserAddresses(s) <=> s.callchain[p] <= ContextMax /\ ~InKernel(s, p)
         /\ UserBefore(s, p + 1) <=> UserBefore(s, p) \/ p \in UserAddresses(s)
         /\ FirstUser(s, p) <=> p \in UserAddresses(s) /\ ~UserBefore(s, p)
<1>1. \A j \in UserAddresses(s) : j \in Int /\ (j < p + 1 <=> j < p \/ j = p) /\ (p <= j <=> ~(j < p))
  BY KnownAreEntries, SampleTypes
<1>2. p \in UserAddresses(s) <=> s.callchain[p] <= ContextMax /\ ~InKernel(s, p)
  BY DEF UserAddresses
<1>3. UserBefore(s, p + 1) <=> UserBefore(s, p) \/ p \in UserAddresses(s)
  BY <1>1 DEF UserBefore
<1>4. FirstUser(s, p) <=> p \in UserAddresses(s) /\ ~UserBefore(s, p)
  BY <1>1 DEF UserBefore, FirstUser
<1> QED
  BY <1>2, <1>3, <1>4

LEMMA NoUserBeforeFirst ==
  ASSUME NEW s \in SampleRecords
  PROVE  ~UserBefore(s, 1)
BY KnownAreEntries, SampleTypes DEF UserBefore

-----------------------------------------------------------------------------
(***************************************************************************)
(* reportIp                                                                *)
(***************************************************************************)
Reported(ips, kernel, n) == [k \in 1 .. n |-> Frame(ips[k], kernel)]

LEMMA ReportedAreFrames ==
  ASSUME NEW ips \in Seq(Int), NEW kernel \in BOOLEAN, NEW n \in 0 .. Len(ips)
  PROVE  /\ Reported(ips, kernel, n) \in Seq(Frames) /\ Len(Reported(ips, kernel, n)) = n
         /\ \A k \in 1 .. n : Reported(ips, kernel, n)[k] = Frame(ips[k], kernel)
<1>1. PICK r : r = Reported(ips, kernel, n)
  OBVIOUS
<1>2. n \in Nat /\ \A k \in 1 .. n : ips[k] \in Int
  OBVIOUS
<1>3. r = [k \in 1 .. n |-> r[k]] /\ \A k \in 1 .. n : r[k] = Frame(ips[k], kernel)
  BY <1>1 DEF Reported
<1>4. \A k \in 1 .. n : r[k] \in Frames
  BY <1>2, <1>3 DEF Frame, Frames
<1>5. r \in Seq(Frames) /\ Len(r) = n
  BY ONLY <1>2, <1>3, <1>4
<1> QED
  BY <1>1, <1>3, <1>5

LEMMA ReportedBegins ==
  ASSUME NEW ips \in Seq(Int), NEW kernel \in BOOLEAN, NEW n \in 0 .. Len(ips)
  PROVE  Begins(Reported(ips, kernel, n), Reported(ips, kernel, Len(ips)))
<1>1. Len(ips) \in 0 .. Len(ips) /\ Len(ips) \in Nat
  OBVIOUS
<1>2. PICK r : r = Reported(ips, kernel, n)
  OBVIOUS
<1>3. PICK q : q = Reported(ips, kernel, Len(ips))
  OBVIOUS
<1>4. Len(r) = n /\ \A k \in 1 .. n : r[k] = Frame(ips[k], kernel)
  BY <1>2, ReportedAreFrames
<1>5. Len(q) = Len(ips) /\ \A k \in 1 .. Len(ips) : q[k] = Frame(ips[k], kernel)
  BY <1>1, <1>3, ReportedAreFrames
<1>6. n <= Len(ips) /\ \A k \in 1 .. n : k \in 1 .. Len(ips)
  BY <1>1
<1>7. Begins(r, q)
  BY ONLY <1>4, <1>5, <1>6 DEF Begins
<1> QED
  BY <1>2, <1>3, <1>7

SameSample(v, w) ==
  /\ v.sample = w.sample /\ v.attempt = w.attempt /\ v.pos = w.pos
  /\ v.isKernel = w.isKernel /\ v.addedUserFrames = w.addedUserFrames

\* After a report, from next to v: all addresses have frames, or the table is dirty.
Reports(v, next, ips, kernel, d) ==
  \E n \in 1 .. Len(ips) :
    /\ v.frames = next.frames \o Reported(ips, kernel, n)
    /\ v.isInterworking = (ips[n] \in Veneers)
    /\ \/ v.phase = "resolved" /\ d # {}
       \/ v.phase = next.phase /\ n = Len(ips)
    /\ SameSample(v, next)

LEMMA ReportIpsReports ==
  ASSUME ui \in Unwinds, NEW ips \in Seq(Int), NEW next \in Unwinds, reportIps(ips, next)
  PROVE  Reports(ui', next, ips, ui.isKernel, dirty')
<1>1. PICK n \in DOMAIN ips :
        /\ n < Len(ips) => Table(ui.isKernel) \in dirty'
        /\ LET reported == [next EXCEPT
                 !.frames = @ \o [k \in 1 .. n |-> Frame(ips[k], ui.isKernel)],
                 !.isInterworking = ips[n] \in Veneers]
           IN  ui' = IF Table(ui.isKernel) \in dirty' THEN [reported EXCEPT !.phase = "resolved"]
                                                      ELSE reported
  BY DEF reportIps
<1>2. n \in 1 .. Len(ips) /\ Len(ips) \in Nat
  OBVIOUS
<1> DEFINE frames == next.frames \o Reported(ips, ui.isKernel, n)
           veneer == ips[n] \in Veneers
           reported == [next EXCEPT !.frames = frames, !.isInterworking = veneer]
<1>3. ui' = IF Table(ui.isKernel) \in dirty' THEN [reported EXCEPT !.phase = "resolved"]
                                             ELSE reported
  BY <1>1 DEF Reported
<1> HIDE DEF frames, veneer
<1>4. /\ reported.frames = frames /\ reported.isInterworking = veneer
      /\ reported.phase = next.phase /\ SameSample(reported, next)
      /\ reported = [reported EXCEPT !.phase = next.phase]
  BY DEF Unwinds, SameSample
<1>5. [reported EXCEPT !.phase = "resolved"].phase = "resolved"
      /\ [reported EXCEPT !.phase = "resolved"].frames = frames
      /\ [reported EXCEPT !.phase = "resolved"].isInterworking = veneer
      /\ SameSample([reported EXCEPT !.phase = "resolved"], next)
  BY DEF Unwinds, SameSample
<1> HIDE DEF reported
<1>6. CASE Table(ui.isKernel) \in dirty'
  <2>1. ui' = [reported EXCEPT !.phase = "resolved"] /\ dirty' # {}
    BY <1>3, <1>6
  <2>2. /\ ui'.phase = "resolved" /\ ui'.frames = frames /\ ui'.isInterworking = veneer
        /\ SameSample(ui', next)
    BY ONLY <1>5, <2>1, Zenon
  <2> QED
    BY ONLY <1>2, <2>1, <2>2 DEF Reports, frames, veneer
<1>7. CASE Table(ui.isKernel) \notin dirty'
  <2>1. ui' = reported /\ n = Len(ips)
    BY <1>1, <1>2, <1>3, <1>7
  <2>2. /\ ui'.phase = next.phase /\ ui'.frames = frames /\ ui'.isInterworking = veneer
        /\ SameSample(ui', next)
    BY ONLY <1>4, <2>1, Zenon
  <2> QED
    BY ONLY <1>2, <2>1, <2>2 DEF Reports, frames, veneer
<1> QED
  BY <1>6, <1>7

\* The frames are all, or the first ones of them, if the table is dirty; R has more.
Reaches(v, next, all, R, d) ==
  /\ EndsAtVeneer(v) /\ Begins(v.frames, R) /\ SameSample(v, next)
  /\ \/ v.phase = "resolved" /\ d # {}
     \/ v.phase = next.phase /\ v.frames = all

LEMMA ReportFollows ==
  ASSUME NEW v \in Unwinds, NEW next \in Unwinds, NEW ips \in Seq(Int), NEW kernel \in BOOLEAN,
         NEW d, Reports(v, next, ips, kernel, d), NEW R \in Seq(Frames),
         Begins(next.frames \o Reported(ips, kernel, Len(ips)), R)
  PROVE  Reaches(v, next, next.frames \o Reported(ips, kernel, Len(ips)), R, d)
<1>1. PICK n \in 1 .. Len(ips) :
        /\ v.frames = next.frames \o Reported(ips, kernel, n)
        /\ v.isInterworking = (ips[n] \in Veneers)
        /\ \/ v.phase = "resolved" /\ d # {}
           \/ v.phase = next.phase /\ n = Len(ips)
        /\ SameSample(v, next)
  BY DEF Reports
<1>2. n \in 0 .. Len(ips) /\ Len(ips) \in 0 .. Len(ips)
  OBVIOUS
<1>3. PICK r \in Seq(Frames) : r = Reported(ips, kernel, n)
  BY <1>2, ReportedAreFrames
<1>4. PICK q \in Seq(Frames) : q = Reported(ips, kernel, Len(ips))
  BY <1>2, ReportedAreFrames
<1>5. PICK f \in Seq(Frames) : f = next.frames
  BY DEF Unwinds
<1>6. Begins(v.frames, R)
  <2>1. Begins(r, q)
    BY <1>2, <1>3, <1>4, ReportedBegins
  <2>2. Begins(f \o r, f \o q)
    BY ONLY <1>3, <1>4, <1>5, <2>1, BeginsConcats
  <2>3. f \o r \in Seq(Frames) /\ f \o q \in Seq(Frames)
    BY ONLY <1>3, <1>4, <1>5, ConcatOf
  <2>4. Begins(f \o r, R)
    <3>1. Begins(f \o q, R)
      BY <1>4, <1>5
    <3> QED
      BY ONLY <2>2, <2>3, <3>1, R \in Seq(Frames), BeginsBegins
  <2> QED
    BY <1>1, <1>3, <1>5, <2>4
<1>7. EndsAtVeneer(v)
  <2>1. Len(r) = n /\ r[n] = Frame(ips[n], kernel)
    BY <1>2, <1>3, ReportedAreFrames
  <2>2. (f \o r)[Len(f \o r)] = r[n] /\ f \o r # <<>>
    BY ONLY <1>3, <1>5, <2>1, n \in 1 .. Len(ips), ips \in Seq(Int)
  <2>3. v.frames = f \o r
    BY <1>1, <1>3, <1>5
  <2>4. r[n].ip = ips[n]
    BY <2>1 DEF Frame
  <2>5. v.frames # <<>> /\ v.frames[Len(v.frames)].ip = ips[n]
    BY ONLY <2>2, <2>3, <2>4
  <2>6. (v.frames # <<>> /\ v.frames[Len(v.frames)].ip \in Veneers) = (ips[n] \in Veneers)
    BY ONLY <2>5
  <2>7. v.isInterworking = (ips[n] \in Veneers)
    BY ONLY <1>1
  <2> QED
    BY ONLY <2>6, <2>7, Zenon DEF EndsAtVeneer
<1> QED
  BY ONLY <1>1, <1>6, <1>7, Zenon DEF Reaches

-----------------------------------------------------------------------------
(***************************************************************************)
(* resolveCallchain                                                        *)
(***************************************************************************)
LEMMA UnwindTypes ==
  ASSUME NEW u \in Unwinds
  PROVE  /\ u.sample \in SampleRecords /\ u.frames \in Seq(Frames) /\ Len(u.frames) \in Nat
         /\ u.pos \in Nat \ {0} /\ u.isKernel \in BOOLEAN /\ u.addedUserFrames \in BOOLEAN
         /\ u.isInterworking \in BOOLEAN /\ u.walk \in Walks /\ u.firstGuessedFrame \in Int
BY DEF Unwinds

\* What is left of a call chain adds nothing.
LEMMA RestOfChain ==
  ASSUME NEW s \in SampleRecords, NEW p \in 0 .. Len(s.callchain),
         \A i \in p + 1 .. Len(s.callchain) : FramesOf(s, i) = <<>>, ~UsesBranches(s)
  PROVE  Recorded(s) = ChainFrames(s)[p]
<1>1. ChainFrames(s)[Len(s.callchain)] = ChainFrames(s)[p]
  BY ChainStays
<1> QED
  BY ONLY <1>1, ~UsesBranches(s), s \in SampleRecords, RecordedAreFrames, Zenon

LEMMA NoFramesBehind ==
  ASSUME NEW s \in SampleRecords, NEW p \in 1 .. Len(s.callchain), ~IsKnown(s.callchain[p])
  PROVE  \A i \in p .. Len(s.callchain) : FramesOf(s, i) = <<>>
<1> SUFFICES ASSUME NEW i \in p .. Len(s.callchain) PROVE FramesOf(s, i) = <<>>
  OBVIOUS
<1>1. i \in Int /\ p \in Int /\ ~(i < p)
  BY SampleTypes
<1>2. i \notin Known(s)
  BY <1>1, KnownNoMore
<1> QED
  BY <1>2 DEF FramesOf

SameRecord(v, u) ==
  /\ v.sample = u.sample /\ v.frames = u.frames /\ v.isInterworking = u.isInterworking

LEMMA ContextFollows ==
  ASSUME NEW u \in Unwinds, ReadsChain(u), u.pos <= Len(u.sample.callchain),
         u.sample.callchain[u.pos] > ContextMax,
         NEW v \in Unwinds, NEW d, SameRecord(v, u),
         IF u.sample.callchain[u.pos] \in {HV, KERNEL, USER}
         THEN /\ v.isKernel = (u.sample.callchain[u.pos] # USER) /\ v.pos = u.pos + 1
              /\ v.addedUserFrames = u.addedUserFrames
         ELSE v.phase = "resolved"
  PROVE  IF u.sample.callchain[u.pos] \in {HV, KERNEL, USER}
         THEN ReadsChain(v) ELSE HasRecorded(v, d)
<1>1. PICK s \in SampleRecords : s = u.sample
  BY UnwindTypes
<1>2. PICK p \in 1 .. Len(s.callchain) : p = u.pos
  BY <1>1, UnwindTypes, SampleTypes
<1>3. /\ \A j \in 1 .. p - 1 : j \in Known(s)
      /\ u.isKernel = InKernel(s, p)
      /\ u.addedUserFrames = UserBefore(s, p)
      /\ s.branch # <<>> => ~UserBefore(s, p)
      /\ u.frames = ChainFrames(s)[p - 1]
      /\ EndsAtVeneer(u)
  BY <1>1, <1>2 DEF ReadsChain
<1>4. s.callchain[p] > ContextMax /\ s.callchain[p] \in Int /\ Len(s.callchain) \in Nat
  BY <1>1, <1>2, SampleTypes
<1>5. v.sample = s /\ v.frames = u.frames /\ EndsAtVeneer(v)
  BY <1>1, <1>3 DEF SameRecord, EndsAtVeneer
<1>6. CASE s.callchain[p] \in {HV, KERNEL, USER}
  <2>1. v.isKernel = (s.callchain[p] # USER) /\ v.pos = p + 1 /\ v.addedUserFrames = UserBefore(s, p)
    BY <1>1, <1>2, <1>3, <1>6
  <2>2. p \in Known(s) /\ \A j \in 1 .. p : j \in Known(s)
    <3>1. IsKnown(s.callchain[p])
      BY <1>6 DEF IsKnown
    <3> QED
      BY <1>3, <3>1, KnownNext
  <2>3. v.isKernel = InKernel(s, p + 1)
    <3>1. InKernel(s, p + 1) = (s.callchain[p] # USER)
      BY ONLY <1>4, <2>2, InKernelNext, Zenon
    <3> QED
      BY ONLY <2>1, <3>1, Zenon
  <2>4. UserBefore(s, p + 1) = UserBefore(s, p)
    <3>1. ~(s.callchain[p] <= ContextMax)
      BY <1>4, UnwindingAssumption
    <3>2. UserBefore(s, p + 1) <=> UserBefore(s, p)
      BY ONLY <2>2, <3>1, UserBeforeNext, Zenon
    <3> QED
      BY ONLY <3>2 DEF UserBefore
  <2>5. ChainFrames(s)[p] = ChainFrames(s)[p - 1]
    <3>1. FramesOf(s, p) = <<>>
      BY <1>4 DEF FramesOf
    <3>2. ChainFrames(s)[p] = ChainFrames(s)[p - 1] \o FramesOf(s, p)
      BY <1>4, ChainIs
    <3>3. ChainFrames(s)[p - 1] \in Seq(Frames)
      BY ChainFramesAreFrames
    <3> QED
      BY ONLY <3>1, <3>2, <3>3, ConcatNone
  <2>6. p + 1 <= Len(s.callchain) + 1 /\ (p + 1) - 1 = p
    BY <1>4
  <2>7. ReadsChain(v)
    <3>1. v.pos - 1 = p /\ v.pos <= Len(s.callchain) + 1
      BY <2>1, <2>6
    <3>2. v.addedUserFrames = UserBefore(s, v.pos) /\ (s.branch # <<>> => ~UserBefore(s, v.pos))
      BY ONLY <1>3, <2>1, <2>4, Zenon
    <3>3. v.isKernel = InKernel(s, v.pos)
      BY ONLY <2>1, <2>3, Zenon
    <3>4. v.frames = ChainFrames(s)[v.pos - 1] /\ \A j \in 1 .. v.pos - 1 : j \in Known(s)
      BY ONLY <1>3, <1>5, <2>2, <2>5, <3>1, Zenon
    <3> QED
      BY ONLY <1>5, <3>1, <3>2, <3>3, <3>4, Zenon DEF ReadsChain
  <2> QED
    BY <1>1, <1>2, <1>6, <2>7
<1>7. CASE s.callchain[p] \notin {HV, KERNEL, USER}
  <2>1. ~IsKnown(s.callchain[p])
    BY <1>4, <1>7, UnwindingAssumption DEF IsKnown
  <2>2. \A i \in p .. Len(s.callchain) : FramesOf(s, i) = <<>>
    BY <2>1, NoFramesBehind
  <2>3. \A i \in Known(s) : i < p
    BY <2>1, KnownNoMore
  <2>4. ~UsesBranches(s)
    <3>1. p \notin Known(s) /\ p \in DOMAIN s.callchain
      BY <2>3, SampleTypes
    <3>2. s.branch # <<>> => UserAddresses(s) = {}
      BY <1>3, <2>3, KnownAreEntries DEF UserBefore
    <3> QED
      BY <3>1, <3>2 DEF UsesBranches
  <2>5. Recorded(s) = ChainFrames(s)[p - 1]
    <3>1. p - 1 \in 0 .. Len(s.callchain) /\ (p - 1) + 1 = p
      BY <1>4
    <3>2. \A i \in (p - 1) + 1 .. Len(s.callchain) : FramesOf(s, i) = <<>>
      BY ONLY <2>2, <3>1
    <3> QED
      BY ONLY <2>4, <3>1, <3>2, s \in SampleRecords, RestOfChain
  <2>6. v.frames = Recorded(v.sample)
    BY <1>3, <1>5, <2>5
  <2>7. Begins(v.frames, Recorded(v.sample))
    BY <2>6, UnwindTypes, BeginsItself
  <2>8. HasRecorded(v, d)
    BY <1>5, <2>6, <2>7 DEF HasRecorded
  <2> QED
    BY <1>1, <1>2, <1>7, <2>8
<1> QED
  BY <1>6, <1>7

\* The addresses that an entry reports.
Ips(s, kernel, added, entry) ==
  LET first == IF ~added /\ ~kernel /\ entry # s.ip THEN <<s.ip>> ELSE <<>>
  IN  IF s.branch # <<>> /\ ~kernel THEN first ELSE Append(first, entry)

LEMMA TwoOf ==
  ASSUME NEW a, NEW b
  PROVE  Append(<<a>>, b) = <<a, b>> /\ <<a>> \o <<b>> = <<a, b>>
<1> DEFINE S == {a, b}
<1>1. /\ <<a>> \in Seq(S) /\ Len(<<a>>) = 1 /\ <<a>>[1] = a
      /\ <<b>> \in Seq(S) /\ Len(<<b>>) = 1 /\ <<b>>[1] = b
      /\ <<a, b>> \in Seq(S) /\ Len(<<a, b>>) = 2 /\ <<a, b>>[1] = a /\ <<a, b>>[2] = b
  OBVIOUS
<1>2. ASSUME NEW t \in Seq(S), Len(t) = 2, t[1] = a, t[2] = b
      PROVE  t = <<a, b>>
  <2>1. \A i \in 1 .. 2 : t[i] = <<a, b>>[i]
    BY <1>1, <1>2
  <2> QED
    BY <1>1, <1>2, <2>1
<1>3. PICK f \in Seq(S) : f = <<a>> /\ Len(f) = 1 /\ f[1] = a
  BY <1>1
<1>4. PICK g \in Seq(S) : g = <<b>> /\ Len(g) = 1 /\ g[1] = b
  BY <1>1
<1>5. Append(f, b) \in Seq(S) /\ Len(Append(f, b)) = 2 /\ Append(f, b)[1] = a /\ Append(f, b)[2] = b
  BY <1>3, b \in S
<1>6. f \o g \in Seq(S) /\ Len(f \o g) = 2 /\ (f \o g)[1] = a /\ (f \o g)[2] = b
  BY <1>3, <1>4
<1> QED
  BY <1>2, <1>3, <1>4, <1>5, <1>6

LEMMA ReportedNone ==
  ASSUME NEW kernel
  PROVE  Reported(<<>>, kernel, Len(<<>>)) = <<>>
BY DEF Reported

LEMMA ReportedOne ==
  ASSUME NEW a \in Int, NEW kernel \in BOOLEAN
  PROVE  Reported(<<a>>, kernel, Len(<<a>>)) = <<Frame(a, kernel)>>
<1>1. <<a>> \in Seq(Int) /\ Len(<<a>>) = 1 /\ 1 \in 0 .. Len(<<a>>) /\ <<a>>[1] = a
  OBVIOUS
<1>2. PICK r : r = Reported(<<a>>, kernel, Len(<<a>>))
  OBVIOUS
<1>3. r \in Seq(Frames) /\ Len(r) = 1 /\ \A k \in 1 .. 1 : r[k] = Frame(<<a>>[k], kernel)
  BY ONLY <1>1, <1>2, kernel \in BOOLEAN, ReportedAreFrames
<1>4. r[1] = Frame(a, kernel)
  BY <1>1, <1>3
<1>5. r = <<Frame(a, kernel)>>
  BY ONLY <1>3, <1>4
<1> QED
  BY <1>2, <1>5

LEMMA ReportedTwo ==
  ASSUME NEW a \in Int, NEW b \in Int, NEW kernel \in BOOLEAN
  PROVE  /\ <<a, b>> \in Seq(Int)
         /\ Reported(<<a, b>>, kernel, Len(<<a, b>>)) = <<Frame(a, kernel), Frame(b, kernel)>>
<1>1. /\ <<a, b>> \in Seq(Int) /\ Len(<<a, b>>) = 2 /\ 2 \in 0 .. Len(<<a, b>>)
      /\ <<a, b>>[1] = a /\ <<a, b>>[2] = b
  OBVIOUS
<1>2. PICK r : r = Reported(<<a, b>>, kernel, Len(<<a, b>>))
  OBVIOUS
<1>3. r \in Seq(Frames) /\ Len(r) = 2 /\ \A k \in 1 .. 2 : r[k] = Frame(<<a, b>>[k], kernel)
  <2>1. PICK ips \in Seq(Int) : ips = <<a, b>>
    BY ONLY <1>1, Zenon
  <2>2. PICK n \in 0 .. Len(ips) : n = 2
    BY ONLY <1>1, <2>1, Zenon
  <2>3. Len(<<a, b>>) = n
    BY ONLY <1>1, <2>2, Zenon
  <2>4. r = Reported(ips, kernel, n)
    BY ONLY <1>2, <2>1, <2>3, Zenon
  <2>5. /\ Reported(ips, kernel, n) \in Seq(Frames) /\ Len(Reported(ips, kernel, n)) = n
        /\ \A k \in 1 .. n : Reported(ips, kernel, n)[k] = Frame(ips[k], kernel)
    BY ONLY kernel \in BOOLEAN, <2>1, <2>2, ReportedAreFrames, Zenon
  <2> QED
    BY ONLY <2>1, <2>2, <2>4, <2>5, Zenon
<1>4. r[1] = Frame(a, kernel) /\ r[2] = Frame(b, kernel)
  BY <1>1, <1>3
<1>5. r = <<Frame(a, kernel), Frame(b, kernel)>>
  BY ONLY <1>3, <1>4
<1> QED
  BY <1>1, <1>2, <1>5

LEMMA EntryReports ==
  ASSUME NEW s \in SampleRecords, NEW p \in 1 .. Len(s.callchain), p \in Known(s),
         s.callchain[p] <= ContextMax, s.branch # <<>> => ~UserBefore(s, p)
  PROVE  LET ips == Ips(s, InKernel(s, p), UserBefore(s, p), s.callchain[p])
         IN  ips \in Seq(Int) /\ FramesOf(s, p) = Reported(ips, InKernel(s, p), Len(ips))
<1>1. PICK e \in Int : e = s.callchain[p]
  BY SampleTypes, ElementOf
<1>2. PICK a \in Int : a = s.ip
  BY SampleTypes
<1>3. PICK kernel \in BOOLEAN : kernel = InKernel(s, p)
  BY DEF InKernel
<1>4. PICK added \in BOOLEAN : added = UserBefore(s, p)
  BY DEF UserBefore
<1>5. PICK branch \in BOOLEAN : branch = (s.branch # <<>>)
  OBVIOUS
<1>6. FirstUser(s, p) = (~kernel /\ ~added)
  BY <1>3, <1>4, UserBeforeNext DEF FirstUser
<1>7. ~(s.callchain[p] > ContextMax) /\ ~(branch /\ added)
  <2>1. ~(e > ContextMax)
    BY <1>1, UnwindingAssumption
  <2>2. ~(branch /\ added)
    BY ONLY <1>4, <1>5, s.branch # <<>> => ~UserBefore(s, p), Zenon
  <2> QED
    BY <1>1, <2>1, <2>2
<1> DEFINE f == IF ~kernel /\ ~added /\ e # a THEN <<Frame(a, FALSE)>> ELSE <<>>
           g == IF branch /\ ~kernel /\ ~added THEN <<>> ELSE <<Frame(e, kernel)>>
           i == IF ~added /\ ~kernel /\ e # a THEN <<a>> ELSE <<>>
           ips == IF branch /\ ~kernel THEN i ELSE Append(i, e)
<1>8. FramesOf(s, p) = f \o g
  <2>1. ~(s.branch # <<>> /\ \E j \in UserAddresses(s) : j < p)
    BY <1>4, <1>5, <1>7 DEF UserBefore
  <2>2. FramesOf(s, p) =
          (IF FirstUser(s, p) /\ s.callchain[p] # s.ip THEN <<Frame(s.ip, FALSE)>> ELSE <<>>)
          \o (IF s.branch # <<>> /\ FirstUser(s, p) THEN <<>>
              ELSE <<Frame(s.callchain[p], InKernel(s, p))>>)
    BY ONLY p \in Known(s), <1>7, <2>1 DEF FramesOf
  <2>3. (IF FirstUser(s, p) /\ s.callchain[p] # s.ip THEN <<Frame(s.ip, FALSE)>> ELSE <<>>) = f
    BY ONLY <1>1, <1>2, <1>6, Zenon
  <2>4. (IF s.branch # <<>> /\ FirstUser(s, p) THEN <<>>
         ELSE <<Frame(s.callchain[p], InKernel(s, p))>>) = g
    BY ONLY <1>1, <1>3, <1>5, <1>6, Zenon
  <2> QED
    BY ONLY <2>2, <2>3, <2>4, Zenon
<1>9. ips \in Seq(Int) /\ f \o g = Reported(ips, kernel, Len(ips))
  <2>1. Frame(a, FALSE) \in Frames /\ Frame(e, kernel) \in Frames
    BY DEF Frame, Frames
  <2>2. CASE ~kernel /\ ~added /\ e # a
    <3>1. f = <<Frame(a, FALSE)>> /\ i = <<a>> /\ kernel = FALSE
      BY ONLY <2>2, kernel \in BOOLEAN, Zenon
    <3>2. CASE branch
      <4>1. ips = <<a>> /\ g = <<>>
        BY ONLY <2>2, <3>1, <3>2, Zenon
      <4>2. f \o g = <<Frame(a, FALSE)>>
        BY ONLY <2>1, <3>1, <4>1, OneOf, ConcatNone, Zenon
      <4> QED
        BY ONLY <3>1, <4>1, <4>2, a \in Int, OneOf, ReportedOne, Zenon
    <3>3. CASE ~branch
      <4>1. ips = Append(<<a>>, e) /\ g = <<Frame(e, FALSE)>>
        BY ONLY <2>2, <3>1, <3>3, Zenon
      <4>2. Append(<<a>>, e) = <<a, e>>
        BY ONLY TwoOf, Zenon
      <4>3. <<Frame(a, FALSE)>> \o <<Frame(e, FALSE)>> = <<Frame(a, FALSE), Frame(e, FALSE)>>
        BY ONLY TwoOf, Zenon
      <4>4. f \o g = <<Frame(a, FALSE), Frame(e, FALSE)>>
        BY ONLY <3>1, <4>1, <4>3, Zenon
      <4> QED
        BY ONLY <3>1, <4>1, <4>2, <4>4, a \in Int, e \in Int, ReportedTwo, Zenon
    <3> QED
      BY ONLY <3>2, <3>3, Zenon
  <2>3. CASE ~(~kernel /\ ~added /\ e # a)
    <3>1. i = <<>> /\ f = <<>>
      BY ONLY <2>3, Zenon
    <3>2. CASE branch /\ ~kernel
      <4>1. ips = <<>> /\ g = <<>>
        BY ONLY <1>7, <3>1, <3>2, Zenon
      <4>2. f \o g = <<>>
        BY ONLY <3>1, <4>1, NoneOf, ConcatNone, Zenon
      <4> QED
        BY ONLY <4>1, <4>2, NoneOf, ReportedNone, Zenon
    <3>3. CASE ~(branch /\ ~kernel)
      <4>1. ips = Append(<<>>, e) /\ g = <<Frame(e, kernel)>>
        BY ONLY <3>1, <3>3, Zenon
      <4>2. Append(<<>>, e) = <<e>>
        OBVIOUS
      <4>3. f \o g = <<Frame(e, kernel)>>
        BY ONLY <2>1, <3>1, <4>1, OneOf, ConcatNone, Zenon
      <4> QED
        BY ONLY <4>1, <4>2, <4>3, e \in Int, kernel \in BOOLEAN, OneOf, ReportedOne, Zenon
    <3> QED
      BY ONLY <3>2, <3>3, Zenon
  <2> QED
    BY ONLY <2>2, <2>3, Zenon
<1>10. Ips(s, InKernel(s, p), UserBefore(s, p), s.callchain[p]) = ips
  BY ONLY <1>1, <1>2, <1>3, <1>4, <1>5, Zenon DEF Ips
<1> HIDE DEF f, g, ips
<1> QED
  BY ONLY <1>3, <1>8, <1>9, <1>10

Records(u, d) ==
  \/ u.phase = "callchain" /\ ReadsChain(u)
  \/ u.phase = "branch" /\ ReadsBranches(u)
  \/ u.phase = "resolved" /\ HasRecorded(u, d)

LEMMA DirtyRecords ==
  ASSUME NEW v, NEW d, v.phase = "resolved", d # {}, EndsAtVeneer(v),
         Begins(v.frames, Recorded(v.sample))
  PROVE  Records(v, d)
BY DEF Records, HasRecorded

LEMMA AddressFollows ==
  ASSUME NEW u \in Unwinds, ReadsChain(u), u.pos <= Len(u.sample.callchain),
         u.sample.callchain[u.pos] <= ContextMax,
         NEW v \in Unwinds, NEW d, NEW next \in Unwinds,
         NEW ips, ips = Ips(u.sample, u.isKernel, u.addedUserFrames, u.sample.callchain[u.pos]),
         SameRecord(next, u), next.isKernel = u.isKernel,
         IF u.sample.branch # <<>> /\ ~u.isKernel
         THEN next.phase = "branch" /\ next.pos = 1
         ELSE /\ next.phase = "callchain" /\ next.pos = u.pos + 1
              /\ next.addedUserFrames = (u.addedUserFrames \/ ~u.isKernel),
         Reports(v, next, ips, u.isKernel, d) \/ (ips = <<>> /\ v = next)
  PROVE  Records(v, d)
<1>1. PICK s \in SampleRecords : s = u.sample
  BY UnwindTypes
<1>2. PICK p \in 1 .. Len(s.callchain) : p = u.pos
  BY <1>1, UnwindTypes, SampleTypes
<1>n. PICK n \in Nat : n = Len(s.callchain)
  BY SampleTypes
<1>c. PICK C : C = ChainFrames(s)
  OBVIOUS
<1>k. PICK kernel \in BOOLEAN : kernel = u.isKernel
  BY UnwindTypes
<1>3. /\ \A j \in 1 .. p - 1 : j \in Known(s)
      /\ kernel = InKernel(s, p)
      /\ u.addedUserFrames = UserBefore(s, p)
      /\ s.branch # <<>> => ~UserBefore(s, p)
      /\ u.frames = C[p - 1]
      /\ EndsAtVeneer(u)
  BY <1>1, <1>2, <1>c, <1>k DEF ReadsChain
<1>4. s.callchain[p] <= ContextMax
  BY <1>1, <1>2
<1>5. p \in Known(s) /\ \A j \in 1 .. p : j \in Known(s)
  <2>1. IsKnown(s.callchain[p])
    BY <1>4 DEF IsKnown
  <2> QED
    BY <1>3, <2>1, KnownNext
<1>6. ips \in Seq(Int) /\ FramesOf(s, p) = Reported(ips, kernel, Len(ips))
  <2>1. ips = Ips(s, InKernel(s, p), UserBefore(s, p), s.callchain[p])
    BY ONLY <1>1, <1>2, <1>3, <1>k, Zenon,
            ips = Ips(u.sample, u.isKernel, u.addedUserFrames, u.sample.callchain[u.pos])
  <2> QED
    BY ONLY <1>3, <1>4, <1>5, <2>1, EntryReports, Zenon
<1>7. PICK R \in Seq(Frames) : R = Recorded(s)
  BY RecordedAreFrames
<1>8. C[p - 1] \in Seq(Frames) /\ C[p] \in Seq(Frames) /\ C[p] = C[p - 1] \o FramesOf(s, p)
      /\ C[n] \in Seq(Frames)
  <2>1. p \in 1 .. n /\ p - 1 \in 0 .. n /\ p \in 0 .. n /\ n \in 0 .. n
    BY <1>n
  <2> QED
    BY ONLY <1>n, <1>c, <2>1, s \in SampleRecords, ChainIs, ChainFramesAreFrames
<1>9. Begins(C[p], R)
  <2>1. p \in 0 .. n /\ n \in 0 .. n /\ p <= n
    BY <1>n
  <2>2. Begins(C[p], C[n])
    BY ONLY <1>c, <1>n, <2>1, s \in SampleRecords, ChainBegins
  <2>3. Begins(C[n], R)
    BY ONLY <1>c, <1>n, <1>7, s \in SampleRecords, RecordedAreFrames
  <2> QED
    BY ONLY <1>7, <1>8, <2>2, <2>3, BeginsBegins
<1>10. /\ EndsAtVeneer(v) /\ Begins(v.frames, R) /\ SameSample(v, next)
       /\ \/ v.phase = "resolved" /\ d # {}
          \/ v.phase = next.phase /\ v.frames = C[p]
  <2>0. next.frames = C[p - 1]
    BY <1>3 DEF SameRecord
  <2>1. CASE Reports(v, next, ips, u.isKernel, d)
    <3>1. next.frames \o Reported(ips, kernel, Len(ips)) = C[p]
      BY ONLY <1>6, <1>8, <2>0, Zenon
    <3>2. Begins(next.frames \o Reported(ips, kernel, Len(ips)), R)
      BY ONLY <1>9, <3>1, Zenon
    <3>3. Reports(v, next, ips, kernel, d)
      BY ONLY <1>k, <2>1, Zenon
    <3>4. Reaches(v, next, next.frames \o Reported(ips, kernel, Len(ips)), R, d)
      BY ONLY <1>6, <1>7, <1>k, <3>2, <3>3, v \in Unwinds, next \in Unwinds, ReportFollows, Zenon
    <3> QED
      BY ONLY <3>1, <3>4, Zenon DEF Reaches
  <2>2. CASE ips = <<>> /\ v = next
    <3>1. FramesOf(s, p) = <<>>
      BY ONLY <1>6, <2>2, ReportedNone, Zenon
    <3>2. C[p] = C[p - 1]
      BY ONLY <1>8, <3>1, ConcatNone, Zenon
    <3>3. EndsAtVeneer(v)
      BY <1>3, <2>2 DEF EndsAtVeneer, SameRecord
    <3>4. SameSample(v, next)
      BY <2>2 DEF SameSample
    <3> QED
      BY ONLY <1>9, <2>0, <2>2, <3>2, <3>3, <3>4, Zenon
  <2> QED
    BY ONLY <2>1, <2>2, Reports(v, next, ips, u.isKernel, d) \/ (ips = <<>> /\ v = next)
<1>11. v.sample = s /\ v.isKernel = kernel /\ v.pos = next.pos
       /\ v.addedUserFrames = next.addedUserFrames
  BY <1>1, <1>10, <1>k DEF SameSample, SameRecord
<1>12. CASE v.phase = "resolved" /\ d # {}
  <2>1. Begins(v.frames, Recorded(v.sample)) /\ EndsAtVeneer(v)
    BY ONLY <1>7, <1>10, <1>11, Zenon
  <2> QED
    BY ONLY <1>12, <2>1, DirtyRecords, Zenon
<1>13. CASE v.phase = next.phase /\ v.frames = C[p]
  <2>1. CASE s.branch # <<>> /\ ~kernel
    <3>1. next.phase = "branch" /\ next.pos = 1
      BY <1>1, <1>k, <2>1
    <3>2. p \in UserAddresses(s)
      BY ONLY <1>3, <1>4, <1>5, <2>1, UserBeforeNext, Zenon
    <3>3. UsesBranches(s)
      BY <2>1, <3>2 DEF UsesBranches
    <3>4. C[n] = C[p]
      <4>1. ASSUME NEW i \in p + 1 .. n
            PROVE  FramesOf(s, i) = <<>>
        <5>1. p < i
          OBVIOUS
        <5> QED
          BY <2>1, <3>2, <5>1 DEF FramesOf
      <4>2. p \in 0 .. Len(s.callchain)
        BY <1>n
      <4> QED
        BY ONLY <1>c, <1>n, <4>1, <4>2, s \in SampleRecords, ChainStays
    <3>5. /\ v.pos = 1 /\ v.phase = "branch" /\ v.pos <= Len(s.branch) + 1
          /\ Len(v.frames) = Len(C[n]) + (IF v.pos = 1 THEN 0 ELSE v.pos)
      <4>1. v.pos = 1 /\ v.phase = "branch" /\ v.frames = C[n]
        BY ONLY <1>11, <1>13, <3>1, <3>4, Zenon
      <4>2. 1 <= Len(s.branch) + 1 /\ Len(C[n]) = Len(C[n]) + 0
        BY <1>8, SampleTypes
      <4> QED
        BY ONLY <4>1, <4>2, Zenon
    <3>6. ReadsBranches(v)
      <4>1. Len(v.frames) = Len(ChainFrames(s)[Len(s.callchain)]) + (IF v.pos = 1 THEN 0 ELSE v.pos)
        BY ONLY <1>c, <1>n, <3>5, Zenon
      <4>2. ~v.isKernel /\ v.sample = s /\ Begins(v.frames, Recorded(s)) /\ EndsAtVeneer(v)
        BY ONLY <1>7, <1>10, <1>11, <2>1, Zenon
      <4> QED
        BY ONLY <3>3, <3>5, <4>1, <4>2, Zenon DEF ReadsBranches
    <3> QED
      BY ONLY <3>5, <3>6, Zenon DEF Records
  <2>2. CASE ~(s.branch # <<>> /\ ~kernel)
    <3>1. /\ next.phase = "callchain" /\ next.pos = p + 1
          /\ next.addedUserFrames = (UserBefore(s, p) \/ ~kernel)
      BY ONLY <1>1, <1>2, <1>3, <1>k, <2>2, Zenon,
              IF u.sample.branch # <<>> /\ ~u.isKernel
              THEN next.phase = "branch" /\ next.pos = 1
              ELSE /\ next.phase = "callchain" /\ next.pos = u.pos + 1
                   /\ next.addedUserFrames = (u.addedUserFrames \/ ~u.isKernel)
    <3>2. p \in UserAddresses(s) <=> ~kernel
      BY ONLY <1>3, <1>4, <1>5, UserBeforeNext, Zenon
    <3>3. UserBefore(s, p + 1) <=> UserBefore(s, p) \/ ~kernel
      BY ONLY <1>5, <3>2, UserBeforeNext, Zenon
    <3>4. v.addedUserFrames = UserBefore(s, p + 1)
      <4>1. UserBefore(s, p + 1) \in BOOLEAN /\ UserBefore(s, p) \in BOOLEAN
        BY DEF UserBefore
      <4>2. v.addedUserFrames = (UserBefore(s, p) \/ ~kernel)
        BY ONLY <1>11, <3>1, Zenon
      <4> QED
        BY ONLY <3>3, <4>1, <4>2, Zenon
    <3>5. s.branch # <<>> => ~UserBefore(s, p + 1)
      BY ONLY <1>3, <2>2, <3>3, Zenon
    <3>6. InKernel(s, p + 1) = kernel
      <4>1. ~(s.callchain[p] > ContextMax)
        BY <1>4, SampleTypes, UnwindingAssumption
      <4> QED
        BY ONLY <1>3, <1>5, <4>1, InKernelNext, Zenon
    <3>7. v.pos = p + 1 /\ (p + 1) - 1 = p /\ p + 1 <= Len(s.callchain) + 1
      BY <1>11, <1>n, <3>1
    <3>8. v.frames = ChainFrames(s)[v.pos - 1] /\ \A j \in 1 .. v.pos - 1 : j \in Known(s)
      BY ONLY <1>5, <1>13, <1>c, <3>7, Zenon
    <3>9. v.isKernel = InKernel(s, v.pos) /\ v.addedUserFrames = UserBefore(s, v.pos)
          /\ (s.branch # <<>> => ~UserBefore(s, v.pos)) /\ v.pos <= Len(s.callchain) + 1
      BY ONLY <1>11, <3>4, <3>5, <3>6, <3>7, Zenon
    <3>10. ReadsChain(v)
      BY ONLY <1>10, <1>11, <3>8, <3>9, Zenon DEF ReadsChain
    <3> QED
      BY ONLY <1>13, <3>1, <3>10, Zenon DEF Records
  <2> QED
    BY ONLY <2>1, <2>2, Zenon
<1> QED
  BY ONLY <1>10, <1>12, <1>13, Zenon

LEMMA CallchainEndsFollows ==
  ASSUME NEW u \in Unwinds, ReadsChain(u), u.pos > Len(u.sample.callchain),
         NEW v \in Unwinds, NEW d, SameRecord(v, u), v.isKernel = u.isKernel,
         IF u.isKernel THEN v.phase = "resolved" ELSE v.phase = "branch" /\ v.pos = 1
  PROVE  Records(v, d)
<1>1. PICK s \in SampleRecords : s = u.sample
  BY UnwindTypes
<1>2. PICK n \in Nat : n = Len(s.callchain)
  BY SampleTypes
<1>3. PICK c \in Seq(Frames) : c = ChainFrames(s)[n]
  BY <1>2, ChainFramesAreFrames
<1>4. u.pos = n + 1
  <2>1. u.pos \in Nat
    BY UnwindTypes
  <2>2. u.pos <= n + 1 /\ u.pos > n
    BY <1>1, <1>2 DEF ReadsChain
  <2> QED
    BY ONLY <2>1, <2>2, n \in Nat
<1>5. /\ \A j \in 1 .. n : j \in Known(s)
      /\ u.isKernel = InKernel(s, n + 1)
      /\ s.branch # <<>> => ~UserBefore(s, n + 1)
      /\ u.frames = c
      /\ EndsAtVeneer(u)
  <2>1. (n + 1) - 1 = n
    OBVIOUS
  <2> QED
    BY <1>1, <1>3, <1>4, <2>1 DEF ReadsChain
<1>6. v.sample = s /\ v.frames = c /\ EndsAtVeneer(v)
  BY <1>1, <1>5 DEF SameRecord, EndsAtVeneer
<1>7. PICK R \in Seq(Frames) : R = Recorded(s)
  BY RecordedAreFrames
<1>8. Begins(c, R)
  BY ONLY <1>2, <1>3, <1>7, s \in SampleRecords, RecordedAreFrames
<1>9. CASE u.isKernel
  <2>1. s.branch # <<>> => UserAddresses(s) = {}
    <3>1. \A j \in UserAddresses(s) : j < n + 1
      BY <1>2, KnownAreEntries
    <3> QED
      BY <1>5, <3>1 DEF UserBefore
  <2>2. ~UsesBranches(s)
    BY <1>2, <1>5, <1>9, <2>1 DEF UsesBranches
  <2>3. R = c
    BY ONLY <1>2, <1>3, <1>7, <2>2, s \in SampleRecords, RecordedAreFrames
  <2>4. Begins(v.frames, Recorded(v.sample)) /\ v.frames = Recorded(v.sample)
    BY ONLY <1>6, <1>7, <1>8, <2>3, Zenon
  <2> QED
    BY <1>6, <1>9, <2>4 DEF Records, HasRecorded
<1>10. CASE ~u.isKernel
  <2>1. v.phase = "branch" /\ v.pos = 1 /\ ~v.isKernel
    BY <1>10
  <2>2. s.branch # <<>> => UsesBranches(s)
    <3>1. Known(s) = DOMAIN s.callchain
      BY <1>2, <1>5, KnownAreEntries
    <3> QED
      BY <1>2, <1>5, <1>10, <3>1 DEF UsesBranches
  <2>3. v.pos <= Len(s.branch) + 1
        /\ Len(v.frames) = Len(ChainFrames(s)[Len(s.callchain)]) + (IF v.pos = 1 THEN 0 ELSE v.pos)
    <3>1. 1 <= Len(s.branch) + 1 /\ Len(c) = Len(c) + 0
      BY SampleTypes
    <3> QED
      BY ONLY <1>2, <1>3, <1>6, <2>1, <3>1, Zenon
  <2>4. Begins(v.frames, Recorded(s))
    BY <1>6, <1>7, <1>8
  <2>5. ReadsBranches(v)
    BY ONLY <1>6, <2>1, <2>2, <2>3, <2>4, Zenon DEF ReadsBranches
  <2> QED
    BY ONLY <2>1, <2>5, Zenon DEF Records
<1> QED
  BY <1>9, <1>10

LEMMA BeginsMore ==
  ASSUME NEW S, NEW f \in Seq(S), NEW q \in Seq(S), NEW R \in Seq(S), Begins(f, R),
         Len(f) + Len(q) <= Len(R), \A k \in 1 .. Len(q) : R[Len(f) + k] = q[k]
  PROVE  Begins(f \o q, R)
<1>1. PICK a \in Nat : a = Len(f)
  OBVIOUS
<1>2. PICK b \in Nat : b = Len(q)
  OBVIOUS
<1>3. Len(f \o q) = a + b
  BY <1>1, <1>2
<1>4. ASSUME NEW i \in 1 .. a + b
      PROVE  (f \o q)[i] = R[i]
  <2>1. CASE i <= a
    <3>1. i \in 1 .. Len(f) /\ (f \o q)[i] = f[i]
      BY <1>1, <2>1
    <3> QED
      BY <3>1 DEF Begins
  <2>2. CASE i > a
    <3>1. i - a \in 1 .. Len(q) /\ Len(f) + (i - a) = i /\ (f \o q)[i] = q[i - a]
      BY <1>1, <1>2, <2>2
    <3>2. R[Len(f) + (i - a)] = q[i - a]
      BY ONLY <3>1, \A k \in 1 .. Len(q) : R[Len(f) + k] = q[k], Zenon
    <3> QED
      BY ONLY <3>1, <3>2, Zenon
  <2> QED
    BY <1>1, <1>2, <2>1, <2>2
<1> QED
  BY ONLY <1>1, <1>2, <1>3, <1>4, Len(f) + Len(q) <= Len(R) DEF Begins

LEMMA ConcatAt ==
  ASSUME NEW S, NEW f \in Seq(S), NEW g \in Seq(S)
  PROVE  \A k \in 1 .. Len(g) : (f \o g)[Len(f) + k] = g[k]
OBVIOUS

LEMMA BranchFollows ==
  ASSUME NEW u \in Unwinds, ReadsBranches(u), u.pos <= Len(u.sample.branch),
         NEW v \in Unwinds, NEW d, NEW next \in Unwinds, NEW ips \in Seq(Int),
         ips = IF u.pos = 1 THEN <<u.sample.branch[1].to, u.sample.branch[1].from>>
                            ELSE <<u.sample.branch[u.pos].from>>,
         SameRecord(next, u), next.isKernel = u.isKernel, next.phase = "branch",
         next.pos = u.pos + 1, Reports(v, next, ips, u.isKernel, d)
  PROVE  Records(v, d)
<1>1. PICK s \in SampleRecords : s = u.sample
  BY UnwindTypes
<1>n. PICK n \in Nat : n = Len(s.branch)
  BY SampleTypes
<1>p. PICK p \in 1 .. n : p = u.pos
  BY <1>1, <1>n, UnwindTypes
<1>c. PICK c \in Seq(Frames) : c = ChainFrames(s)[Len(s.callchain)]
  BY SampleTypes, ChainFramesAreFrames
<1>b. s.branch # <<>>
  <2>1. Len(s.branch) # 0
    BY <1>n
  <2> QED
    BY <2>1
<1>u. UsesBranches(s)
  BY <1>1, <1>b DEF ReadsBranches
<1>B. PICK B \in Seq(Frames) :
        /\ B = Branches(s) /\ Len(B) = n + 1 /\ B[1] = Frame(s.branch[1].to, FALSE)
        /\ \A i \in 1 .. n : B[i + 1] = Frame(s.branch[i].from, FALSE)
  BY ONLY <1>b, <1>n, s \in SampleRecords, BranchesAreFrames
<1>R. PICK R \in Seq(Frames) : R = Recorded(s) /\ R = c \o B
  BY ONLY <1>B, <1>c, <1>u, s \in SampleRecords, RecordedAreFrames
<1>f. PICK f \in Seq(Frames) : f = u.frames
  BY UnwindTypes
<1>2. ~u.isKernel /\ Begins(f, R) /\ Len(f) = Len(c) + (IF p = 1 THEN 0 ELSE p)
  BY ONLY <1>1, <1>R, <1>c, <1>f, <1>p, ReadsBranches(u), Zenon DEF ReadsBranches
<1>k. u.isKernel = FALSE
  BY <1>2, UnwindTypes
<1>q. PICK q \in Seq(Frames) :
        /\ q = Reported(ips, FALSE, Len(ips)) /\ Len(q) = Len(ips)
        /\ \A k \in 1 .. Len(ips) : q[k] = Frame(ips[k], FALSE)
  <2>1. Len(ips) \in 0 .. Len(ips) /\ FALSE \in BOOLEAN
    OBVIOUS
  <2> QED
    BY ONLY <2>1, ips \in Seq(Int), ReportedAreFrames
<1>a. PICK a \in Nat : a = Len(c)
  OBVIOUS
<1>l. Len(R) = a + n + 1 /\ \A k \in 1 .. n + 1 : R[a + k] = B[k]
  <2>1. Len(c \o B) = Len(c) + Len(B) /\ \A k \in 1 .. Len(B) : (c \o B)[Len(c) + k] = B[k]
    <3>1. c \in Seq(Frames) /\ B \in Seq(Frames)
      BY ONLY <1>B, <1>c, Zenon
    <3>2. Len(c \o B) = Len(c) + Len(B)
      BY ONLY <3>1, ConcatOf, Zenon
    <3>3. \A k \in 1 .. Len(B) : (c \o B)[Len(c) + k] = B[k]
      BY ONLY <3>1, ConcatAt, Zenon
    <3> QED
      BY ONLY <3>2, <3>3, Zenon
  <2>2. Len(R) = a + (n + 1) /\ \A k \in 1 .. n + 1 : R[a + k] = B[k]
    BY ONLY <1>B, <1>R, <1>a, <2>1, Zenon
  <2>3. a + (n + 1) = a + n + 1
    BY <1>a, <1>n
  <2> QED
    BY ONLY <2>2, <2>3, Zenon
<1>3. Len(f) + Len(q) = a + p + 1 /\ \A k \in 1 .. Len(q) : R[Len(f) + k] = q[k]
  <2>1. CASE p = 1
    <3>1. ips = <<s.branch[1].to, s.branch[1].from>>
      BY ONLY <1>1, <1>p, <2>1, Zenon,
              ips = IF u.pos = 1 THEN <<u.sample.branch[1].to, u.sample.branch[1].from>>
                                 ELSE <<u.sample.branch[u.pos].from>>
    <3>2. Len(ips) = 2 /\ ips[1] = s.branch[1].to /\ ips[2] = s.branch[1].from
      BY ONLY <3>1
    <3>3. Len(q) = 2 /\ q[1] = Frame(s.branch[1].to, FALSE) /\ q[2] = Frame(s.branch[1].from, FALSE)
      <4>1. 1 \in 1 .. Len(ips) /\ 2 \in 1 .. Len(ips)
        BY ONLY <3>2
      <4> QED
        BY ONLY <1>q, <3>2, <4>1, Zenon
    <3>4. Len(f) = a
      BY <1>2, <1>a, <2>1
    <3>5. R[a + 1] = B[1] /\ R[a + 2] = B[2] /\ B[2] = Frame(s.branch[1].from, FALSE)
      <4>1. 1 \in 1 .. n + 1 /\ 2 \in 1 .. n + 1 /\ 1 \in 1 .. n /\ 1 + 1 = 2
        BY <1>p, <2>1
      <4> QED
        BY ONLY <1>l, <1>B, <4>1
    <3>6. Len(f) + Len(q) = a + p + 1
      BY ONLY <1>a, <2>1, <3>3, <3>4
    <3>7. \A k \in 1 .. Len(q) : k = 1 \/ k = 2
      BY ONLY <3>3
    <3> QED
      BY ONLY <1>B, <3>3, <3>4, <3>5, <3>6, <3>7, Zenon
  <2>2. CASE p # 1
    <3>1. ips = <<s.branch[p].from>>
      BY ONLY <1>1, <1>p, <2>2, Zenon,
              ips = IF u.pos = 1 THEN <<u.sample.branch[1].to, u.sample.branch[1].from>>
                                 ELSE <<u.sample.branch[u.pos].from>>
    <3>2. Len(ips) = 1 /\ ips[1] = s.branch[p].from
      BY ONLY <3>1
    <3>3. Len(q) = 1 /\ q[1] = Frame(s.branch[p].from, FALSE)
      <4>1. 1 \in 1 .. Len(ips)
        BY ONLY <3>2
      <4> QED
        BY ONLY <1>q, <3>2, <4>1, Zenon
    <3>4. Len(f) = a + p
      BY <1>2, <1>a, <2>2
    <3>5. p + 1 \in 1 .. n + 1 /\ a + (p + 1) = (a + p) + 1
      OBVIOUS
    <3>6. R[(a + p) + 1] = B[p + 1] /\ B[p + 1] = Frame(s.branch[p].from, FALSE)
      BY ONLY <1>l, <1>B, <3>5, <1>p
    <3>7. Len(f) + Len(q) = a + p + 1
      BY ONLY <1>a, <1>p, <1>n, <3>3, <3>4
    <3>8. \A k \in 1 .. Len(q) : k = 1
      BY ONLY <3>3
    <3> QED
      BY ONLY <3>3, <3>4, <3>6, <3>7, <3>8, Zenon
  <2> QED
    BY <2>1, <2>2
<1>4. Begins(f \o q, R) /\ Len(f \o q) = a + p + 1
  <2>1. a + p + 1 <= a + n + 1
    BY <1>a, <1>n, <1>p
  <2>2. Len(f) + Len(q) <= Len(R)
    BY ONLY <1>3, <1>l, <2>1, Zenon
  <2>3. Len(f \o q) = Len(f) + Len(q)
    BY ONLY <1>f, <1>q, ConcatOf, Zenon
  <2>4. Begins(f \o q, R)
    <3>1. f \in Seq(Frames) /\ q \in Seq(Frames) /\ R \in Seq(Frames)
      BY ONLY <1>f, <1>q, <1>R, Zenon
    <3>2. Begins(f, R) /\ \A k \in 1 .. Len(q) : R[Len(f) + k] = q[k]
      BY ONLY <1>2, <1>3, Zenon
    <3> QED
      BY ONLY <2>2, <3>1, <3>2, BeginsMore, Zenon
  <2> QED
    BY ONLY <1>3, <2>3, <2>4, Zenon
<1>5. Reaches(v, next, f \o q, R, d)
  <2>1. next.frames = f
    BY <1>f DEF SameRecord
  <2>2. Begins(next.frames \o Reported(ips, FALSE, Len(ips)), R)
    BY ONLY <1>4, <1>q, <2>1, Zenon
  <2>3. Reports(v, next, ips, FALSE, d) /\ FALSE \in BOOLEAN
    BY <1>k
  <2>4. Reaches(v, next, next.frames \o Reported(ips, FALSE, Len(ips)), R, d)
    BY ONLY <2>2, <2>3, <1>R, ips \in Seq(Int), v \in Unwinds, next \in Unwinds,
            ReportFollows, Zenon
  <2> QED
    BY ONLY <1>q, <2>1, <2>4, Zenon
<1>6. v.sample = s /\ ~v.isKernel /\ v.pos = p + 1 /\ EndsAtVeneer(v) /\ Begins(v.frames, Recorded(s))
  BY ONLY <1>1, <1>5, <1>R, <1>k, <1>p, SameRecord(next, u), next.isKernel = u.isKernel,
          next.pos = u.pos + 1, Zenon DEF Reaches, SameSample, SameRecord
<1>7. CASE v.phase = "resolved" /\ d # {}
  <2>1. Begins(v.frames, Recorded(v.sample))
    BY ONLY <1>6, Zenon
  <2> QED
    BY ONLY <1>6, <1>7, <2>1, DirtyRecords, Zenon
<1>8. CASE v.phase = next.phase /\ v.frames = f \o q
  <2>1. Len(v.frames) = Len(c) + (IF v.pos = 1 THEN 0 ELSE v.pos) /\ v.pos <= Len(s.branch) + 1
    <3>1. Len(v.frames) = a + p + 1
      BY <1>4, <1>8
    <3>2. v.pos # 1 /\ a + p + 1 = a + v.pos /\ v.pos <= n + 1
      BY <1>6
    <3> QED
      BY ONLY <1>a, <1>n, <3>1, <3>2, Zenon
  <2>2. ReadsBranches(v)
    BY ONLY <1>6, <1>c, <1>u, <2>1, Zenon DEF ReadsBranches
  <2> QED
    BY <1>8, <2>2 DEF Records
<1> QED
  BY ONLY <1>5, <1>7, <1>8, Zenon DEF Reaches

LEMMA BranchEndsFollows ==
  ASSUME NEW u \in Unwinds, ReadsBranches(u), u.pos > Len(u.sample.branch),
         NEW v \in Unwinds, NEW d, SameRecord(v, u), v.phase = "resolved"
  PROVE  Records(v, d)
<1>1. PICK s \in SampleRecords : s = u.sample
  BY UnwindTypes
<1>n. PICK n \in Nat : n = Len(s.branch)
  BY SampleTypes
<1>p. u.pos = n + 1
  <2>1. u.pos \in Nat
    BY UnwindTypes
  <2>2. u.pos <= n + 1 /\ u.pos > n
    BY <1>1, <1>n DEF ReadsBranches
  <2> QED
    BY ONLY <2>1, <2>2, <1>n
<1>c. PICK c \in Seq(Frames) : c = ChainFrames(s)[Len(s.callchain)]
  BY SampleTypes, ChainFramesAreFrames
<1>R. PICK R \in Seq(Frames) : R = Recorded(s)
  BY RecordedAreFrames
<1>f. PICK f \in Seq(Frames) : f = u.frames
  BY UnwindTypes
<1>2. /\ Begins(f, R) /\ Len(f) = Len(c) + (IF n + 1 = 1 THEN 0 ELSE n + 1)
      /\ EndsAtVeneer(u) /\ (s.branch # <<>> => UsesBranches(s))
  BY ONLY <1>1, <1>R, <1>c, <1>f, <1>p, ReadsBranches(u), Zenon DEF ReadsBranches
<1>3. Len(R) <= Len(f)
  <2>1. CASE s.branch = <<>>
    <3>1. n = 0 /\ ~UsesBranches(s)
      BY <1>n, <2>1 DEF UsesBranches
    <3>2. R = c
      BY ONLY <1>R, <1>c, <3>1, s \in SampleRecords, RecordedAreFrames, Zenon
    <3> QED
      BY ONLY <1>2, <3>1, <3>2, <1>c
  <2>2. CASE s.branch # <<>>
    <3>1. PICK B \in Seq(Frames) : B = Branches(s) /\ Len(B) = n + 1
      BY ONLY <1>n, <2>2, s \in SampleRecords, BranchesAreFrames
    <3>2. R = c \o B
      BY ONLY <1>2, <1>R, <1>c, <2>2, <3>1, s \in SampleRecords, RecordedAreFrames, Zenon
    <3>3. Len(R) = Len(c) + n + 1 /\ Len(c) \in Nat
      <4>1. Len(c \o B) = Len(c) + Len(B)
        BY ONLY <1>c, <3>1, ConcatOf, Zenon
      <4>2. Len(c) \in Nat
        BY ONLY <1>c
      <4> QED
        BY ONLY <1>n, <3>1, <3>2, <4>1, <4>2
    <3>4. n # 0
      BY ONLY <1>n, <2>2, s \in SampleRecords, SampleTypes
    <3> QED
      BY ONLY <1>2, <3>3, <3>4, <1>n
  <2> QED
    BY <2>1, <2>2
<1>4. f = R
  BY ONLY <1>2, <1>3, <1>f, <1>R, BeginsAndAsLong
<1>5. /\ v.frames = Recorded(v.sample) /\ Begins(v.frames, Recorded(v.sample)) /\ EndsAtVeneer(v)
  BY ONLY <1>1, <1>2, <1>4, <1>R, <1>f, SameRecord(v, u), Zenon DEF SameRecord, EndsAtVeneer
<1> QED
  BY ONLY <1>5, v.phase = "resolved", Zenon DEF Records, HasRecorded

-----------------------------------------------------------------------------
(***************************************************************************)
(* The places where a walk comes by                                        *)
(***************************************************************************)
PlaceRecords == [pc : Int, sp : Int, older : BOOLEAN]

LEMMA WordIsOne ==
  ASSUME NEW pc \in DOMAIN Cfi, NEW sp \in Int
  PROVE  WordOf(pc, sp) \in Int /\ Rule(pc).size \in Int
<1>1. Rule(pc).offset \in Int /\ Rule(pc).size \in Int
  BY UnwindingAssumption DEF Rule
<1> QED
  BY <1>1 DEF WordOf

PlaceAt(value, place, older) ==
  [pc |-> value, sp |-> place.sp + Rule(place.pc).size, older |-> older]

\* How the next place is found, case by case.
LEMMA NextPlaceIs ==
  ASSUME NEW s, NEW values, NEW place, NEW word, word = WordOf(place.pc, place.sp)
  PROVE  /\ place.pc \notin DOMAIN Cfi => NextPlace(s, values, place) = Nowhere
         /\ word >= MaxAddress => NextPlace(s, values, place) = Nowhere
         /\ place.pc \in DOMAIN Cfi /\ ~(word >= MaxAddress) =>
              /\ OnStack(s, word) =>
                   NextPlace(s, values, place) = PlaceAt(s.stack[word - s.sp + 1], place, FALSE)
              /\ ~OnStack(s, word) /\ word \in Kernel => NextPlace(s, values, place) = Nowhere
              /\ ~OnStack(s, word) /\ word \notin Kernel =>
                   /\ word \in DOMAIN FileData =>
                        NextPlace(s, values, place) = PlaceAt(FileData[word], place, FALSE)
                   /\ word \notin DOMAIN FileData /\ word \in DOMAIN values =>
                        NextPlace(s, values, place) = PlaceAt(values[word], place, TRUE)
                   /\ word \notin DOMAIN FileData /\ word \notin DOMAIN values =>
                        NextPlace(s, values, place) = Nowhere
<1>1. NextPlace(s, values, place) =
        IF place.pc \notin DOMAIN Cfi \/ word >= MaxAddress THEN Nowhere
        ELSE IF OnStack(s, word) THEN PlaceAt(s.stack[word - s.sp + 1], place, FALSE)
        ELSE IF word \in Kernel THEN Nowhere
        ELSE IF word \in DOMAIN FileData THEN PlaceAt(FileData[word], place, FALSE)
        ELSE IF word \in DOMAIN values THEN PlaceAt(values[word], place, TRUE) ELSE Nowhere
  BY DEF NextPlace, PlaceAt
<1> QED
  BY ONLY <1>1, Zenon

LEMMA NextPlaceIsOne ==
  ASSUME NEW s \in SampleRecords, NEW values, values \in [DOMAIN values -> Int],
         NEW place \in PlaceRecords
  PROVE  NextPlace(s, values, place) \in PlaceRecords
<1>1. Nowhere \in PlaceRecords
  BY DEF Nowhere, PlaceRecords
<1>2. CASE place.pc \notin DOMAIN Cfi
  BY ONLY <1>1, <1>2, NextPlaceIs, Zenon
<1>3. CASE place.pc \in DOMAIN Cfi
  <2>1. place.sp \in Int
    BY DEF PlaceRecords
  <2>2. PICK word \in Int : word = WordOf(place.pc, place.sp)
    BY <1>3, <2>1, WordIsOne
  <2>3. ASSUME NEW value \in Int, NEW older \in BOOLEAN
        PROVE  PlaceAt(value, place, older) \in PlaceRecords
    BY <1>3, <2>1, WordIsOne DEF PlaceAt, PlaceRecords
  <2>4. OnStack(s, word) => s.stack[word - s.sp + 1] \in Int
    <3>1. s.sp \in Int /\ s.stack \in Seq(Int)
      BY SampleTypes
    <3> QED
      BY <2>2, <3>1 DEF OnStack
  <2>5. word \in DOMAIN FileData => FileData[word] \in Int
    BY UnwindingAssumption
  <2>6. word \in DOMAIN values => values[word] \in Int
    OBVIOUS
  <2>7. TRUE \in BOOLEAN /\ FALSE \in BOOLEAN
    OBVIOUS
  <2>8. \/ NextPlace(s, values, place) = Nowhere
        \/ OnStack(s, word) /\ NextPlace(s, values, place) = PlaceAt(s.stack[word - s.sp + 1], place, FALSE)
        \/ word \in DOMAIN FileData /\ NextPlace(s, values, place) = PlaceAt(FileData[word], place, FALSE)
        \/ word \in DOMAIN values /\ NextPlace(s, values, place) = PlaceAt(values[word], place, TRUE)
    BY ONLY <1>3, <2>2, NextPlaceIs, Zenon
  <2> QED
    BY ONLY <1>1, <2>3, <2>4, <2>5, <2>6, <2>7, <2>8, Zenon
<1> QED
  BY <1>2, <1>3

StartPlace(s, pc) == [pc |-> pc, sp |-> s.sp, older |-> FALSE]

\* Up to m, f is what Trail evaluates.
Trails(s, values, pc, f, m) ==
  f = [k \in 1 .. m |-> IF k = 1 THEN StartPlace(s, pc) ELSE NextPlace(s, values, f[k - 1])]

LEMMA TrailExists ==
  ASSUME NEW s, NEW values, NEW pc, NEW n \in Int
  PROVE  \E f : Trails(s, values, pc, f, n)
<1>0. CASE n < 0
  <2> DEFINE f == [k \in 1 .. n |-> 0]
  <2>1. 1 .. n = {}
    BY <1>0
  <2>2. Trails(s, values, pc, f, n)
    BY <2>1 DEF Trails
  <2> QED
    BY <2>2
<1>n. CASE n \in Nat
  <2> DEFINE T == {m \in 0 .. n : \E f : Trails(s, values, pc, f, m)}
  <2>1. 0 \in T
    <3> DEFINE f == [k \in 1 .. 0 |-> 0]
    <3>1. 1 .. 0 = {}
      OBVIOUS
    <3>2. Trails(s, values, pc, f, 0)
      BY <3>1 DEF Trails
    <3> QED
      BY <1>n, <3>2
  <2>2. ASSUME NEW m \in 1 .. n, m - 1 \in T
        PROVE  m \in T
    <3>1. PICK f : Trails(s, values, pc, f, m - 1)
      BY <2>2
    <3> DEFINE last == IF m = 1 THEN StartPlace(s, pc) ELSE NextPlace(s, values, f[m - 1])
               g == [k \in 1 .. m |-> IF k = m THEN last ELSE f[k]]
    <3>2. Trails(s, values, pc, g, m)
      <4>1. ASSUME NEW k \in 1 .. m
            PROVE  g[k] = IF k = 1 THEN StartPlace(s, pc) ELSE NextPlace(s, values, g[k - 1])
        <5>1. CASE k = m
          <6>1. g[k] = last /\ (m # 1 => g[m - 1] = f[m - 1])
            <7> HIDE DEF last
            <7> QED
              BY <5>1
          <6> HIDE DEF g
          <6> QED
            BY ONLY <5>1, <6>1, Zenon DEF last
        <5>2. CASE k # m
          <6> HIDE DEF last
          <6>1. k \in 1 .. m - 1 /\ g[k] = f[k]
            BY <5>2
          <6>2. k # 1 => g[k - 1] = f[k - 1]
            BY <6>1
          <6>3. f[k] = IF k = 1 THEN StartPlace(s, pc) ELSE NextPlace(s, values, f[k - 1])
            BY <3>1, <6>1 DEF Trails
          <6> HIDE DEF g
          <6> QED
            BY ONLY <6>1, <6>2, <6>3, Zenon
        <5> QED
          BY <5>1, <5>2
      <4>2. g = [k \in 1 .. m |-> g[k]]
        OBVIOUS
      <4> HIDE DEF g
      <4>3. g = [k \in 1 .. m |-> IF k = 1 THEN StartPlace(s, pc) ELSE NextPlace(s, values, g[k - 1])]
        BY ONLY <4>1, <4>2
      <4> QED
        BY <4>3 DEF Trails
    <3>3. m \in 0 .. n
      BY <1>n
    <3> QED
      BY <3>2, <3>3
  <2> HIDE DEF T
  <2>3. n \in T
    BY <1>n, <2>1, <2>2, Induction
  <2> QED
    BY <2>3 DEF T
<1> QED
  BY <1>0, <1>n

LEMMA TrailIs ==
  ASSUME NEW s, NEW values, NEW pc, NEW n \in Int
  PROVE  /\ n > 0 => Trail(s, values, pc, n)[1] = StartPlace(s, pc)
         /\ \A k \in 1 .. n : k < n =>
              Trail(s, values, pc, n)[k + 1] = NextPlace(s, values, Trail(s, values, pc, n)[k])
<1> DEFINE C == CHOOSE f : Trails(s, values, pc, f, n)
<1>1. Trails(s, values, pc, C, n)
  BY TrailExists
<1>2. C = Trail(s, values, pc, n)
  BY DEF Trail, Trails, StartPlace
<1> HIDE DEF C
<1>3. \A k \in 1 .. n : C[k] = IF k = 1 THEN StartPlace(s, pc) ELSE NextPlace(s, values, C[k - 1])
  BY <1>1 DEF Trails
<1>4. n > 0 => C[1] = StartPlace(s, pc)
  <2>1. n > 0 => 1 \in 1 .. n
    OBVIOUS
  <2> QED
    BY ONLY <1>3, <2>1, Zenon
<1>5. ASSUME NEW k \in 1 .. n, k < n
      PROVE  C[k + 1] = NextPlace(s, values, C[k])
  <2>1. k + 1 \in 1 .. n /\ k + 1 # 1 /\ (k + 1) - 1 = k
    BY <1>5
  <2> QED
    BY ONLY <1>3, <2>1, Zenon
<1> QED
  BY <1>2, <1>4, <1>5

LEMMA TrailIsOne ==
  ASSUME NEW s \in SampleRecords, NEW values, values \in [DOMAIN values -> Int],
         NEW pc \in Int, NEW n \in Int
  PROVE  \A k \in 1 .. n : Trail(s, values, pc, n)[k] \in PlaceRecords
<1>1. PICK C : C = Trail(s, values, pc, n)
  OBVIOUS
<1>2. /\ n > 0 => C[1] = StartPlace(s, pc)
      /\ \A k \in 1 .. n : k < n => C[k + 1] = NextPlace(s, values, C[k])
  BY <1>1, TrailIs
<1>3. StartPlace(s, pc) \in PlaceRecords
  BY SampleTypes DEF StartPlace, PlaceRecords
<1>4. CASE n > 0
  <2> DEFINE T == {m \in 0 .. n : m = 0 \/ C[m] \in PlaceRecords}
  <2>1. 0 \in T
    BY <1>4
  <2>2. ASSUME NEW m \in 1 .. n, m - 1 \in T
        PROVE  m \in T
    <3>1. CASE m = 1
      BY <1>2, <1>3, <1>4, <3>1
    <3>2. CASE m # 1
      <4>1. m - 1 \in 1 .. n /\ m - 1 < n /\ (m - 1) + 1 = m /\ C[m - 1] \in PlaceRecords /\ m \in 0 .. n
        BY <2>2, <3>2
      <4>2. C[m] = NextPlace(s, values, C[m - 1])
        BY ONLY <1>2, <4>1, Zenon
      <4>3. C[m] \in PlaceRecords
        BY <4>1, <4>2, NextPlaceIsOne
      <4> QED
        BY <4>1, <4>3
    <3> QED
      BY <3>1, <3>2
  <2>3. n \in Nat
    BY <1>4
  <2> HIDE DEF T
  <2>4. \A k \in 0 .. n : k \in T
    BY ONLY <2>1, <2>2, <2>3, Induction
  <2> QED
    BY <1>1, <2>4 DEF T
<1>5. CASE ~(n > 0)
  BY <1>5
<1> QED
  BY <1>4, <1>5

Passed(trail, n) == {m \in 1 .. n : \A j \in 1 .. m : trail[j].pc # 0}

OnTrail(trail, n) == [k \in Passed(trail, n) |-> trail[k]]

\* The trail is left where the first pc is 0, if that is not too far.
LEMMA TrailEnds ==
  ASSUME NEW trail, NEW n \in Int
  PROVE  \E q \in Nat :
           /\ Passed(trail, n) = 1 .. q
           /\ q = 0 \/ q <= n
<1> DEFINE D == {m \in 1 .. n : \A j \in 1 .. m : trail[j].pc # 0}
           bad == {k \in 1 .. n : trail[k].pc = 0}
<1>0. Passed(trail, n) = D
  BY DEF Passed
<1>1. CASE bad = {}
  <2>1. D = 1 .. n
    <3>1. \A m \in 1 .. n : \A j \in 1 .. m : j \in 1 .. n
      OBVIOUS
    <3> QED
      BY <1>1, <3>1
  <2>2. CASE n \in Nat
    BY <1>0, <2>1, <2>2
  <2>3. CASE n \notin Nat
    <3>1. D = 1 .. 0
      BY <2>1, <2>3
    <3> QED
      BY <1>0, <3>1
  <2> QED
    BY <2>2, <2>3
<1>2. CASE bad # {}
  <2>1. PICK b \in bad : \A k \in bad : ~(k < b)
    <3>1. bad \subseteq Nat
      OBVIOUS
    <3>2. PICK m \in bad : \A k \in bad : ~(<<k, m>> \in OpToRel(<, Nat))
      BY <1>2, <3>1, NatLessThanWellFounded, WFMin
    <3>3. \A k \in bad : k < m => <<k, m>> \in OpToRel(<, Nat)
      BY <3>1 DEF OpToRel
    <3> QED
      BY <3>2, <3>3
  <2>2. b \in 1 .. n /\ trail[b].pc = 0 /\ b - 1 \in Nat /\ b - 1 <= n
    BY <2>1
  <2>3. ASSUME NEW m \in 1 .. n
        PROVE  m \in D <=> m \in 1 .. b - 1
    <3>1. CASE m < b
      <4>1. \A j \in 1 .. m : j \in 1 .. n /\ j < b
        BY <2>2, <3>1
      <4> QED
        BY <2>1, <2>2, <3>1, <4>1
    <3>2. CASE ~(m < b)
      <4>1. b \in 1 .. m /\ m \notin 1 .. b - 1
        BY <2>2, <3>2
      <4> QED
        BY <2>2, <4>1
    <3> QED
      BY <3>1, <3>2
  <2>4. D \subseteq 1 .. n /\ 1 .. b - 1 \subseteq 1 .. n
    BY <2>2
  <2>5. D = 1 .. b - 1
    <3> HIDE DEF D
    <3> QED
      BY ONLY <2>3, <2>4
  <2> QED
    BY <1>0, <2>2, <2>5
<1> QED
  BY <1>1, <1>2

\* The frames of the places that a walk comes by.
LEMMA UnwoundIs ==
  ASSUME NEW trail, NEW n \in Int, \A k \in 1 .. n : trail[k] \in PlaceRecords
  PROVE  \E q \in Nat :
           /\ q = 0 \/ q <= n
           /\ Passed(trail, n) = 1 .. q
           /\ DOMAIN OnTrail(trail, n) = 1 .. q
           /\ \A k \in 1 .. q : OnTrail(trail, n)[k] = trail[k]
           /\ Unwound(OnTrail(trail, n)) \in Seq(Frames)
           /\ Len(Unwound(OnTrail(trail, n))) = q
           /\ \A k \in 1 .. q : Unwound(OnTrail(trail, n))[k] = FrameAt(trail[k], k)
<1>1. PICK q \in Nat : /\ Passed(trail, n) = 1 .. q
                       /\ q = 0 \/ q <= n
  BY ONLY n \in Int, TrailEnds, Zenon
<1>2. PICK P : P = OnTrail(trail, n)
  OBVIOUS
<1>3. P = [k \in 1 .. q |-> trail[k]]
  BY <1>1, <1>2 DEF OnTrail
<1>4. DOMAIN P = 1 .. q /\ \A k \in 1 .. q : P[k] = trail[k]
  BY ONLY <1>3
<1>5. PICK W : W = Unwound(P)
  OBVIOUS
<1>6. W = [k \in 1 .. q |-> Frame(P[k].pc - (IF k = 1 THEN 0 ELSE 1), FALSE)]
  BY ONLY <1>4, <1>5, Zenon DEF Unwound
<1>7. \A k \in 1 .. q : W[k] = FrameAt(trail[k], k)
  BY ONLY <1>4, <1>6 DEF FrameAt
<1>8. ASSUME NEW k \in 1 .. q
      PROVE  W[k] \in Frames
  <2>1. k \in 1 .. n
    BY <1>1
  <2>2. trail[k].pc \in Int
    BY <2>1 DEF PlaceRecords
  <2>3. FrameAt(trail[k], k) \in Frames
    BY <2>2 DEF FrameAt, Frame, Frames
  <2> QED
    BY <1>7, <2>3
<1>9. W = [k \in 1 .. q |-> W[k]]
  BY ONLY <1>6
<1>10. W \in Seq(Frames) /\ Len(W) = q
  BY ONLY <1>1, <1>8, <1>9
<1> QED
  BY ONLY <1>1, <1>2, <1>4, <1>5, <1>7, <1>10, Zenon

Stops(u, base, trail, n) ==
  Len(u.frames) - Len(base) >= n \/ trail[Len(u.frames) - Len(base) + 1].pc = 0

\* A walk has found a part of the frames, and all when it cannot go on.
LEMMA FollowFinds ==
  ASSUME NEW u \in Unwinds, NEW base \in Seq(Frames), NEW n \in Int, NEW trail,
         \A k \in 1 .. n : trail[k] \in PlaceRecords, Follow(u, base, trail, n)
  PROVE  /\ base \o Unwound(OnTrail(trail, n)) \in Seq(Frames)
         /\ Begins(u.frames, base \o Unwound(OnTrail(trail, n)))
         /\ Stops(u, base, trail, n) =>
              /\ u.frames = base \o Unwound(OnTrail(trail, n))
              /\ GuessesAt(u, OnTrail(trail, n))
<1>1. PICK f \in Seq(Frames) : f = u.frames
  BY UnwindTypes
<1>a. PICK a \in Nat : a = Len(base)
  OBVIOUS
<1>b. PICK b \in Nat : b = Len(f)
  BY <1>1
<1>P. PICK P : P = OnTrail(trail, n)
  OBVIOUS
<1>W. PICK W : W = Unwound(P)
  OBVIOUS
<1>2. PICK q \in Nat :
        /\ q = 0 \/ q <= n
        /\ Passed(trail, n) = 1 .. q
        /\ DOMAIN P = 1 .. q
        /\ \A k \in 1 .. q : P[k] = trail[k]
        /\ W \in Seq(Frames) /\ Len(W) = q
        /\ \A k \in 1 .. q : W[k] = FrameAt(trail[k], k)
  BY <1>P, <1>W, UnwoundIs
<1>3. /\ Begins(base, f) /\ (b - a <= n \/ b = a)
      /\ \A j \in 1 .. b - a : /\ trail[j].pc # 0 /\ f[a + j] = FrameAt(trail[j], j)
                               /\ trail[j].older => Guessed(u)
  BY <1>1, <1>a, <1>b DEF Follow
<1>4. a <= b /\ \A i \in 1 .. a : base[i] = f[i]
  BY <1>3, <1>a, <1>b DEF Begins
<1>5. b - a <= q
  <2>1. CASE b = a
    BY <1>2, <2>1, <1>a
  <2>2. CASE b # a
    <3>1. b - a \in 1 .. n /\ \A j \in 1 .. b - a : trail[j].pc # 0
      BY <1>3, <1>4, <1>a, <1>b, <2>2
    <3>2. b - a \in 1 .. q
      BY ONLY <1>2, <3>1 DEF Passed
    <3> QED
      BY <1>2, <3>2
  <2> QED
    BY <2>1, <2>2
<1>6. base \o W \in Seq(Frames) /\ Len(base \o W) = a + q
  BY ONLY <1>2, <1>a, base \in Seq(Frames), ConcatOf
<1>7. Begins(f, base \o W)
  <2>1. b <= a + q
    BY ONLY <1>5, <1>a, <1>b, <1>2
  <2>2. ASSUME NEW i \in 1 .. b
        PROVE  f[i] = (base \o W)[i]
    <3>1. CASE i <= a
      <4>1. i \in 1 .. a /\ i \in 1 .. Len(base)
        BY ONLY <1>a, <1>b, <3>1, i \in 1 .. b
      <4>2. (base \o W)[i] = base[i]
        BY ONLY <1>2, <4>1, base \in Seq(Frames)
      <4> QED
        BY ONLY <1>4, <4>1, <4>2, Zenon
    <3>2. CASE ~(i <= a)
      <4>1. i - a \in 1 .. b - a /\ i - a \in 1 .. q /\ a + (i - a) = i
        BY ONLY <1>5, <1>2, <1>a, <1>b, <3>2, i \in 1 .. b
      <4>2. (base \o W)[Len(base) + (i - a)] = W[i - a]
        <5>1. \A k \in 1 .. Len(W) : (base \o W)[Len(base) + k] = W[k]
          BY ONLY <1>2, base \in Seq(Frames), ConcatAt
        <5> QED
          BY ONLY <1>2, <4>1, <5>1, Zenon
      <4>3. W[i - a] = FrameAt(trail[i - a], i - a) /\ f[a + (i - a)] = FrameAt(trail[i - a], i - a)
        BY ONLY <1>2, <1>3, <4>1, Zenon
      <4> QED
        BY ONLY <1>a, <4>1, <4>2, <4>3, Zenon
    <3> QED
      BY <3>1, <3>2
  <2> QED
    BY ONLY <1>6, <1>b, <2>1, <2>2 DEF Begins
<1>8. ASSUME Stops(u, base, trail, n)
      PROVE  f = base \o W /\ GuessesAt(u, P)
  <2>1. q <= b - a
    <3>1. b - a >= n \/ trail[b - a + 1].pc = 0
      BY <1>1, <1>8, <1>a, <1>b DEF Stops
    <3>2. CASE b - a >= n
      BY ONLY <1>2, <1>4, <1>a, <1>b, <3>2, n \in Int
    <3>3. CASE trail[b - a + 1].pc = 0
      <4>1. ASSUME b - a < q
            PROVE  FALSE
        <5>1. q \in 1 .. q /\ b - a + 1 \in 1 .. q
          BY ONLY <1>2, <1>4, <1>a, <1>b, <4>1
        <5>2. \A j \in 1 .. q : trail[j].pc # 0
          BY ONLY <1>2, <5>1 DEF Passed
        <5> QED
          BY ONLY <3>3, <5>1, <5>2, Zenon
      <4> QED
        BY ONLY <1>2, <1>a, <1>b, <4>1
    <3> QED
      BY ONLY <3>1, <3>2, <3>3
  <2>2. Len(base \o W) <= Len(f)
    BY ONLY <1>6, <1>a, <1>b, <1>2, <2>1
  <2>3. f = base \o W
    BY ONLY <1>1, <1>6, <1>7, <2>2, BeginsAndAsLong
  <2>4. \A k \in DOMAIN P : P[k].older => Guessed(u)
    <3>1. \A k \in 1 .. q : k \in 1 .. b - a
      BY ONLY <1>2, <1>a, <1>b, <2>1
    <3> QED
      BY ONLY <1>2, <1>3, <3>1, Zenon
  <2> QED
    BY ONLY <2>3, <2>4 DEF GuessesAt
<1> QED
  BY ONLY <1>1, <1>P, <1>W, <1>6, <1>7, <1>8, Zenon

-----------------------------------------------------------------------------
(***************************************************************************)
(* The two walks of a stack                                                *)
(***************************************************************************)
StartFirst(s) == IF FromVeneer(s) THEN s.lr ELSE s.pc
LimitFirst(s) == MaxFrames + 1 - Len(Recorded(s))

LEMMA FirstIs ==
  ASSUME NEW s \in SampleRecords, NEW values, values \in [DOMAIN values -> Int]
  PROVE  /\ LimitFirst(s) \in Int
         /\ \A k \in 1 .. LimitFirst(s) :
              Trail(s, values, StartFirst(s), LimitFirst(s))[k] \in PlaceRecords
         /\ FirstPlaces(s, values) = OnTrail(Trail(s, values, StartFirst(s), LimitFirst(s)), LimitFirst(s))
         /\ First(s, values) \in Seq(Frames)
<1>1. PICK n \in Int : n = LimitFirst(s)
  <2>1. Len(Recorded(s)) \in Nat
    BY RecordedAreFrames
  <2> QED
    BY <2>1, UnwindingAssumption DEF LimitFirst
<1>2. PICK pc \in Int : pc = StartFirst(s)
  BY SampleTypes DEF StartFirst
<1>3. PICK trail : trail = Trail(s, values, pc, n)
  OBVIOUS
<1>4. \A k \in 1 .. n : trail[k] \in PlaceRecords
  BY <1>1, <1>2, <1>3, TrailIsOne
<1>5. FirstPlaces(s, values) = OnTrail(trail, n)
  <2>1. FirstPlaces(s, values) = Places(s, values, pc, n)
    BY ONLY <1>1, <1>2, Zenon DEF FirstPlaces, StartFirst, LimitFirst
  <2> QED
    BY ONLY <1>3, <2>1, Zenon DEF Places, OnTrail, Passed
<1>6. Unwound(OnTrail(trail, n)) \in Seq(Frames)
  BY ONLY <1>1, <1>4, UnwoundIs
<1>7. Recorded(s) \in Seq(Frames)
  BY RecordedAreFrames
<1>8. First(s, values) \in Seq(Frames)
  BY ONLY <1>5, <1>6, <1>7, ConcatOf, Zenon DEF First
<1> QED
  BY ONLY <1>1, <1>2, <1>3, <1>4, <1>5, <1>8, Zenon

LEMMA TwiceIs ==
  ASSUME NEW s \in SampleRecords, NEW values, values \in [DOMAIN values -> Int],
         WalksTwice(s, values)
  PROVE  /\ Len(First(s, values)) > 0
         /\ <<Head(First(s, values))>> \in Seq(Frames) /\ Len(<<Head(First(s, values))>>) = 1
         /\ Head(First(s, values)) = First(s, values)[1]
<1>1. PICK f \in Seq(Frames) : f = First(s, values)
  BY FirstIs
<1>2. f # <<>>
  <2>1. CASE FromVeneer(s)
    <3>1. PICK R \in Seq(Frames) : R = Recorded(s) /\ R # <<>>
      BY <2>1, RecordedAreFrames DEF FromVeneer
    <3>2. PICK w \in Seq(Frames) : w = Unwound(FirstPlaces(s, values))
      <4>1. Unwound(FirstPlaces(s, values)) \in Seq(Frames)
        BY FirstIs, UnwoundIs
      <4> QED
        BY <4>1
    <3>3. f = R \o w
      BY <1>1, <3>1, <3>2 DEF First
    <3> QED
      BY ONLY <3>1, <3>2, <3>3
  <2>2. CASE ~FromVeneer(s)
    BY <1>1, <2>2 DEF WalksTwice
  <2> QED
    BY <2>1, <2>2
<1>3. Len(f) > 0 /\ Head(f) = f[1] /\ Head(f) \in Frames
  BY ONLY <1>1, <1>2
<1> QED
  BY ONLY <1>1, <1>3, OneOf, Zenon

\* All that a walk can find.
FoundBy(u, values) ==
  BaseOf(u, values) \o Unwound(OnTrail(TrailOf(u, values), LimitOf(u)))

LEMMA WalkTypes ==
  ASSUME NEW u \in Unwinds, NEW values, values \in [DOMAIN values -> Int], NEW d,
         Repeats(u, values, d)
  PROVE  /\ BaseOf(u, values) \in Seq(Frames) /\ LimitOf(u) \in Int
         /\ LimitOf(u) = MaxFrames + 1 - Len(BaseOf(u, values))
         /\ StartOf(u) \in Int
         /\ \A k \in 1 .. LimitOf(u) : TrailOf(u, values)[k] \in PlaceRecords
         /\ u.walk.number = 1 =>
              /\ FoundBy(u, values) = First(u.sample, values)
              /\ OnTrail(TrailOf(u, values), LimitOf(u)) = FirstPlaces(u.sample, values)
         /\ u.walk.number = 2 =>
              /\ FoundBy(u, values) = Second(u.sample, values)
              /\ OnTrail(TrailOf(u, values), LimitOf(u)) = SecondPlaces(u.sample, values)
<1>1. PICK s \in SampleRecords : s = u.sample
  BY UnwindTypes
<1>m. MaxFrames \in Int
  BY UnwindingAssumption
<1>2. CASE u.walk.number = 1
  <2>1. BaseOf(u, values) = Recorded(s) /\ LimitOf(u) = LimitFirst(s) /\ StartOf(u) = StartFirst(s)
    BY ONLY <1>1, <1>2, Zenon DEF BaseOf, LimitOf, StartOf, LimitFirst, StartFirst
  <2>2. TrailOf(u, values) = Trail(s, values, StartFirst(s), LimitFirst(s))
    BY ONLY <1>1, <2>1, Zenon DEF TrailOf
  <2>3. StartFirst(s) \in Int
    BY SampleTypes DEF StartFirst
  <2>4. /\ LimitFirst(s) \in Int
        /\ \A k \in 1 .. LimitFirst(s) :
             Trail(s, values, StartFirst(s), LimitFirst(s))[k] \in PlaceRecords
        /\ FirstPlaces(s, values) = OnTrail(Trail(s, values, StartFirst(s), LimitFirst(s)), LimitFirst(s))
    BY ONLY s \in SampleRecords, values \in [DOMAIN values -> Int], FirstIs, <1>1, Zenon
  <2>5. Recorded(s) \in Seq(Frames)
    BY RecordedAreFrames
  <2>6. FoundBy(u, values) = First(s, values)
    BY ONLY <2>1, <2>2, <2>4, Zenon DEF FoundBy, First
  <2>7. LimitOf(u) = MaxFrames + 1 - Len(BaseOf(u, values)) /\ u.walk.number # 2
    BY ONLY <1>2, <2>1 DEF LimitFirst
  <2> QED
    BY ONLY <1>1, <1>2, <2>1, <2>2, <2>3, <2>4, <2>5, <2>6, <2>7, Zenon
<1>3. CASE u.walk.number = 2
  <2>0. u.walk.number # 1
    BY <1>3
  <2>1. WalksTwice(s, values)
    BY <1>1, <1>3 DEF Repeats
  <2>2. BaseOf(u, values) = <<Head(First(s, values))>> /\ LimitOf(u) = MaxFrames /\ StartOf(u) = s.lr
    BY ONLY <1>1, <2>0, Zenon DEF BaseOf, LimitOf, StartOf
  <2>3. TrailOf(u, values) = Trail(s, values, s.lr, MaxFrames)
    BY ONLY <1>1, <2>2, Zenon DEF TrailOf
  <2>4. s.lr \in Int
    BY SampleTypes
  <2>5. \A k \in 1 .. MaxFrames : Trail(s, values, s.lr, MaxFrames)[k] \in PlaceRecords
    BY <1>m, <2>4, TrailIsOne
  <2>6. SecondPlaces(s, values) = OnTrail(TrailOf(u, values), LimitOf(u))
    BY ONLY <2>2, <2>3, Zenon DEF SecondPlaces, Places, OnTrail, Passed
  <2>7. <<Head(First(s, values))>> \in Seq(Frames) /\ Len(<<Head(First(s, values))>>) = 1
    BY <2>1, TwiceIs
  <2>8. FoundBy(u, values) = Second(s, values)
    BY ONLY <2>2, <2>6, Zenon DEF FoundBy, Second
  <2>9. LimitOf(u) = MaxFrames + 1 - Len(BaseOf(u, values))
    BY ONLY <1>m, <2>2, <2>7
  <2> QED
    BY ONLY <1>1, <1>m, <2>0, <2>2, <2>3, <2>4, <2>5, <2>6, <2>7, <2>8, <2>9, Zenon
<1> QED
  BY <1>2, <1>3 DEF Repeats

\* Steps that only guess, or go to another place.
SameWalk(v, u) ==
  /\ v.sample = u.sample /\ v.frames = u.frames /\ v.isInterworking = u.isInterworking
  /\ v.walk.number = u.walk.number /\ v.walk.saved = u.walk.saved
  /\ Guessed(u) => Guessed(v)

LEMMA SameWalkFollows ==
  ASSUME NEW u, NEW v, SameWalk(v, u), NEW values, NEW d, NEW e, e = {} => d = {},
         Repeats(u, values, d), Follow(u, BaseOf(u, values), TrailOf(u, values), LimitOf(u))
  PROVE  /\ BaseOf(v, values) = BaseOf(u, values) /\ LimitOf(v) = LimitOf(u)
         /\ TrailOf(v, values) = TrailOf(u, values)
         /\ Repeats(v, values, e)
         /\ Follow(v, BaseOf(v, values), TrailOf(v, values), LimitOf(v))
<1>1. /\ BaseOf(v, values) = BaseOf(u, values) /\ LimitOf(v) = LimitOf(u)
      /\ StartOf(v) = StartOf(u)
  BY DEF SameWalk, BaseOf, LimitOf, StartOf
<1>2. TrailOf(v, values) = TrailOf(u, values)
  BY ONLY <1>1, SameWalk(v, u), Zenon DEF TrailOf, SameWalk
<1>3. PICK base : base = BaseOf(u, values)
  OBVIOUS
<1>4. PICK trail : trail = TrailOf(u, values)
  OBVIOUS
<1>5. PICK n : n = LimitOf(u)
  OBVIOUS
<1>6. Follow(v, base, trail, n)
  <2>1. v.frames = u.frames /\ (Guessed(u) => Guessed(v)) /\ Follow(u, base, trail, n)
    BY <1>3, <1>4, <1>5 DEF SameWalk
  <2> QED
    BY ONLY <2>1, Zenon DEF Follow
<1>7. ASSUME NEW places, GuessesAt(u, places)
      PROVE  GuessesAt(v, places)
  BY <1>7 DEF GuessesAt, SameWalk
<1>8. Repeats(v, values, e)
  BY ONLY <1>7, SameWalk(v, u), e = {} => d = {}, Repeats(u, values, d), Zenon DEF Repeats, SameWalk
<1> QED
  BY ONLY <1>1, <1>2, <1>3, <1>4, <1>5, <1>6, <1>8, Zenon

Appended(f, e) ==
  /\ Append(f, e)[Len(f) + 1] = e /\ Append(f, e) # <<>>
  /\ \A i \in 1 .. Len(f) : Append(f, e)[i] = f[i]

LEMMA AppendAt ==
  ASSUME NEW S, NEW f \in Seq(S), NEW e \in S
  PROVE  Appended(f, e)
BY DEF Appended

LEMMA CallbackAdds ==
  ASSUME NEW u \in Unwinds, NEW v \in Unwinds, NEW values, values \in [DOMAIN values -> Int],
         WalksStack(u, values, {}), u.phase = "callback", u.walk.pc # 0,
         ~(Len(u.frames) > MaxFrames), v.phase = "read", v.sample = u.sample, v.walk = u.walk,
         v.firstGuessedFrame = u.firstGuessedFrame,
         NEW ip, ip = u.walk.pc - (IF u.walk.activation THEN 0 ELSE 1),
         v.frames = Append(u.frames, Frame(ip, FALSE)),
         v.isInterworking <=> u.isInterworking \/ (u.frames = <<>> /\ ip \in Veneers)
  PROVE  WalksStack(v, values, {})
<1>1. PICK base \in Seq(Frames) : base = BaseOf(u, values)
  BY WalkTypes DEF WalksStack
<1>2. PICK trail : trail = TrailOf(u, values)
  OBVIOUS
<1>3. PICK n \in Int : n = LimitOf(u) /\ n = MaxFrames + 1 - Len(base)
  BY <1>1, WalkTypes DEF WalksStack
<1>4. BaseOf(v, values) = base /\ TrailOf(v, values) = trail /\ LimitOf(v) = n
  BY ONLY <1>1, <1>2, <1>3, v.sample = u.sample, v.walk = u.walk, Zenon
     DEF BaseOf, TrailOf, LimitOf, StartOf
<1>f. PICK f \in Seq(Frames) : f = u.frames
  BY UnwindTypes
<1>g. PICK g \in Seq(Frames) : g = v.frames /\ g = Append(f, Frame(ip, FALSE))
  BY <1>f, UnwindTypes
<1>a. PICK a \in Nat : a = Len(base)
  BY ONLY <1>1
<1>b. PICK b \in Nat : b = Len(f)
  BY ONLY <1>f
<1>5. /\ Len(g) = b + 1 /\ g[b + 1] = Frame(ip, FALSE) /\ g # <<>>
      /\ \A i \in 1 .. b : g[i] = f[i]
  <2>1. u.walk.pc \in Int
    BY UnwindTypes DEF Walks
  <2>2. ip \in Int
    BY <2>1
  <2>3. Frame(ip, FALSE) \in Frames
    BY <2>2 DEF Frame, Frames
  <2>4. f \in Seq(Frames)
    BY ONLY <1>f, Zenon
  <2>5. PICK frame \in Frames : frame = Frame(ip, FALSE)
    BY ONLY <2>3, Zenon
  <2>6. Len(Append(f, frame)) = Len(f) + 1
    BY ONLY <2>4, <2>5, AppendOf, Zenon
  <2>7. /\ Append(f, frame)[Len(f) + 1] = frame /\ Append(f, frame) # <<>>
        /\ \A i \in 1 .. Len(f) : Append(f, frame)[i] = f[i]
    <3>1. Appended(f, frame)
      BY ONLY <2>4, <2>5, AppendAt, Zenon
    <3> QED
      BY ONLY <3>1, Zenon DEF Appended
  <2> QED
    BY ONLY <1>g, <1>b, <2>5, <2>6, <2>7, Zenon
<1>6. /\ Begins(base, f) /\ (b - a <= n \/ b = a)
      /\ \A j \in 1 .. b - a : /\ trail[j].pc # 0 /\ f[a + j] = FrameAt(trail[j], j)
                               /\ trail[j].older => Guessed(u)
  BY ONLY <1>1, <1>2, <1>3, <1>f, <1>a, <1>b, WalksStack(u, values, {}), Zenon DEF Follow, WalksStack
<1>7. a <= b /\ \A i \in 1 .. a : base[i] = f[i]
  BY ONLY <1>6, <1>a, <1>b, Zenon DEF Begins
<1>8. b - a < n
  <2>1. ~(b > MaxFrames) /\ MaxFrames \in Int
    BY <1>b, <1>f, UnwindingAssumption
  <2> QED
    BY ONLY <1>3, <1>a, <1>b, <2>1
<1>9. /\ u.walk.activation = (b - a = 0) /\ u.walk.pc = trail[b - a + 1].pc
      /\ u.walk.sp = trail[b - a + 1].sp /\ (trail[b - a + 1].older => Guessed(u))
  <2>1. IsAt(u, {}, base, trail, n)
    BY <1>1, <1>2, <1>3 DEF WalksStack
  <2> QED
    BY ONLY <1>8, <1>a, <1>b, <1>f, <2>1, u.phase = "callback", u.walk.pc # 0, Zenon DEF IsAt
<1>m. PICK m \in Nat : m = b - a
  BY <1>7, <1>a, <1>b
<1>10. Frame(ip, FALSE) = FrameAt(trail[m + 1], m + 1)
  <2>1. u.walk.activation = (m = 0) /\ u.walk.pc = trail[m + 1].pc
    BY ONLY <1>9, <1>m, Zenon
  <2>2. (m = 0) = (m + 1 = 1)
    BY <1>m
  <2>3. ip = trail[m + 1].pc - (IF m + 1 = 1 THEN 0 ELSE 1)
    BY ONLY <2>1, <2>2, ip = u.walk.pc - (IF u.walk.activation THEN 0 ELSE 1), Zenon
  <2> QED
    BY ONLY <2>3, Zenon DEF FrameAt
<1>gu. Guessed(u) => Guessed(v)
  BY DEF Guessed
<1>11. Follow(v, base, trail, n)
  <2>1. Begins(base, g)
    <3>1. a <= b + 1 /\ \A i \in 1 .. a : i \in 1 .. b
      BY ONLY <1>7, <1>a, <1>b
    <3> QED
      BY ONLY <1>5, <1>7, <1>a, <3>1, Zenon DEF Begins
  <2>2. Len(g) - a = m + 1 /\ m + 1 <= n /\ a + (m + 1) = b + 1
    BY ONLY <1>3, <1>5, <1>8, <1>a, <1>b, <1>m
  <2>3. ASSUME NEW j \in 1 .. m + 1
        PROVE  trail[j].pc # 0 /\ g[a + j] = FrameAt(trail[j], j) /\ (trail[j].older => Guessed(v))
    <3>1. CASE j = m + 1
      <4>1. trail[m + 1].pc # 0 /\ (trail[m + 1].older => Guessed(v))
        BY ONLY <1>9, <1>gu, <1>m, u.walk.pc # 0, Zenon
      <4>2. g[a + (m + 1)] = FrameAt(trail[m + 1], m + 1)
        BY ONLY <1>5, <1>10, <2>2, Zenon
      <4> QED
        BY ONLY <3>1, <4>1, <4>2, Zenon
    <3>2. CASE j # m + 1
      <4>1. j \in 1 .. b - a /\ a + j \in 1 .. b
        BY ONLY <1>7, <1>a, <1>b, <1>m, <3>2, j \in 1 .. m + 1
      <4> QED
        BY ONLY <1>5, <1>6, <1>gu, <4>1, Zenon
    <3> QED
      BY ONLY <3>1, <3>2, Zenon
  <2> QED
    BY ONLY <1>a, <1>g, <2>1, <2>2, <2>3, Zenon DEF Follow
<1>12. IsAt(v, {}, base, trail, n)
  <2>1. Len(v.frames) - Len(base) = m + 1 /\ m + 1 > 0
    BY ONLY <1>5, <1>a, <1>b, <1>g, <1>m
  <2>2. v.walk.pc = trail[m + 1].pc /\ v.walk.sp = trail[m + 1].sp
    BY ONLY <1>9, <1>m, v.walk = u.walk, Zenon
  <2>3. v.phase = "read" /\ v.phase # "callback"
    OBVIOUS
  <2> QED
    BY ONLY <2>1, <2>2, <2>3, Zenon DEF IsAt
<1>13. Repeats(v, values, {})
  <2>0. Repeats(u, values, {})
    BY DEF WalksStack
  <2>1. CASE u.walk.number = 1
    <3>1. PICK s : s = u.sample
      OBVIOUS
    <3>2. u.isInterworking <=>
            FromVeneer(s) \/ (Recorded(s) = <<>> /\ f # <<>> /\ f[1].ip \in Veneers)
      BY <1>f, <2>0, <2>1, <3>1 DEF Repeats
    <3>3. base = Recorded(s)
      BY ONLY <1>1, <2>1, <3>1, Zenon DEF BaseOf
    <3>4. v.isInterworking <=>
            FromVeneer(s) \/ (Recorded(s) = <<>> /\ g # <<>> /\ g[1].ip \in Veneers)
      <4>0. g # <<>> /\ (v.isInterworking <=> u.isInterworking \/ (f = <<>> /\ ip \in Veneers))
        BY <1>5, <1>f
      <4>1. CASE f = <<>>
        <5>1. b = 0 /\ base = <<>> /\ ~(f # <<>>)
          BY ONLY <1>1, <1>7, <1>a, <1>b, <4>1
        <5>2. g[1] = Frame(ip, FALSE) /\ Frame(ip, FALSE).ip = ip
          BY <1>5, <5>1 DEF Frame
        <5>3. ~FromVeneer(s)
          BY <3>3, <5>1 DEF FromVeneer
        <5>4. ~u.isInterworking
          BY ONLY <3>2, <5>1, <5>3, Zenon
        <5>5. g[1].ip = ip
          BY ONLY <5>2, Zenon
        <5>6. Recorded(s) = <<>>
          BY ONLY <3>3, <5>1, Zenon
        <5> QED
          BY ONLY <4>0, <4>1, <5>3, <5>4, <5>5, <5>6, Zenon
      <4>2. CASE f # <<>>
        <5>1. g[1] = f[1]
          <6>1. 1 \in 1 .. b
            BY ONLY <1>b, <1>f, <4>2
          <6> QED
            BY ONLY <1>5, <6>1, Zenon
        <5> QED
          BY ONLY <3>2, <4>0, <4>2, <5>1, Zenon
      <4> QED
        BY <4>1, <4>2
    <3> QED
      BY ONLY <1>g, <2>1, <3>1, <3>4, v.sample = u.sample, v.walk = u.walk, Zenon DEF Repeats
  <2>2. CASE u.walk.number = 2
    <3>1. ASSUME NEW places, GuessesAt(u, places)
          PROVE  GuessesAt(v, places)
      BY <1>gu, <3>1 DEF GuessesAt
    <3>2. u.walk.number # 1
      BY <2>2
    <3> QED
      BY ONLY <2>0, <3>1, <3>2, v.sample = u.sample, v.walk = u.walk, Zenon DEF Repeats
  <2> QED
    BY <2>0, <2>1, <2>2 DEF Repeats
<1> QED
  BY ONLY <1>4, <1>11, <1>12, <1>13, Zenon DEF WalksStack

StopsWalk(u, values) == Stops(u, BaseOf(u, values), TrailOf(u, values), LimitOf(u))

LEMMA CallbackStops ==
  ASSUME NEW u \in Unwinds, NEW values, values \in [DOMAIN values -> Int],
         WalksStack(u, values, {}), u.phase = "callback",
         u.walk.pc = 0 \/ Len(u.frames) > MaxFrames
  PROVE  StopsWalk(u, values)
<1>1. PICK base \in Seq(Frames) : base = BaseOf(u, values)
  BY WalkTypes DEF WalksStack
<1>2. PICK trail : trail = TrailOf(u, values)
  OBVIOUS
<1>3. PICK n \in Int : n = LimitOf(u) /\ n = MaxFrames + 1 - Len(base)
  BY <1>1, WalkTypes DEF WalksStack
<1>4. PICK m \in Int : m = Len(u.frames) - Len(base)
  BY <1>1, UnwindTypes
<1>5. CASE m < n /\ u.walk.pc = 0
  <2>1. IsAt(u, {}, base, trail, n)
    BY <1>1, <1>2, <1>3 DEF WalksStack
  <2>2. trail[m + 1].pc = 0
    BY ONLY <1>4, <1>5, <2>1, u.phase = "callback", Zenon DEF IsAt
  <2> QED
    BY ONLY <1>1, <1>2, <1>3, <1>4, <2>2, Zenon DEF StopsWalk, Stops
<1>6. m >= n \/ (m < n /\ u.walk.pc = 0)
  <2>1. MaxFrames \in Int /\ Len(u.frames) \in Int /\ Len(base) \in Int
    BY <1>1, UnwindTypes, UnwindingAssumption
  <2> QED
    BY ONLY <1>3, <1>4, <2>1, u.walk.pc = 0 \/ Len(u.frames) > MaxFrames
<1>7. CASE m >= n
  BY ONLY <1>1, <1>2, <1>3, <1>4, <1>7, Zenon DEF StopsWalk, Stops
<1> QED
  BY <1>5, <1>6, <1>7

AtPlace(u) == [pc |-> u.walk.pc, sp |-> u.walk.sp, older |-> FALSE]

LEMMA SameNextPlace ==
  ASSUME NEW s, NEW values, NEW p, NEW q, p.pc = q.pc, p.sp = q.sp
  PROVE  NextPlace(s, values, p) = NextPlace(s, values, q)
BY DEF NextPlace

LEMMA NextOnTrail ==
  ASSUME NEW u \in Unwinds, NEW values, values \in [DOMAIN values -> Int], NEW d,
         WalksStack(u, values, d), u.phase = "read",
         NEW m, m = Len(u.frames) - Len(BaseOf(u, values))
  PROVE  /\ m \in Int /\ m > 0
         /\ m < LimitOf(u) => TrailOf(u, values)[m + 1] = NextPlace(u.sample, values, AtPlace(u))
<1>1. PICK base \in Seq(Frames) : base = BaseOf(u, values)
  BY WalkTypes DEF WalksStack
<1>2. PICK trail : trail = TrailOf(u, values)
  OBVIOUS
<1>3. PICK n \in Int : n = LimitOf(u)
  BY WalkTypes DEF WalksStack
<1>4. m \in Int
  BY <1>1, UnwindTypes
<1>5. m > 0 /\ u.walk.pc = trail[m].pc /\ u.walk.sp = trail[m].sp
  <2>1. IsAt(u, d, base, trail, n)
    BY <1>1, <1>2, <1>3 DEF WalksStack
  <2>2. m = Len(u.frames) - Len(base)
    BY <1>1
  <2> QED
    BY ONLY <2>1, <2>2, u.phase = "read", Zenon DEF IsAt
<1>6. ASSUME m < n
      PROVE  trail[m + 1] = NextPlace(u.sample, values, AtPlace(u))
  <2>1. m \in 1 .. n
    BY ONLY <1>3, <1>4, <1>5, <1>6
  <2>2. trail[m + 1] = NextPlace(u.sample, values, trail[m])
    <3>1. trail = Trail(u.sample, values, StartOf(u), n)
      BY ONLY <1>2, <1>3, Zenon DEF TrailOf
    <3>2. \A k \in 1 .. n : k < n => Trail(u.sample, values, StartOf(u), n)[k + 1] =
            NextPlace(u.sample, values, Trail(u.sample, values, StartOf(u), n)[k])
      BY ONLY <1>3, TrailIs
    <3> QED
      BY ONLY <1>6, <2>1, <3>1, <3>2, Zenon
  <2>3. trail[m].pc = AtPlace(u).pc /\ trail[m].sp = AtPlace(u).sp
    BY <1>5 DEF AtPlace
  <2>4. NextPlace(u.sample, values, trail[m]) = NextPlace(u.sample, values, AtPlace(u))
    BY ONLY <2>3, SameNextPlace, Zenon
  <2> QED
    BY ONLY <2>2, <2>4, Zenon
<1> QED
  BY ONLY <1>2, <1>3, <1>4, <1>5, <1>6, Zenon

LEMMA ReadStops ==
  ASSUME NEW u \in Unwinds, NEW values, values \in [DOMAIN values -> Int], NEW d,
         WalksStack(u, values, d), u.phase = "read",
         NextPlace(u.sample, values, AtPlace(u)).pc = 0
  PROVE  StopsWalk(u, values)
<1>1. PICK m : m = Len(u.frames) - Len(BaseOf(u, values))
  OBVIOUS
<1>2. PICK n \in Int : n = LimitOf(u)
  BY WalkTypes DEF WalksStack
<1>3. m \in Int /\ (m < n => TrailOf(u, values)[m + 1] = NextPlace(u.sample, values, AtPlace(u)))
  BY <1>1, <1>2, NextOnTrail
<1>4. m >= n \/ m < n
  BY <1>2, <1>3
<1>5. m >= n \/ TrailOf(u, values)[m + 1].pc = 0
  BY ONLY <1>3, <1>4, NextPlace(u.sample, values, AtPlace(u)).pc = 0, Zenon
<1> QED
  BY ONLY <1>1, <1>2, <1>5, Zenon DEF StopsWalk, Stops

\* next: the place that libdw goes on at, unless a table is dirty.
LEMMA ReadReturns ==
  ASSUME NEW u \in Unwinds, NEW v \in Unwinds, NEW values, values \in [DOMAIN values -> Int],
         NEW d, WalksStack(u, values, d), u.phase = "read", NEW e, e = {} => d = {},
         SameWalk(v, u), v.phase = "callback", ~v.walk.activation,
         NEW next, next = NextPlace(u.sample, values, AtPlace(u)),
         e = {} => /\ v.walk.pc = next.pc
                   /\ v.walk.pc # 0 => v.walk.sp = next.sp /\ (next.older => Guessed(v))
  PROVE  WalksStack(v, values, e)
<1>1. /\ BaseOf(v, values) = BaseOf(u, values) /\ LimitOf(v) = LimitOf(u)
      /\ TrailOf(v, values) = TrailOf(u, values)
      /\ Repeats(v, values, e)
      /\ Follow(v, BaseOf(v, values), TrailOf(v, values), LimitOf(v))
  BY SameWalkFollows DEF WalksStack
<1>2. PICK m : m = Len(u.frames) - Len(BaseOf(u, values))
  OBVIOUS
<1>3. m \in Int /\ m > 0 /\ (m < LimitOf(u) => TrailOf(u, values)[m + 1] = next)
  BY <1>2, NextOnTrail
<1>4. v.frames = u.frames
  BY DEF SameWalk
<1>5. v.walk.activation = (m = 0)
  <2>1. v.walk.activation = FALSE
    BY UnwindTypes DEF Walks
  <2>2. (m = 0) = FALSE
    BY <1>3
  <2> QED
    BY <2>1, <2>2
<1>6. IsAt(v, e, BaseOf(v, values), TrailOf(v, values), LimitOf(v))
  <2>1. m = Len(v.frames) - Len(BaseOf(v, values))
    BY ONLY <1>1, <1>2, <1>4, Zenon
  <2>2. v.phase # "read"
    OBVIOUS
  <2>3. e = {} /\ m < LimitOf(v) =>
          /\ v.walk.pc = TrailOf(v, values)[m + 1].pc
          /\ v.walk.pc # 0 => /\ v.walk.sp = TrailOf(v, values)[m + 1].sp
                              /\ TrailOf(v, values)[m + 1].older => Guessed(v)
    BY ONLY <1>1, <1>3, Zenon,
            e = {} => /\ v.walk.pc = next.pc
                      /\ v.walk.pc # 0 => v.walk.sp = next.sp /\ (next.older => Guessed(v))
  <2> QED
    BY ONLY <1>5, <2>1, <2>2, <2>3, Zenon DEF IsAt
<1> QED
  BY ONLY <1>1, <1>6, Zenon DEF WalksStack

LEMMA AllFramesIs ==
  ASSUME NEW s, NEW values, NEW unwinds
  PROVE  /\ ~unwinds => AllFrames(s, values, unwinds) = Recorded(s)
         /\ unwinds /\ TakesSecond(s, values) => AllFrames(s, values, unwinds) = Second(s, values)
         /\ unwinds /\ ~TakesSecond(s, values) => AllFrames(s, values, unwinds) = First(s, values)
BY DEF AllFrames

Ended(v, values, d) ==
  \/ /\ v.phase = "attempted"
     /\ IF d = {} THEN HasAll(v, values, TRUE) ELSE PartOfFrames(v.frames, v.sample, values)
  \/ v.phase = "callback" /\ WalksStack(v, values, d)

\* The fields of an unwinding that begins a walk.
Begun(v, u, n, saved) ==
  /\ v.phase = "callback" /\ v.sample = u.sample /\ v.attempt = u.attempt /\ v.frames = u.frames
  /\ v.isInterworking = u.isInterworking /\ v.firstGuessedFrame = u.firstGuessedFrame
  /\ v.walk.number = n /\ v.walk.saved = saved /\ v.walk.sp = u.sample.sp
  /\ v.walk.activation = TRUE
  /\ v.walk.pc = IF u.isInterworking THEN u.sample.lr ELSE u.sample.pc

LEMMA BeginWalkBegins ==
  ASSUME NEW u \in Unwinds, NEW n, NEW saved
  PROVE  Begun(BeginWalk(u, n, saved), u, n, saved)
<1> DEFINE pc   == IF u.isInterworking THEN u.sample.lr ELSE u.sample.pc
           walk == [number |-> n, saved |-> saved, sp |-> u.sample.sp, activation |-> TRUE,
                    pc |-> pc]
<1> HIDE DEF pc
<1>1. /\ walk.number = n /\ walk.saved = saved /\ walk.sp = u.sample.sp
      /\ walk.activation = TRUE /\ walk.pc = pc
  OBVIOUS
<1> HIDE DEF walk
<1>2. PICK v : v = [u EXCEPT !.phase = "callback", !.walk = walk]
  OBVIOUS
<1>3. v = BeginWalk(u, n, saved)
  BY <1>2 DEF BeginWalk, walk, pc
<1>4. /\ v.phase = "callback" /\ v.sample = u.sample /\ v.attempt = u.attempt /\ v.frames = u.frames
      /\ v.isInterworking = u.isInterworking /\ v.firstGuessedFrame = u.firstGuessedFrame
      /\ v.walk = walk
  BY <1>2 DEF Unwinds
<1>5. Begun(v, u, n, saved)
  BY ONLY <1>1, <1>4, Zenon DEF Begun, pc
<1> QED
  BY <1>3, <1>5

\* A walk begins at the first place of its trail, with the frames that it goes on from.
LEMMA BeginsFollows ==
  ASSUME NEW v \in Unwinds, NEW values, values \in [DOMAIN values -> Int], NEW d,
         Repeats(v, values, d), v.phase = "callback", v.frames = BaseOf(v, values),
         v.walk.activation = TRUE, v.walk.sp = v.sample.sp, v.walk.pc = StartOf(v)
  PROVE  WalksStack(v, values, d)
<1>1. PICK base \in Seq(Frames) : base = BaseOf(v, values)
  BY WalkTypes
<1>2. PICK trail : trail = TrailOf(v, values)
  OBVIOUS
<1>3. PICK n \in Int : n = LimitOf(v)
  BY WalkTypes
<1>4. Len(v.frames) - Len(base) = 0 /\ Len(v.frames) = Len(base) /\ v.frames = base
  BY <1>1
<1>5. Begins(base, v.frames)
  BY ONLY <1>1, <1>4, BeginsItself
<1>6. Follow(v, base, trail, n)
  <2>1. 1 .. 0 = {}
    OBVIOUS
  <2> QED
    BY ONLY <1>4, <1>5, <2>1, Zenon DEF Follow
<1>7. IsAt(v, d, base, trail, n)
  <2>1. 0 < n => trail[0 + 1] = StartPlace(v.sample, StartOf(v))
    <3>1. trail = Trail(v.sample, values, StartOf(v), n)
      BY ONLY <1>2, <1>3, Zenon DEF TrailOf
    <3>2. n > 0 => Trail(v.sample, values, StartOf(v), n)[1] = StartPlace(v.sample, StartOf(v))
      BY ONLY <1>3, TrailIs
    <3>3. 0 + 1 = 1 /\ (0 < n => n > 0)
      BY <1>3
    <3> QED
      BY ONLY <3>1, <3>2, <3>3, Zenon
  <2>2. /\ StartPlace(v.sample, StartOf(v)).pc = v.walk.pc
        /\ StartPlace(v.sample, StartOf(v)).sp = v.walk.sp
        /\ StartPlace(v.sample, StartOf(v)).older = FALSE
    BY DEF StartPlace
  <2>3. v.phase # "read" /\ v.walk.activation = (0 = 0)
    OBVIOUS
  <2>4. 0 < n => /\ v.walk.pc = trail[0 + 1].pc /\ v.walk.sp = trail[0 + 1].sp
                 /\ ~trail[0 + 1].older
    BY ONLY <2>1, <2>2, Zenon
  <2> QED
    BY ONLY <1>4, <2>3, <2>4, Zenon DEF IsAt
<1> QED
  BY ONLY <1>1, <1>2, <1>3, <1>6, <1>7, Repeats(v, values, d), Zenon DEF WalksStack

LEMMA FirstIsOne ==
  ASSUME NEW f \in Seq(Frames), Len(f) > 0
  PROVE  SubSeq(f, 1, 1) = <<f[1]>>
<1>1. PICK g : g = SubSeq(f, 1, 1)
  OBVIOUS
<1>2. g \in Seq(Frames) /\ Len(g) = 1
  BY <1>1, FirstOf
<1>3. g[1] = f[1]
  BY <1>1
<1>4. g = <<g[1]>>
  BY ONLY <1>2
<1> QED
  BY ONLY <1>1, <1>3, <1>4, Zenon

LEMMA EndWalkFollows ==
  ASSUME NEW u \in Unwinds, HasStack(u.sample), HasVeneer(u),
         NEW values, values \in [DOMAIN values -> Int], NEW d, Repeats(u, values, d),
         Follow(u, BaseOf(u, values), TrailOf(u, values), LimitOf(u)),
         d = {} => StopsWalk(u, values), NEW v \in Unwinds, v = EndWalk(u)
  PROVE  Ended(v, values, d) /\ v.sample = u.sample /\ v.attempt = u.attempt
<1>s. PICK s \in SampleRecords : s = u.sample
  BY UnwindTypes
<1>f. PICK f \in Seq(Frames) : f = u.frames
  BY UnwindTypes
<1>F. PICK F : F = FoundBy(u, values)
  OBVIOUS
<1>P. PICK P : P = OnTrail(TrailOf(u, values), LimitOf(u))
  OBVIOUS
<1>1. F \in Seq(Frames) /\ Begins(f, F) /\ (d = {} => f = F /\ GuessesAt(u, P))
  <2>1. PICK base \in Seq(Frames) : base = BaseOf(u, values)
    BY WalkTypes
  <2>2. PICK trail : trail = TrailOf(u, values)
    OBVIOUS
  <2>3. PICK n \in Int : n = LimitOf(u)
    BY WalkTypes
  <2>4. \A k \in 1 .. n : trail[k] \in PlaceRecords
    BY <2>2, <2>3, WalkTypes
  <2>5. Follow(u, base, trail, n) /\ (d = {} => Stops(u, base, trail, n))
    BY ONLY <2>1, <2>2, <2>3, Follow(u, BaseOf(u, values), TrailOf(u, values), LimitOf(u)),
            d = {} => StopsWalk(u, values), Zenon DEF StopsWalk
  <2>6. F = base \o Unwound(OnTrail(trail, n)) /\ P = OnTrail(trail, n)
    BY ONLY <1>F, <1>P, <2>1, <2>2, <2>3, Zenon DEF FoundBy
  <2>7. /\ base \o Unwound(OnTrail(trail, n)) \in Seq(Frames)
        /\ Begins(u.frames, base \o Unwound(OnTrail(trail, n)))
        /\ Stops(u, base, trail, n) =>
             /\ u.frames = base \o Unwound(OnTrail(trail, n))
             /\ GuessesAt(u, OnTrail(trail, n))
    <3>1. u \in Unwinds /\ base \in Seq(Frames) /\ n \in Int
      BY ONLY u \in Unwinds, <2>1, <2>3, Zenon
    <3>2. Follow(u, base, trail, n)
      BY ONLY <2>5, Zenon
    <3> QED
      BY ONLY <2>4, <3>1, <3>2, FollowFinds, Zenon
  <2> QED
    BY ONLY <1>f, <2>5, <2>6, <2>7, Zenon
<1>2. u.walk.number = 1 => F = First(s, values) /\ P = FirstPlaces(s, values)
  BY <1>s, <1>F, <1>P, WalkTypes
<1>3. u.walk.number = 2 => F = Second(s, values) /\ P = SecondPlaces(s, values)
  BY <1>s, <1>F, <1>P, WalkTypes
<1>4. First(s, values) \in Seq(Frames)
  BY FirstIs
<1>5. CASE u.walk.number = 1 /\ u.isInterworking
  <2>0. Len(f) > 0
    BY <1>5, <1>f DEF HasVeneer
  <2> DEFINE cut == [u EXCEPT !.frames = SubSeq(f, 1, 1)]
  <2>1. v = BeginWalk(cut, 2, f)
    BY <1>5, <1>f DEF EndWalk
  <2>2. /\ cut \in Unwinds /\ cut.frames = SubSeq(f, 1, 1) /\ cut.sample = s
        /\ cut.attempt = u.attempt /\ cut.isInterworking = u.isInterworking
        /\ cut.firstGuessedFrame = u.firstGuessedFrame
    <3>1. SubSeq(f, 1, 1) \in Seq(Frames)
      BY ONLY <1>f, <2>0, FirstOf
    <3> HIDE DEF cut
    <3>2. cut = [u EXCEPT !.frames = SubSeq(f, 1, 1)]
      BY DEF cut
    <3> QED
      BY <1>s, <3>1, <3>2 DEF Unwinds
  <2> HIDE DEF cut
  <2>3. Begun(v, cut, 2, f)
    BY ONLY <2>1, <2>2, BeginWalkBegins, Zenon
  <2>4. /\ v.phase = "callback" /\ v.sample = s /\ v.attempt = u.attempt /\ v.frames = SubSeq(f, 1, 1)
        /\ v.firstGuessedFrame = u.firstGuessedFrame
        /\ v.walk.number = 2 /\ v.walk.saved = f /\ v.walk.sp = s.sp
        /\ v.walk.activation = TRUE /\ v.walk.pc = s.lr
    BY ONLY <1>5, <2>2, <2>3, Zenon DEF Begun
  <2>5. F = First(s, values) /\ P = FirstPlaces(s, values)
    BY <1>2, <1>5
  <2>6. Len(F) > 0 /\ Head(F) = F[1] /\ F[1] = f[1] /\ F # <<>> /\ f # <<>>
    BY ONLY <1>1, <1>f, <2>0 DEF Begins
  <2>7. WalksTwice(s, values)
    <3>1. FromVeneer(s) \/ (Recorded(s) = <<>> /\ f # <<>> /\ f[1].ip \in Veneers)
      BY <1>5, <1>f, <1>s DEF Repeats
    <3> QED
      BY ONLY <2>5, <2>6, <3>1, Zenon DEF WalksTwice
  <2>8. Repeats(v, values, d)
    <3>1. v.walk.number = 2 /\ v.walk.number # 1 /\ v.sample = s /\ v.walk.saved = f
      BY <2>4
    <3>2. GuessesAt(u, P) => GuessesAt(v, P)
      BY <2>4 DEF GuessesAt, Guessed
    <3> QED
      BY ONLY <1>1, <2>5, <2>7, <3>1, <3>2, Zenon DEF Repeats
  <2>9. v.frames = BaseOf(v, values) /\ v.walk.pc = StartOf(v)
    <3>1. v.walk.number # 1
      BY <2>4
    <3>2. BaseOf(v, values) = <<Head(F)>> /\ StartOf(v) = s.lr
      BY ONLY <2>4, <2>5, <3>1, Zenon DEF BaseOf, StartOf
    <3>3. SubSeq(f, 1, 1) = <<f[1]>>
      BY ONLY <1>f, <2>0, FirstIsOne, Zenon
    <3> QED
      BY ONLY <2>4, <2>6, <3>2, <3>3, Zenon
  <2>10. WalksStack(v, values, d)
    <3>1. v.walk.sp = v.sample.sp
      BY ONLY <2>4, Zenon
    <3> QED
      BY ONLY v \in Unwinds, values \in [DOMAIN values -> Int], <2>4, <2>8, <2>9, <3>1,
              BeginsFollows, Zenon
  <2> QED
    BY ONLY <1>s, <2>4, <2>10, Zenon DEF Ended
<1>6. CASE ~(u.walk.number = 1 /\ u.isInterworking)
  <2> DEFINE g == IF u.walk.number = 2 /\ Len(u.walk.saved) > Len(f) THEN u.walk.saved ELSE f
  <2>1. /\ v.phase = "attempted" /\ v.frames = g /\ v.sample = s /\ v.attempt = u.attempt
        /\ v.firstGuessedFrame = u.firstGuessedFrame
    <3>1. CASE u.walk.number = 2 /\ Len(u.walk.saved) > Len(f)
      <4>1. v = [u EXCEPT !.phase = "attempted", !.frames = u.walk.saved] /\ g = u.walk.saved
        BY <1>6, <1>f, <3>1 DEF EndWalk
      <4> HIDE DEF g
      <4> QED
        BY <1>s, <4>1 DEF Unwinds
    <3>2. CASE ~(u.walk.number = 2 /\ Len(u.walk.saved) > Len(f))
      <4>1. v = [u EXCEPT !.phase = "attempted"] /\ g = u.frames
        BY <1>6, <1>f, <3>2 DEF EndWalk
      <4> HIDE DEF g
      <4> QED
        BY <1>s, <4>1 DEF Unwinds
    <3> QED
      BY <3>1, <3>2
  <2>g. \A places : GuessesAt(u, places) => GuessesAt(v, places)
    BY <2>1 DEF GuessesAt, Guessed
  <2>h. HasStack(s) = TRUE /\ (HasStack(s) /\ TRUE) = TRUE
    BY <1>s DEF HasStack
  <2>2. CASE u.walk.number = 1
    <3>1. g = f /\ F = First(s, values) /\ P = FirstPlaces(s, values)
      BY <1>2, <2>2
    <3>2. CASE d = {}
      <4>1. f = F /\ GuessesAt(v, P)
        BY <1>1, <2>g, <3>2
      <4>2. ~WalksTwice(s, values)
        <5>1. ~FromVeneer(s) /\ ~(Recorded(s) = <<>> /\ f # <<>> /\ f[1].ip \in Veneers)
          BY <1>6, <1>f, <1>s, <2>2 DEF Repeats
        <5>2. f # <<>> => Head(f) = f[1]
          BY ONLY <1>f
        <5> QED
          BY ONLY <3>1, <4>1, <5>1, <5>2, Zenon DEF WalksTwice
      <4>3. ~TakesSecond(s, values)
        BY ONLY <4>2, Zenon DEF TakesSecond
      <4>4. AllFrames(s, values, HasStack(s) /\ TRUE) = First(s, values)
        BY ONLY <2>h, <4>3, AllFramesIs, Zenon
      <4>5. HasAll(v, values, TRUE)
        BY ONLY <2>1, <3>1, <4>1, <4>3, <4>4, Zenon DEF HasAll, PlacesOf
      <4> QED
        BY ONLY <1>s, <2>1, <3>2, <4>5, Zenon DEF Ended
    <3>3. CASE d # {}
      <4>1. IsPrefix(f, First(s, values))
        BY ONLY <1>1, <1>f, <3>1, BeginsIsPrefix, Zenon
      <4> QED
        BY ONLY <1>s, <2>1, <2>h, <3>1, <3>3, <4>1, Zenon DEF Ended, PartOfFrames
    <3> QED
      BY <3>2, <3>3
  <2>3. CASE u.walk.number = 2
    <3>1. F = Second(s, values) /\ P = SecondPlaces(s, values)
      BY <1>3, <2>3
    <3>2. /\ WalksTwice(s, values) /\ Begins(u.walk.saved, First(s, values))
          /\ d = {} => u.walk.saved = First(s, values) /\ GuessesAt(u, FirstPlaces(s, values))
      BY <1>s, <2>3 DEF Repeats
    <3>3. u.walk.saved \in Seq(Frames) /\ Len(u.walk.saved) \in Nat /\ Len(f) \in Nat
      BY <1>f, UnwindTypes DEF Walks
    <3>4. CASE d = {}
      <4>1. f = F /\ GuessesAt(v, P) /\ GuessesAt(v, FirstPlaces(s, values))
            /\ u.walk.saved = First(s, values)
        BY <1>1, <2>g, <3>2, <3>4
      <4>2. CASE Len(u.walk.saved) > Len(f)
        <5>1. g = First(s, values)
          BY ONLY <2>3, <4>1, <4>2, Zenon
        <5>2. ~TakesSecond(s, values)
          <6>1. ~(Len(u.walk.saved) <= Len(f))
            BY ONLY <3>3, <4>2
          <6> QED
            BY ONLY <3>1, <4>1, <6>1, Zenon DEF TakesSecond
        <5>3. AllFrames(s, values, HasStack(s) /\ TRUE) = First(s, values)
          BY ONLY <2>h, <5>2, AllFramesIs, Zenon
        <5>4. HasAll(v, values, TRUE)
          BY ONLY <2>1, <4>1, <5>1, <5>2, <5>3, Zenon DEF HasAll, PlacesOf
        <5> QED
          BY ONLY <1>s, <2>1, <3>4, <5>4, Zenon DEF Ended
      <4>3. CASE ~(Len(u.walk.saved) > Len(f))
        <5>1. g = f
          BY ONLY <4>3, Zenon
        <5>2. TakesSecond(s, values)
          <6>1. Len(u.walk.saved) <= Len(f)
            BY ONLY <3>3, <4>3
          <6> QED
            BY ONLY <3>1, <3>2, <4>1, <6>1, Zenon DEF TakesSecond
        <5>3. AllFrames(s, values, HasStack(s) /\ TRUE) = Second(s, values)
          BY ONLY <2>h, <5>2, AllFramesIs, Zenon
        <5>4. HasAll(v, values, TRUE)
          BY ONLY <2>1, <3>1, <4>1, <5>1, <5>2, <5>3, Zenon DEF HasAll, PlacesOf
        <5> QED
          BY ONLY <1>s, <2>1, <3>4, <5>4, Zenon DEF Ended
      <4> QED
        BY <4>2, <4>3
    <3>5. CASE d # {}
      <4>1. IsPrefix(f, Second(s, values)) /\ IsPrefix(u.walk.saved, First(s, values))
        BY ONLY <1>1, <1>4, <1>f, <3>1, <3>2, <3>3, BeginsIsPrefix, Zenon
      <4>2. g = f \/ g = u.walk.saved
        OBVIOUS
      <4> QED
        BY ONLY <1>s, <2>1, <2>h, <3>2, <3>5, <4>1, <4>2, Zenon DEF Ended, PartOfFrames
    <3> QED
      BY <3>4, <3>5
  <2> QED
    BY <2>2, <2>3 DEF Repeats
<1> QED
  BY <1>5, <1>6

-----------------------------------------------------------------------------
(***************************************************************************)
(* Every step keeps to the frames of the sample                            *)
(***************************************************************************)
LEMMA OlderIsOne ==
  ASSUME NEW values, values \in [DOMAIN values -> Int], NEW s
  PROVE  Older(values, s) \in [DOMAIN Older(values, s) -> Int]
BY DEF Older

\* A word of the stack is no older value of its sample.
LEMMA OlderStays ==
  ASSUME NEW values, NEW s, NEW word, OnStack(s, word), NEW value, NEW w,
         w = [a \in DOMAIN values \cup {word} |-> IF a = word THEN value ELSE values[a]]
  PROVE  Older(w, s) = Older(values, s)
<1>1. DOMAIN w = DOMAIN values \cup {word}
  OBVIOUS
<1>2. \A a \in DOMAIN values : a # word => w[a] = values[a]
  OBVIOUS
<1>3. {a \in DOMAIN w : ~OnStack(s, a)} = {a \in DOMAIN values : ~OnStack(s, a)}
  BY ONLY OnStack(s, word), <1>1, Zenon
<1>4. \A a \in {b \in DOMAIN values : ~OnStack(s, b)} : w[a] = values[a]
  BY ONLY OnStack(s, word), <1>2, Zenon
<1> QED
  BY ONLY <1>3, <1>4 DEF Older

LEMMA RecordsFollows ==
  ASSUME NEW v, NEW values, NEW d, NEW a, NEW x, Records(v, d), Counts(v, d, x)
  PROVE  Follows(v, values, d, a, x)
<1>1. CASE v.phase = "callchain" /\ ReadsChain(v)
  BY ONLY Counts(v, d, x), <1>1 DEF Follows
<1>2. CASE v.phase = "branch" /\ ReadsBranches(v)
  BY ONLY Counts(v, d, x), <1>2 DEF Follows
<1>3. CASE v.phase = "resolved" /\ HasRecorded(v, d)
  BY ONLY Counts(v, d, x), <1>3 DEF Follows
<1> QED
  BY ONLY Records(v, d), <1>1, <1>2, <1>3, Zenon DEF Records

LEMMA EndedFollows ==
  ASSUME NEW v, NEW values, NEW d, NEW a, NEW x, Ended(v, values, d), Counts(v, d, x),
         HasStack(v.sample), a = TRUE, d \subseteq {"user"}
  PROVE  Follows(v, values, d, a, x)
<1>1. CASE v.phase = "callback" /\ WalksStack(v, values, d)
  BY ONLY Counts(v, d, x), HasStack(v.sample), a = TRUE, d \subseteq {"user"}, <1>1 DEF Follows
<1>2. CASE /\ v.phase = "attempted"
           /\ IF d = {} THEN HasAll(v, values, TRUE) ELSE PartOfFrames(v.frames, v.sample, values)
  BY ONLY Counts(v, d, x), a = TRUE, <1>2 DEF Follows
<1> QED
  BY ONLY Ended(v, values, d), <1>1, <1>2, Zenon DEF Ended

LEMMA CallTableCounts ==
  ASSUME NEW u, NEW v, NEW d, NEW e, NEW x, NEW y, NEW table, Counts(u, d, x),
         v.attempt = u.attempt, (e = d /\ y = x) \/ (e = d \cup {table} /\ y = TRUE)
  PROVE  Counts(v, e, y)
<1>1. d \cup {table} # {}
  OBVIOUS
<1> QED
  BY ONLY Counts(u, d, x), v.attempt = u.attempt, <1>1,
          (e = d /\ y = x) \/ (e = d \cup {table} /\ y = TRUE) DEF Counts

\* What a step of Next has to show.
Keeps == Follows(ui', Older(stackValues', ui'.sample), dirty', attached', disturbed')

LEMMA KeepsFInv == Keeps => FInv'
BY DEF Keeps, FInv

LEMMA AnalyzeFollows ==
  ASSUME NEW s \in SampleRecords, NEW n \in 1 .. 2, NEW values, NEW d, NEW a,
         n = 2 => d = {}
  PROVE  Follows(NewUnwind(s, n), values, d, a, FALSE)
<1>1. PICK v : v = NewUnwind(s, n)
  OBVIOUS
<1>2. /\ v.phase = "callchain" /\ v.sample = s /\ v.attempt = n /\ v.frames = <<>> /\ v.pos = 1
      /\ v.isInterworking = FALSE /\ v.isKernel = FALSE /\ v.addedUserFrames = FALSE
  BY <1>1 DEF NewUnwind
<1>3. Len(s.callchain) \in Nat
  BY SampleTypes
<1>4. 1 <= Len(s.callchain) + 1 /\ 1 .. 1 - 1 = {} /\ 1 - 1 = 0
  BY ONLY <1>3
<1>5. ~InKernel(s, 1) /\ ~UserBefore(s, 1) /\ ChainFrames(s)[0] = <<>>
  BY ONLY s \in SampleRecords, <1>3, InKernelFirst, NoUserBeforeFirst, ChainIs, Zenon
<1>6. InKernel(s, 1) = FALSE /\ UserBefore(s, 1) = FALSE
  BY <1>5 DEF InKernel, UserBefore
<1>7. EndsAtVeneer(v)
  BY ONLY <1>2 DEF EndsAtVeneer
<1>8. ReadsChain(v)
  BY ONLY <1>2, <1>4, <1>5, <1>6, <1>7, Zenon DEF ReadsChain
<1>9. Counts(v, d, FALSE)
  BY ONLY <1>2, n \in 1 .. 2, n = 2 => d = {} DEF Counts
<1> QED
  BY ONLY <1>1, <1>2, <1>8, <1>9, RecordsFollows, Zenon DEF Records

LEMMA InChain ==
  ASSUME FInv, NEW u, u = ui, NEW d, d = dirty, NEW x, x = disturbed
  PROVE  /\ u.phase = "callchain" => ReadsChain(u) /\ Counts(u, d, x)
         /\ u.phase = "branch" => ReadsBranches(u) /\ Counts(u, d, x)
         /\ u.phase = "resolved" => HasRecorded(u, d) /\ Counts(u, d, x)
BY DEF FInv, Follows

LEMMA RecordsKeeps ==
  ASSUME NEW v, v = ui', NEW e, e = dirty', NEW y, y = disturbed', Records(v, e), Counts(v, e, y)
  PROVE  Keeps
BY RecordsFollows DEF Keeps

LEMMA ContextKeeps == IInv /\ FInv /\ IInv' /\ Context => Keeps
<1> SUFFICES ASSUME IInv, FInv, IInv', Context PROVE Keeps
  OBVIOUS
<1>u. PICK u : u = ui
  OBVIOUS
<1>v. PICK v : v = ui'
  OBVIOUS
<1>d. PICK d : d = dirty
  OBVIOUS
<1>x. PICK x : x = disturbed
  OBVIOUS
<1> DEFINE entry == u.sample.callchain[u.pos]
<1>1. u \in Unwinds /\ v \in Unwinds
  BY <1>u, <1>v DEF IInv, TypeInv
<1>2. /\ u.phase = "callchain" /\ u.pos <= Len(u.sample.callchain) /\ entry > ContextMax
      /\ v = IF entry \in {HV, KERNEL, USER}
             THEN [u EXCEPT !.isKernel = entry # USER, !.pos = @ + 1]
             ELSE [u EXCEPT !.phase = "resolved"]
      /\ d = dirty' /\ x = disturbed'
  BY <1>u, <1>v, <1>d, <1>x DEF Context, InCallchain, Entry
<1>3. ReadsChain(u) /\ Counts(u, d, x)
  BY ONLY FInv, <1>u, <1>d, <1>x, <1>2, InChain
<1>4. CASE entry \in {HV, KERNEL, USER}
  <2>1. /\ SameRecord(v, u) /\ v.phase = "callchain" /\ v.attempt = u.attempt
        /\ v.isKernel = (entry # USER) /\ v.pos = u.pos + 1 /\ v.addedUserFrames = u.addedUserFrames
    <3>1. v = [u EXCEPT !.isKernel = entry # USER, !.pos = @ + 1]
      BY ONLY <1>2, <1>4, Zenon
    <3> HIDE DEF entry
    <3> QED
      BY ONLY <1>1, <1>2, <3>1 DEF Unwinds, SameRecord
  <2>2. ReadsChain(v)
    BY ONLY <1>1, <1>2, <1>3, <1>4, <2>1, ContextFollows, Zenon
  <2>3. Records(v, d) /\ Counts(v, d, x)
    BY ONLY <1>3, <2>1, <2>2, Zenon DEF Records, Counts
  <2> QED
    BY ONLY <1>v, <1>2, <2>3, RecordsKeeps
<1>5. CASE ~(entry \in {HV, KERNEL, USER})
  <2>1. SameRecord(v, u) /\ v.phase = "resolved" /\ v.attempt = u.attempt
    <3>1. v = [u EXCEPT !.phase = "resolved"]
      BY ONLY <1>2, <1>5, Zenon
    <3> QED
      BY ONLY <1>1, <3>1 DEF Unwinds, SameRecord
  <2>2. HasRecorded(v, d)
    BY ONLY <1>1, <1>2, <1>3, <1>5, <2>1, ContextFollows, Zenon
  <2>3. Records(v, d) /\ Counts(v, d, x)
    BY ONLY <1>3, <2>1, <2>2, Zenon DEF Records, Counts
  <2> QED
    BY ONLY <1>v, <1>2, <2>3, RecordsKeeps
<1> QED
  BY <1>4, <1>5

LEMMA CallchainEndsKeeps == IInv /\ FInv /\ IInv' /\ CallchainEnds => Keeps
<1> SUFFICES ASSUME IInv, FInv, IInv', CallchainEnds PROVE Keeps
  OBVIOUS
<1>u. PICK u : u = ui
  OBVIOUS
<1>v. PICK v : v = ui'
  OBVIOUS
<1>d. PICK d : d = dirty
  OBVIOUS
<1>x. PICK x : x = disturbed
  OBVIOUS
<1>1. u \in Unwinds /\ v \in Unwinds
  BY <1>u, <1>v DEF IInv, TypeInv
<1>2. /\ u.phase = "callchain" /\ u.pos > Len(u.sample.callchain)
      /\ v = [u EXCEPT !.phase = IF u.isKernel THEN "resolved" ELSE "branch", !.pos = 1]
      /\ d = dirty' /\ x = disturbed'
  BY <1>u, <1>v, <1>d, <1>x DEF CallchainEnds
<1>3. ReadsChain(u) /\ Counts(u, d, x)
  BY ONLY FInv, <1>u, <1>d, <1>x, <1>2, InChain
<1>4. /\ SameRecord(v, u) /\ v.isKernel = u.isKernel /\ v.attempt = u.attempt
      /\ IF u.isKernel THEN v.phase = "resolved" ELSE v.phase = "branch" /\ v.pos = 1
  BY ONLY <1>1, <1>2 DEF Unwinds, SameRecord
<1>5. Records(v, d)
  BY ONLY <1>1, <1>2, <1>3, <1>4, CallchainEndsFollows, Zenon
<1>6. Counts(v, d, x)
  BY ONLY <1>3, <1>4, Zenon DEF Counts
<1> QED
  BY ONLY <1>v, <1>2, <1>5, <1>6, RecordsKeeps

LEMMA BranchEndsKeeps == IInv /\ FInv /\ IInv' /\ BranchEnds => Keeps
<1> SUFFICES ASSUME IInv, FInv, IInv', BranchEnds PROVE Keeps
  OBVIOUS
<1>u. PICK u : u = ui
  OBVIOUS
<1>v. PICK v : v = ui'
  OBVIOUS
<1>d. PICK d : d = dirty
  OBVIOUS
<1>x. PICK x : x = disturbed
  OBVIOUS
<1>1. u \in Unwinds /\ v \in Unwinds
  BY <1>u, <1>v DEF IInv, TypeInv
<1>2. /\ u.phase = "branch" /\ u.pos > Len(u.sample.branch) /\ v = [u EXCEPT !.phase = "resolved"]
      /\ d = dirty' /\ x = disturbed'
  BY <1>u, <1>v, <1>d, <1>x DEF BranchEnds
<1>3. ReadsBranches(u) /\ Counts(u, d, x)
  BY ONLY FInv, <1>u, <1>d, <1>x, <1>2, InChain
<1>4. SameRecord(v, u) /\ v.attempt = u.attempt /\ v.phase = "resolved"
  BY ONLY <1>1, <1>2 DEF Unwinds, SameRecord
<1>5. Records(v, d)
  BY ONLY <1>1, <1>2, <1>3, <1>4, BranchEndsFollows, Zenon
<1>6. Counts(v, d, x)
  BY ONLY <1>3, <1>4, Zenon DEF Counts
<1> QED
  BY ONLY <1>v, <1>2, <1>5, <1>6, RecordsKeeps

\* The attempt of the sample that is reported is the same.
LEMMA ReportsCounts ==
  ASSUME NEW u, NEW v, NEW next, NEW ips, NEW kernel, NEW d, NEW e, NEW x, NEW y, NEW table,
         Counts(u, d, x), Reports(v, next, ips, kernel, e), next.attempt = u.attempt,
         (e = d /\ y = x) \/ (e = d \cup {table} /\ y = TRUE)
  PROVE  Counts(v, e, y)
<1>1. v.attempt = u.attempt
  BY ONLY Reports(v, next, ips, kernel, e), next.attempt = u.attempt, Zenon DEF Reports, SameSample
<1> QED
  BY ONLY Counts(u, d, x), <1>1, CallTableCounts, Zenon,
          (e = d /\ y = x) \/ (e = d \cup {table} /\ y = TRUE)

LEMMA BranchKeeps == IInv /\ FInv /\ IInv' /\ Branch => Keeps
<1> SUFFICES ASSUME IInv, FInv, IInv', Branch PROVE Keeps
  OBVIOUS
<1>u. PICK u : u = ui
  OBVIOUS
<1>v. PICK v : v = ui'
  OBVIOUS
<1>d. PICK d : d = dirty
  OBVIOUS
<1>e. PICK e : e = dirty'
  OBVIOUS
<1>x. PICK x : x = disturbed
  OBVIOUS
<1>y. PICK y : y = disturbed'
  OBVIOUS
<1>i. PICK ips : ips = IF u.pos = 1 THEN <<u.sample.branch[u.pos].to, u.sample.branch[u.pos].from>>
                                    ELSE <<u.sample.branch[u.pos].from>>
  OBVIOUS
<1>n. PICK next : next = [u EXCEPT !.pos = @ + 1]
  OBVIOUS
<1>t. PICK table : table = Table(u.isKernel)
  OBVIOUS
<1>1. u \in Unwinds /\ v \in Unwinds
  BY <1>u, <1>v DEF IInv, TypeInv
<1>2. u.phase = "branch" /\ u.pos <= Len(u.sample.branch)
  BY <1>u DEF Branch
<1>3. reportIps(ips, next)
  BY <1>u, <1>i, <1>n DEF Branch
<1>4. (e = d /\ y = x) \/ (e = d \cup {table} /\ y = TRUE)
  BY <1>u, <1>d, <1>e, <1>x, <1>y, <1>t, <1>3 DEF reportIps, CallTable
<1>5. ReadsBranches(u) /\ Counts(u, d, x)
  BY ONLY FInv, <1>u, <1>d, <1>x, <1>2, InChain
<1>6. /\ next \in Unwinds /\ SameRecord(next, u) /\ next.isKernel = u.isKernel
      /\ next.phase = "branch" /\ next.pos = u.pos + 1 /\ next.attempt = u.attempt
  <2>1. PICK p : p = u.pos + 1
    OBVIOUS
  <2>2. p \in Nat \ {0} /\ next = [u EXCEPT !.pos = p]
    <3>1. u.pos \in Nat \ {0}
      BY ONLY <1>1, UnwindTypes
    <3> QED
      BY ONLY <1>1, <1>n, <2>1, <3>1 DEF Unwinds
  <2> QED
    BY ONLY <1>1, <1>2, <2>1, <2>2 DEF Unwinds, SameRecord
<1>7. /\ ips \in Seq(Int)
      /\ ips = IF u.pos = 1 THEN <<u.sample.branch[1].to, u.sample.branch[1].from>>
                            ELSE <<u.sample.branch[u.pos].from>>
  <2>1. u.sample \in SampleRecords /\ u.pos \in Nat \ {0}
    BY ONLY <1>1, UnwindTypes
  <2>2. u.sample.branch \in Seq([from : Int, to : Int])
    BY ONLY <2>1, SampleTypes
  <2>3. u.sample.branch[u.pos].to \in Int /\ u.sample.branch[u.pos].from \in Int
    <3>1. u.pos \in 1 .. Len(u.sample.branch)
      BY ONLY <1>2, <2>1, <2>2
    <3>2. PICK b : b = u.sample.branch[u.pos]
      OBVIOUS
    <3>3. b \in [from : Int, to : Int]
      BY ONLY <2>2, <3>1, <3>2, ElementOf
    <3>4. b.to \in Int /\ b.from \in Int
      BY ONLY <3>3
    <3> QED
      BY ONLY <3>2, <3>4, Zenon
  <2>4. ips \in Seq(Int)
    BY ONLY <1>i, <2>3, OneOf, ReportedTwo, FALSE \in BOOLEAN
  <2> QED
    BY ONLY <1>i, <2>4, Zenon
<1>8. Reports(v, next, ips, u.isKernel, e)
  <2>1. Reports(ui', next, ips, ui.isKernel, dirty')
    BY ONLY IInv, <1>3, <1>6, <1>7, ReportIpsReports DEF IInv, TypeInv
  <2> QED
    BY ONLY <1>u, <1>v, <1>e, <2>1
<1>9. Records(v, e)
  BY ONLY <1>1, <1>2, <1>5, <1>6, <1>7, <1>8, BranchFollows, Zenon
<1>10. Counts(v, e, y)
  BY ONLY <1>4, <1>5, <1>6, <1>8, ReportsCounts, Zenon
<1> QED
  BY ONLY <1>v, <1>e, <1>y, <1>9, <1>10, RecordsKeeps

LEMMA IpsAreAddresses ==
  ASSUME NEW s \in SampleRecords, NEW kernel, NEW added, NEW entry \in Int
  PROVE  Ips(s, kernel, added, entry) \in Seq(Int)
<1>1. s.ip \in Int
  BY SampleTypes
<1>2. PICK first : first = IF ~added /\ ~kernel /\ entry # s.ip THEN <<s.ip>> ELSE <<>>
  OBVIOUS
<1>3. first \in Seq(Int)
  BY ONLY <1>1, <1>2, OneOf, NoneOf
<1>4. Append(first, entry) \in Seq(Int)
  BY ONLY <1>3, entry \in Int, AppendOf
<1>5. Ips(s, kernel, added, entry) = IF s.branch # <<>> /\ ~kernel THEN first ELSE Append(first, entry)
  BY ONLY <1>2, Zenon DEF Ips
<1> QED
  BY ONLY <1>3, <1>4, <1>5, Zenon

LEMMA AddressKeeps == IInv /\ FInv /\ IInv' /\ Address => Keeps
<1> SUFFICES ASSUME IInv, FInv, IInv', Address PROVE Keeps
  OBVIOUS
<1>u. PICK u : u = ui
  OBVIOUS
<1>v. PICK v : v = ui'
  OBVIOUS
<1>d. PICK d : d = dirty
  OBVIOUS
<1>e. PICK e : e = dirty'
  OBVIOUS
<1>x. PICK x : x = disturbed
  OBVIOUS
<1>y. PICK y : y = disturbed'
  OBVIOUS
<1>t. PICK table : table = Table(u.isKernel)
  OBVIOUS
<1>w. PICK entry : entry = u.sample.callchain[u.pos]
  OBVIOUS
<1>i. PICK ips : ips = Ips(u.sample, u.isKernel, u.addedUserFrames, entry)
  OBVIOUS
<1>a. PICK across : across = [u EXCEPT !.phase = "branch", !.pos = 1]
  OBVIOUS
<1>b. PICK along : along = [u EXCEPT !.pos = @ + 1, !.addedUserFrames = @ \/ ~u.isKernel]
  OBVIOUS
<1>n. PICK next : next = IF u.sample.branch # <<>> /\ ~u.isKernel THEN across ELSE along
  OBVIOUS
<1>1. u \in Unwinds /\ v \in Unwinds
  BY <1>u, <1>v DEF IInv, TypeInv
<1>2. u.phase = "callchain" /\ u.pos <= Len(u.sample.callchain) /\ entry <= ContextMax
  BY <1>u, <1>w DEF Address, InCallchain, Entry
<1>3. reportIps(ips, next) \/ (ips = <<>> /\ v = next /\ e = d /\ y = x)
  <2>1. PICK first : first = IF SkipsFirst THEN <<ui.sample.ip>> ELSE <<>>
    OBVIOUS
  <2>2. ips = IF u.sample.branch # <<>> /\ ~u.isKernel THEN first ELSE Append(first, entry)
    BY ONLY <1>u, <1>w, <1>i, <2>1, Zenon DEF Ips, SkipsFirst, Entry
  <2>3. IF u.sample.branch # <<>> /\ ~u.isKernel
        THEN IF first = <<>> THEN v = across /\ e = d /\ y = x ELSE reportIps(first, across)
        ELSE reportIps(Append(first, entry), along)
    BY ONLY Address, <1>u, <1>v, <1>d, <1>e, <1>x, <1>y, <1>w, <1>a, <1>b, <2>1
       DEF Address, Entry, HasBranchStack
  <2> QED
    BY ONLY <1>n, <2>2, <2>3, Zenon
<1>4. (e = d /\ y = x) \/ (e = d \cup {table} /\ y = TRUE)
  BY <1>u, <1>d, <1>e, <1>x, <1>y, <1>t, <1>3 DEF reportIps, CallTable
<1>5. ReadsChain(u) /\ Counts(u, d, x)
  BY ONLY FInv, <1>u, <1>d, <1>x, <1>2, InChain
<1>6. /\ across \in Unwinds /\ SameRecord(across, u) /\ across.isKernel = u.isKernel
      /\ across.phase = "branch" /\ across.pos = 1 /\ across.attempt = u.attempt
  <2>1. "branch" \in Phases /\ 1 \in Nat \ {0}
    BY DEF Phases
  <2>2. across \in Unwinds
    BY ONLY <1>1, <1>a, <2>1 DEF Unwinds
  <2> QED
    BY ONLY <1>1, <1>a, <2>2 DEF Unwinds, SameRecord
<1>7. /\ along \in Unwinds /\ SameRecord(along, u) /\ along.isKernel = u.isKernel
      /\ along.phase = "callchain" /\ along.pos = u.pos + 1 /\ along.attempt = u.attempt
      /\ along.addedUserFrames = (u.addedUserFrames \/ ~u.isKernel)
  <2>1. PICK p : p = u.pos + 1
    OBVIOUS
  <2>2. PICK added : added = (u.addedUserFrames \/ ~u.isKernel)
    OBVIOUS
  <2>3. p \in Nat \ {0} /\ added \in BOOLEAN
    BY ONLY <1>1, <2>1, <2>2, UnwindTypes
  <2>4. along = [u EXCEPT !.pos = p, !.addedUserFrames = added]
    BY ONLY <1>b, <2>1, <2>2, Zenon
  <2> QED
    BY ONLY <1>1, <1>2, <2>1, <2>2, <2>3, <2>4 DEF Unwinds, SameRecord
<1>8. /\ next \in Unwinds /\ SameRecord(next, u) /\ next.isKernel = u.isKernel
      /\ next.attempt = u.attempt
      /\ IF u.sample.branch # <<>> /\ ~u.isKernel
         THEN next.phase = "branch" /\ next.pos = 1
         ELSE /\ next.phase = "callchain" /\ next.pos = u.pos + 1
              /\ next.addedUserFrames = (u.addedUserFrames \/ ~u.isKernel)
  BY ONLY <1>n, <1>6, <1>7, Zenon
<1>9. ips \in Seq(Int)
  <2>1. u.sample \in SampleRecords /\ u.pos \in Nat \ {0}
    BY ONLY <1>1, UnwindTypes
  <2>2. u.sample.callchain \in Seq(Int)
    BY ONLY <2>1, SampleTypes
  <2>3. u.pos \in 1 .. Len(u.sample.callchain)
    BY ONLY <1>2, <2>1, <2>2
  <2>4. entry \in Int
    BY ONLY <1>w, <2>2, <2>3, ElementOf
  <2> QED
    BY ONLY <1>i, <2>1, <2>4, IpsAreAddresses, Zenon
<1>10. Reports(v, next, ips, u.isKernel, e) \/ (ips = <<>> /\ v = next /\ e = d /\ y = x)
  <2>1. CASE reportIps(ips, next)
    <3>1. Reports(ui', next, ips, ui.isKernel, dirty')
      BY ONLY IInv, <2>1, <1>8, <1>9, ReportIpsReports DEF IInv, TypeInv
    <3> QED
      BY ONLY <1>u, <1>v, <1>e, <3>1
  <2> QED
    BY ONLY <1>3, <2>1
<1>11. Records(v, e)
  <2>1. u.sample.callchain[u.pos] <= ContextMax
        /\ ips = Ips(u.sample, u.isKernel, u.addedUserFrames, u.sample.callchain[u.pos])
    BY ONLY <1>2, <1>w, <1>i, Zenon
  <2>2. Reports(v, next, ips, u.isKernel, e) \/ (ips = <<>> /\ v = next)
    BY ONLY <1>10, Zenon
  <2> QED
    BY ONLY <1>1, <1>2, <1>5, <1>8, <2>1, <2>2, AddressFollows, Zenon
<1>12. Counts(v, e, y)
  <2>1. CASE Reports(v, next, ips, u.isKernel, e)
    BY ONLY <1>4, <1>5, <1>8, <2>1, ReportsCounts, Zenon
  <2>2. CASE v = next /\ e = d /\ y = x
    BY ONLY <1>5, <1>8, <2>2, Zenon DEF Counts
  <2> QED
    BY ONLY <1>10, <2>1, <2>2, Zenon
<1> QED
  BY ONLY <1>v, <1>e, <1>y, <1>11, <1>12, RecordsKeeps

\* An empty stack of its own leaves the frames of the call chain.
LEMMA HasRecordedHasAll ==
  ASSUME NEW u, HasRecorded(u, {}), NEW v, v.sample = u.sample, v.frames = u.frames,
         NEW values, NEW a, ~(HasStack(u.sample) /\ a)
  PROVE  HasAll(v, values, a)
<1>1. v.frames = Recorded(v.sample)
  BY ONLY HasRecorded(u, {}), v.sample = u.sample, v.frames = u.frames, Zenon DEF HasRecorded
<1>2. ~(HasStack(v.sample) /\ a)
  BY ONLY ~(HasStack(u.sample) /\ a), v.sample = u.sample, Zenon
<1>3. AllFrames(v.sample, values, HasStack(v.sample) /\ a) = Recorded(v.sample)
  BY ONLY <1>2, AllFramesIs, Zenon
<1> QED
  BY ONLY <1>1, <1>2, <1>3, Zenon DEF HasAll

LEMMA BeginFollows ==
  ASSUME NEW u \in Unwinds, HasRecorded(u, {}), NEW v \in Unwinds, Begun(v, u, 1, <<>>),
         NEW values, values \in [DOMAIN values -> Int]
  PROVE  WalksStack(v, values, {})
<1>1. PICK s : s = u.sample
  OBVIOUS
<1>2. PICK f : f = u.frames
  OBVIOUS
<1>3. f \in Seq(Frames) /\ f = Recorded(s) /\ u.isInterworking \in BOOLEAN
  BY ONLY u \in Unwinds, HasRecorded(u, {}), <1>1, <1>2, UnwindTypes DEF HasRecorded
<1>4. u.isInterworking <=> f # <<>> /\ f[Len(f)].ip \in Veneers
  BY ONLY HasRecorded(u, {}), <1>2, <1>3 DEF HasRecorded, EndsAtVeneer
<1>5. u.isInterworking <=> FromVeneer(s)
  <2>1. Last(f) = f[Len(f)]
    BY DEF Last
  <2> QED
    BY ONLY <1>3, <1>4, <2>1, Zenon DEF FromVeneer
<1>6. /\ v.phase = "callback" /\ v.sample = s /\ v.frames = f /\ v.walk.number = 1
      /\ v.walk.activation = TRUE /\ v.walk.sp = v.sample.sp
      /\ v.isInterworking = u.isInterworking
      /\ v.walk.pc = IF u.isInterworking THEN s.lr ELSE s.pc
  BY ONLY Begun(v, u, 1, <<>>), <1>1, <1>2, Zenon DEF Begun
<1>7. Repeats(v, values, {})
  BY ONLY <1>3, <1>5, <1>6, Zenon DEF Repeats
<1>8. v.frames = BaseOf(v, values) /\ v.walk.pc = StartOf(v)
  BY ONLY <1>3, <1>5, <1>6, Zenon DEF BaseOf, StartOf
<1> QED
  BY ONLY v \in Unwinds, values \in [DOMAIN values -> Int], <1>6, <1>7, <1>8, BeginsFollows, Zenon

LEMMA UnwindStackKeeps == IInv /\ FInv /\ IInv' /\ unwindStack => Keeps
<1> SUFFICES ASSUME IInv, FInv, IInv', unwindStack PROVE Keeps
  OBVIOUS
<1>u. PICK u : u = ui
  OBVIOUS
<1>v. PICK v : v = ui'
  OBVIOUS
<1>a. PICK a : a = attached'
  OBVIOUS
<1>x. PICK x : x = disturbed
  OBVIOUS
<1>z. PICK values : values = Older(stackValues', ui'.sample)
  OBVIOUS
<1>1. u \in Unwinds /\ v \in Unwinds
  BY <1>u, <1>v DEF IInv, TypeInv
<1>2. /\ u.phase = "resolved" /\ HasStack(u.sample) /\ dirty = {} /\ dirty' = {} /\ disturbed' = x
      /\ v = IF a THEN BeginWalk(u, 1, <<>>) ELSE [u EXCEPT !.phase = "attempted"]
  BY <1>u, <1>v, <1>a, <1>x DEF unwindStack
<1>3. HasRecorded(u, {}) /\ Counts(u, {}, x)
  BY ONLY FInv, <1>u, <1>x, <1>2, InChain
<1>4. values \in [DOMAIN values -> Int]
  BY ONLY IInv', <1>z, OlderIsOne DEF IInv, TypeInv
<1>5. Follows(v, values, {}, a, x)
  <2>1. CASE a
    <3>1. Begun(v, u, 1, <<>>)
      BY ONLY <1>1, <1>2, <2>1, BeginWalkBegins, Zenon
    <3>2. WalksStack(v, values, {})
      BY ONLY <1>1, <1>3, <1>4, <3>1, BeginFollows, Zenon
    <3>3. v.phase = "callback" /\ HasStack(v.sample) /\ Counts(v, {}, x)
      BY ONLY <1>2, <1>3, <3>1, Zenon DEF Begun, Counts
    <3>4. {} \subseteq {"user"}
      OBVIOUS
    <3> QED
      BY ONLY <2>1, <3>2, <3>3, <3>4 DEF Follows
  <2>2. CASE ~a
    <3>1. /\ v.phase = "attempted" /\ v.sample = u.sample /\ v.frames = u.frames
          /\ v.attempt = u.attempt
      BY ONLY <1>1, <1>2, <2>2 DEF Unwinds
    <3>2. HasAll(v, values, a)
      BY ONLY <1>3, <2>2, <3>1, HasRecordedHasAll, Zenon
    <3>3. Counts(v, {}, x)
      BY ONLY <1>3, <3>1, Zenon DEF Counts
    <3> QED
      BY ONLY <3>1, <3>2, <3>3 DEF Follows
  <2> QED
    BY <2>1, <2>2
<1> QED
  BY ONLY <1>v, <1>a, <1>z, <1>2, <1>5, Zenon DEF Keeps

\* What dirty and disturbed may become when the table of the process is called.
MayCall(d, x, e, y) == (e = d /\ y = x) \/ (e = d \cup {"user"} /\ y = TRUE)

LEMMA MayCallIs ==
  ASSUME NEW d, NEW x, NEW e, NEW y, MayCall(d, x, e, y), d \subseteq {"user"}
  PROVE  (e = {} => d = {}) /\ e \subseteq {"user"}
BY DEF MayCall

LEMMA MayCallCounts ==
  ASSUME NEW u, NEW v, NEW d, NEW e, NEW x, NEW y, Counts(u, d, x), v.attempt = u.attempt,
         MayCall(d, x, e, y)
  PROVE  Counts(v, e, y)
BY ONLY CallTableCounts, Counts(u, d, x), v.attempt = u.attempt, MayCall(d, x, e, y), Zenon
   DEF MayCall

\* A walk may be uncertain of what it finds next, and is the same otherwise.
MayGuess(w, u) == w = u \/ w = Guess(u)

Continues(w, u) ==
  /\ w \in Unwinds /\ SameWalk(w, u) /\ w.attempt = u.attempt /\ HasVeneer(w)
  /\ w.walk = u.walk

LEMMA GuessContinues ==
  ASSUME NEW u \in Unwinds, HasVeneer(u), NEW w, MayGuess(w, u)
  PROVE  Continues(w, u) /\ (w = Guess(u) => Guessed(w))
<1>1. u.frames \in Seq(Frames) /\ Len(u.frames) \in Nat /\ Len(u.frames) \in Int
  BY UnwindTypes
<1>2. PICK n : n = Len(u.frames)
  OBVIOUS
<1>3. n \in Int /\ n # -1
  BY ONLY <1>1, <1>2
<1>4. CASE w = u
  <2>1. Continues(w, u)
    BY ONLY u \in Unwinds, HasVeneer(u), <1>4, Zenon DEF Continues, SameWalk
  <2>2. w = Guess(u) => Guessed(w)
    <3> SUFFICES ASSUME w = Guess(u) PROVE Guessed(w)
      OBVIOUS
    <3>1. w = [u EXCEPT !.firstGuessedFrame = n]
      BY <1>2 DEF Guess
    <3>2. w.firstGuessedFrame = n
      BY ONLY u \in Unwinds, <3>1 DEF Unwinds
    <3> QED
      BY ONLY <1>3, <3>2 DEF Guessed, None
  <2> QED
    BY ONLY <2>1, <2>2, Zenon
<1>5. CASE w = Guess(u)
  <2>1. w = [u EXCEPT !.firstGuessedFrame = n]
    BY ONLY <1>2, <1>5, Zenon DEF Guess
  <2>2. /\ w \in Unwinds /\ w.firstGuessedFrame = n /\ w.sample = u.sample /\ w.frames = u.frames
        /\ w.isInterworking = u.isInterworking /\ w.walk = u.walk /\ w.attempt = u.attempt
    BY ONLY u \in Unwinds, <1>3, <2>1 DEF Unwinds
  <2>3. Guessed(w)
    BY ONLY <1>3, <2>2 DEF Guessed, None
  <2>4. Continues(w, u)
    BY ONLY HasVeneer(u), <2>2, <2>3, Zenon DEF Continues, SameWalk, HasVeneer
  <2> QED
    BY ONLY <2>3, <2>4, Zenon
<1> QED
  BY ONLY MayGuess(w, u), <1>4, <1>5, Zenon DEF MayGuess

Kept(v, u, values, e, y) == Follows(v, values, e, TRUE, y) /\ v.sample = u.sample

LEMMA EndFollows ==
  ASSUME NEW u \in Unwinds, HasVeneer(u), HasStack(u.sample),
         NEW values, values \in [DOMAIN values -> Int], NEW d, WalksStack(u, values, d),
         d \subseteq {"user"}, NEW x, Counts(u, d, x), NEW e, NEW y, MayCall(d, x, e, y),
         e = {} => StopsWalk(u, values), NEW w, MayGuess(w, u), NEW v \in Unwinds, v = EndWalk(w)
  PROVE  Kept(v, u, values, e, y)
<1>1. Continues(w, u)
  BY ONLY u \in Unwinds, HasVeneer(u), MayGuess(w, u), GuessContinues, Zenon
<1>2. w \in Unwinds /\ SameWalk(w, u) /\ w.attempt = u.attempt /\ HasVeneer(w)
  BY ONLY <1>1, Zenon DEF Continues
<1>3. w.sample = u.sample /\ w.frames = u.frames
  BY ONLY <1>2, Zenon DEF SameWalk
<1>4. (e = {} => d = {}) /\ e \subseteq {"user"}
  BY ONLY d \subseteq {"user"}, MayCall(d, x, e, y), MayCallIs, Zenon
<1>5. Repeats(u, values, d) /\ Follow(u, BaseOf(u, values), TrailOf(u, values), LimitOf(u))
  BY ONLY WalksStack(u, values, d), Zenon DEF WalksStack
<1>6. /\ BaseOf(w, values) = BaseOf(u, values) /\ LimitOf(w) = LimitOf(u)
      /\ TrailOf(w, values) = TrailOf(u, values)
      /\ Repeats(w, values, e)
      /\ Follow(w, BaseOf(w, values), TrailOf(w, values), LimitOf(w))
  BY ONLY <1>2, <1>4, <1>5, SameWalkFollows, Zenon
<1>7. e = {} => StopsWalk(w, values)
  BY ONLY e = {} => StopsWalk(u, values), <1>3, <1>6, Zenon DEF StopsWalk, Stops
<1>8. Ended(v, values, e) /\ v.sample = w.sample /\ v.attempt = w.attempt
  BY ONLY HasStack(u.sample), values \in [DOMAIN values -> Int], v \in Unwinds, v = EndWalk(w),
          <1>2, <1>3, <1>6, <1>7, EndWalkFollows, Zenon
<1>9. v.sample = u.sample /\ v.attempt = u.attempt /\ HasStack(v.sample)
  BY ONLY HasStack(u.sample), <1>2, <1>3, <1>8, Zenon
<1>10. Counts(v, e, y)
  BY ONLY Counts(u, d, x), MayCall(d, x, e, y), <1>9, MayCallCounts, Zenon
<1>11. Follows(v, values, e, TRUE, y)
  BY ONLY <1>4, <1>8, <1>9, <1>10, EndedFollows, Zenon
<1> QED
  BY ONLY <1>9, <1>11, Zenon DEF Kept

Returned(v, w, value, sp) ==
  /\ v.phase = "callback" /\ v.sample = w.sample /\ v.attempt = w.attempt
  /\ v.frames = w.frames /\ v.isInterworking = w.isInterworking
  /\ v.firstGuessedFrame = w.firstGuessedFrame
  /\ v.walk = [number |-> w.walk.number, saved |-> w.walk.saved, activation |-> FALSE,
               pc |-> value, sp |-> sp]

LEMMA ReturnIs ==
  ASSUME NEW w \in Unwinds, NEW value, NEW v, v = Return(w, value),
         NEW sp, sp = w.walk.sp + Rule(w.walk.pc).size
  PROVE  Returned(v, w, value, sp)
<1>1. PICK walk : walk = [number |-> w.walk.number, saved |-> w.walk.saved, activation |-> FALSE,
                          pc |-> value, sp |-> sp]
  OBVIOUS
<1>2. v = [w EXCEPT !.phase = "callback", !.walk = walk]
  BY ONLY v = Return(w, value), sp = w.walk.sp + Rule(w.walk.pc).size, <1>1, Zenon DEF Return
<1>3. /\ v.phase = "callback" /\ v.sample = w.sample /\ v.attempt = w.attempt
      /\ v.frames = w.frames /\ v.isInterworking = w.isInterworking
      /\ v.firstGuessedFrame = w.firstGuessedFrame /\ v.walk = walk
  BY ONLY w \in Unwinds, <1>2 DEF Unwinds
<1> QED
  BY ONLY <1>1, <1>3, Zenon DEF Returned

LEMMA ReturnFollows ==
  ASSUME NEW u \in Unwinds, HasVeneer(u), HasStack(u.sample), u.phase = "read",
         NEW values, values \in [DOMAIN values -> Int], NEW d, WalksStack(u, values, d),
         d \subseteq {"user"}, NEW x, Counts(u, d, x), NEW e, NEW y, MayCall(d, x, e, y),
         NEW w, MayGuess(w, u), NEW value, NEW v \in Unwinds, v = Return(w, value),
         NEW older \in BOOLEAN, older => w = Guess(u),
         e = {} => NextPlace(u.sample, values, AtPlace(u)) = PlaceAt(value, AtPlace(u), older)
  PROVE  Kept(v, u, values, e, y)
<1>1. Continues(w, u) /\ (older => Guessed(w))
  BY ONLY u \in Unwinds, HasVeneer(u), MayGuess(w, u), older => w = Guess(u), GuessContinues, Zenon
<1>2. w \in Unwinds /\ SameWalk(w, u) /\ w.attempt = u.attempt /\ w.walk = u.walk
  BY ONLY <1>1, Zenon DEF Continues
<1>3. (e = {} => d = {}) /\ e \subseteq {"user"}
  BY ONLY d \subseteq {"user"}, MayCall(d, x, e, y), MayCallIs, Zenon
<1>4. PICK sp : sp = w.walk.sp + Rule(w.walk.pc).size
  OBVIOUS
<1>5. /\ v.phase = "callback" /\ v.sample = w.sample /\ v.attempt = w.attempt
      /\ v.frames = w.frames /\ v.isInterworking = w.isInterworking
      /\ v.firstGuessedFrame = w.firstGuessedFrame
      /\ v.walk = [number |-> w.walk.number, saved |-> w.walk.saved, activation |-> FALSE,
                   pc |-> value, sp |-> sp]
  <2>1. Returned(v, w, value, sp)
    BY ONLY v = Return(w, value), <1>2, <1>4, ReturnIs, Zenon
  <2> QED
    BY ONLY <2>1, Zenon DEF Returned
<1>6. /\ v.walk.number = w.walk.number /\ v.walk.saved = w.walk.saved
      /\ v.walk.activation = FALSE /\ v.walk.pc = value /\ v.walk.sp = sp
  BY ONLY <1>5
<1>7. SameWalk(v, u) /\ v.sample = u.sample /\ v.attempt = u.attempt
  BY ONLY <1>2, <1>5, <1>6, Zenon DEF SameWalk, Guessed
<1>8. PICK next : next = NextPlace(u.sample, values, AtPlace(u))
  OBVIOUS
<1>9. e = {} => /\ v.walk.pc = next.pc
                /\ v.walk.pc # 0 => v.walk.sp = next.sp /\ (next.older => Guessed(v))
  <2> SUFFICES ASSUME e = {}
               PROVE  v.walk.pc = next.pc /\ v.walk.sp = next.sp /\ (next.older => Guessed(v))
    OBVIOUS
  <2>1. next = PlaceAt(value, AtPlace(u), older)
    BY ONLY <1>8, e = {},
            e = {} => NextPlace(u.sample, values, AtPlace(u)) = PlaceAt(value, AtPlace(u), older)
  <2>2. AtPlace(u).pc = u.walk.pc /\ AtPlace(u).sp = u.walk.sp
    BY DEF AtPlace
  <2>3. next = [pc |-> value, sp |-> sp, older |-> older]
    BY ONLY <1>2, <1>4, <2>1, <2>2, Zenon DEF PlaceAt
  <2>4. next.pc = value /\ next.sp = sp /\ next.older = older
    BY ONLY <2>3
  <2> QED
    BY ONLY <1>1, <1>5, <1>6, <2>4, Zenon DEF Guessed
<1>10. WalksStack(v, values, e)
  <2>1. ~v.walk.activation
    BY ONLY <1>6
  <2> QED
    BY ONLY u \in Unwinds, v \in Unwinds, values \in [DOMAIN values -> Int],
            WalksStack(u, values, d), u.phase = "read", <1>3, <1>5, <1>7, <1>8, <1>9, <2>1,
            ReadReturns, Zenon
<1>11. Ended(v, values, e) /\ HasStack(v.sample)
  BY ONLY HasStack(u.sample), <1>5, <1>7, <1>10, Zenon DEF Ended
<1>12. Counts(v, e, y)
  BY ONLY Counts(u, d, x), MayCall(d, x, e, y), <1>7, MayCallCounts, Zenon
<1>13. Follows(v, values, e, TRUE, y)
  BY ONLY <1>3, <1>11, <1>12, EndedFollows, Zenon
<1> QED
  BY ONLY <1>7, <1>13, Zenon DEF Kept

\* Where a walk returns to, by the word that its rule names.
Finds(u, values, word, next) ==
  /\ u.walk.pc \notin DOMAIN Cfi => next = Nowhere
  /\ word >= MaxAddress => next = Nowhere
  /\ u.walk.pc \in DOMAIN Cfi /\ ~(word >= MaxAddress) =>
       /\ OnStack(u.sample, word) =>
            next = PlaceAt(u.sample.stack[word - u.sample.sp + 1], AtPlace(u), FALSE)
       /\ ~OnStack(u.sample, word) /\ word \in Kernel => next = Nowhere
       /\ ~OnStack(u.sample, word) /\ word \notin Kernel =>
            /\ word \in DOMAIN FileData => next = PlaceAt(FileData[word], AtPlace(u), FALSE)
            /\ word \notin DOMAIN FileData /\ word \in DOMAIN values =>
                 next = PlaceAt(values[word], AtPlace(u), TRUE)
            /\ word \notin DOMAIN FileData /\ word \notin DOMAIN values => next = Nowhere

LEMMA WalkFinds ==
  ASSUME NEW u, NEW values, NEW word, word = WordOf(u.walk.pc, u.walk.sp)
  PROVE  Finds(u, values, word, NextPlace(u.sample, values, AtPlace(u)))
<1>1. PICK place : place = AtPlace(u)
  OBVIOUS
<1>2. place.pc = u.walk.pc /\ place.sp = u.walk.sp
  BY ONLY <1>1 DEF AtPlace
<1>3. word = WordOf(place.pc, place.sp)
  BY ONLY word = WordOf(u.walk.pc, u.walk.sp), <1>2, Zenon
<1>4. PICK s : s = u.sample
  OBVIOUS
<1>5. PICK next : next = NextPlace(s, values, place)
  OBVIOUS
<1>6. /\ place.pc \notin DOMAIN Cfi => next = Nowhere
      /\ word >= MaxAddress => next = Nowhere
      /\ place.pc \in DOMAIN Cfi /\ ~(word >= MaxAddress) =>
           /\ OnStack(s, word) => next = PlaceAt(s.stack[word - s.sp + 1], place, FALSE)
           /\ ~OnStack(s, word) /\ word \in Kernel => next = Nowhere
           /\ ~OnStack(s, word) /\ word \notin Kernel =>
                /\ word \in DOMAIN FileData => next = PlaceAt(FileData[word], place, FALSE)
                /\ word \notin DOMAIN FileData /\ word \in DOMAIN values =>
                     next = PlaceAt(values[word], place, TRUE)
                /\ word \notin DOMAIN FileData /\ word \notin DOMAIN values => next = Nowhere
  BY ONLY <1>3, <1>5, NextPlaceIs
<1> QED
  BY ONLY <1>1, <1>2, <1>4, <1>5, <1>6, Zenon DEF Finds

\* The state of a walk.
AtWork(u, values, d, a, x) ==
  /\ u \in Unwinds /\ HasVeneer(u) /\ HasStack(u.sample) /\ a = TRUE
  /\ values \in [DOMAIN values -> Int]
  /\ d \subseteq {"user"} /\ Counts(u, d, x) /\ WalksStack(u, values, d)

LEMMA InWalk ==
  ASSUME IInv, FInv, NEW u, u = ui, NEW values, values = Older(stackValues, ui.sample),
         NEW d, d = dirty, NEW a, a = attached, NEW x, x = disturbed,
         u.phase \in {"callback", "read"}
  PROVE  AtWork(u, values, d, a, x)
<1>1. u \in Unwinds /\ HasVeneer(u)
  BY ONLY IInv, u = ui DEF IInv, TypeInv
<1>2. values \in [DOMAIN values -> Int]
  BY ONLY IInv, values = Older(stackValues, ui.sample), OlderIsOne DEF IInv, TypeInv
<1>3. Follows(u, values, d, a, x)
  BY ONLY FInv, u = ui, values = Older(stackValues, ui.sample), d = dirty, a = attached,
          x = disturbed, Zenon DEF FInv
<1>4. /\ HasStack(u.sample) /\ a /\ d \subseteq {"user"} /\ Counts(u, d, x)
      /\ WalksStack(u, values, d)
  BY ONLY <1>3, u.phase \in {"callback", "read"} DEF Follows
<1>5. a = TRUE
  BY ONLY IInv, a = attached, <1>4 DEF IInv, TypeInv
<1> QED
  BY ONLY <1>1, <1>2, <1>4, <1>5, Zenon DEF AtWork

LEMMA WalkKeeps ==
  ASSUME NEW v, v = ui', NEW e, e = dirty', NEW y, y = disturbed', attached' = TRUE,
         NEW values, values = Older(stackValues', ui'.sample), Follows(v, values, e, TRUE, y)
  PROVE  Keeps
BY ONLY v = ui', e = dirty', y = disturbed', attached' = TRUE,
        values = Older(stackValues', ui'.sample), Follows(v, values, e, TRUE, y), Zenon DEF Keeps

\* A walk that ends with what it has found, or with a table that is dirty.
LEMMA EndKeeps ==
  ASSUME IInv', NEW u, NEW v, v = ui', NEW values, values = Older(stackValues', u.sample),
         NEW d, NEW a, a = attached', NEW x, AtWork(u, values, d, a, x),
         NEW e, e = dirty', NEW y, y = disturbed', MayCall(d, x, e, y),
         e = {} => StopsWalk(u, values), NEW w, MayGuess(w, u), v = EndWalk(w)
  PROVE  Keeps
<1>1. v \in Unwinds
  BY ONLY IInv', v = ui' DEF IInv, TypeInv
<1>2. Kept(v, u, values, e, y)
  BY ONLY AtWork(u, values, d, a, x), MayCall(d, x, e, y), e = {} => StopsWalk(u, values),
          MayGuess(w, u), v = EndWalk(w), <1>1, EndFollows, Zenon DEF AtWork
<1>3. values = Older(stackValues', ui'.sample)
  BY ONLY v = ui', values = Older(stackValues', u.sample), <1>2, Zenon DEF Kept
<1>4. attached' = TRUE
  BY ONLY a = attached', AtWork(u, values, d, a, x), Zenon DEF AtWork
<1> QED
  BY ONLY v = ui', e = dirty', y = disturbed', <1>2, <1>3, <1>4, WalkKeeps, Zenon DEF Kept

LEMMA ReturnKeeps ==
  ASSUME IInv', NEW u, u.phase = "read", NEW v, v = ui',
         NEW values, values = Older(stackValues', u.sample),
         NEW d, NEW a, a = attached', NEW x, AtWork(u, values, d, a, x),
         NEW e, e = dirty', NEW y, y = disturbed', MayCall(d, x, e, y),
         NEW w, MayGuess(w, u), NEW value, v = Return(w, value),
         NEW older \in BOOLEAN, older => w = Guess(u),
         e = {} => NextPlace(u.sample, values, AtPlace(u)) = PlaceAt(value, AtPlace(u), older)
  PROVE  Keeps
<1>1. v \in Unwinds
  BY ONLY IInv', v = ui' DEF IInv, TypeInv
<1>2. Kept(v, u, values, e, y)
  <2>1. /\ u \in Unwinds /\ HasVeneer(u) /\ HasStack(u.sample)
        /\ values \in [DOMAIN values -> Int]
        /\ d \subseteq {"user"} /\ Counts(u, d, x) /\ WalksStack(u, values, d)
    BY ONLY AtWork(u, values, d, a, x), Zenon DEF AtWork
  <2> QED
    BY ONLY u.phase = "read", MayCall(d, x, e, y), MayGuess(w, u), v = Return(w, value),
            older \in BOOLEAN, older => w = Guess(u), <1>1, <2>1, ReturnFollows, Zenon,
            e = {} => NextPlace(u.sample, values, AtPlace(u)) = PlaceAt(value, AtPlace(u), older)
<1>3. values = Older(stackValues', ui'.sample)
  BY ONLY v = ui', values = Older(stackValues', u.sample), <1>2, Zenon DEF Kept
<1>4. attached' = TRUE
  BY ONLY a = attached', AtWork(u, values, d, a, x), Zenon DEF AtWork
<1> QED
  BY ONLY v = ui', e = dirty', y = disturbed', <1>2, <1>3, <1>4, WalkKeeps, Zenon DEF Kept

Adds(v, u, ip) ==
  v = [u EXCEPT !.phase = "read", !.frames = Append(@, Frame(ip, FALSE)),
                !.isInterworking = @ \/ (u.frames = <<>> /\ ip \in Veneers)]

\* The next frame, while the tables are clean.
LEMMA CallbackFollows ==
  ASSUME NEW u, u.phase = "callback", NEW values, NEW d, NEW a, NEW x,
         AtWork(u, values, d, a, x), NEW e, NEW y, MayCall(d, x, e, y), "user" \notin e,
         u.walk.pc # 0, ~(Len(u.frames) > MaxFrames),
         NEW ip, ip = u.walk.pc - (IF u.walk.activation THEN 0 ELSE 1),
         NEW v \in Unwinds, Adds(v, u, ip)
  PROVE  Kept(v, u, values, e, y)
<1>1. /\ u \in Unwinds /\ HasVeneer(u) /\ HasStack(u.sample)
      /\ values \in [DOMAIN values -> Int]
      /\ d \subseteq {"user"} /\ Counts(u, d, x) /\ WalksStack(u, values, d)
  BY ONLY AtWork(u, values, d, a, x), Zenon DEF AtWork
<1>2. (e = {} => d = {}) /\ e \subseteq {"user"}
  BY ONLY <1>1, MayCall(d, x, e, y), MayCallIs, Zenon
<1>3. e = {} /\ d = {}
  BY ONLY <1>2, "user" \notin e
<1>4. PICK f : f = Append(u.frames, Frame(ip, FALSE))
  OBVIOUS
<1>5. PICK veneer : veneer = (u.isInterworking \/ (u.frames = <<>> /\ ip \in Veneers))
  OBVIOUS
<1>6. v = [u EXCEPT !.phase = "read", !.frames = f, !.isInterworking = veneer]
  BY ONLY <1>1, <1>4, <1>5, Adds(v, u, ip) DEF Unwinds, Adds
<1>7. /\ v.phase = "read" /\ v.sample = u.sample /\ v.walk = u.walk /\ v.attempt = u.attempt
      /\ v.firstGuessedFrame = u.firstGuessedFrame /\ v.frames = f /\ v.isInterworking = veneer
  BY ONLY <1>1, <1>6 DEF Unwinds
<1>8. /\ v.frames = Append(u.frames, Frame(ip, FALSE))
      /\ v.isInterworking <=> u.isInterworking \/ (u.frames = <<>> /\ ip \in Veneers)
  BY ONLY <1>4, <1>5, <1>7
<1>9. WalksStack(v, values, {})
  <2>1. WalksStack(u, values, {})
    BY ONLY <1>1, <1>3, Zenon
  <2> QED
    BY ONLY u.phase = "callback", u.walk.pc # 0, ~(Len(u.frames) > MaxFrames), v \in Unwinds,
            ip = u.walk.pc - (IF u.walk.activation THEN 0 ELSE 1),
            <1>1, <1>7, <1>8, <2>1, CallbackAdds, Zenon
<1>10. Counts(v, e, y)
  BY ONLY <1>1, <1>7, MayCall(d, x, e, y), MayCallCounts, Zenon
<1>11. HasStack(v.sample) /\ WalksStack(v, values, e)
  BY ONLY <1>1, <1>3, <1>7, <1>9, Zenon
<1>12. Follows(v, values, e, TRUE, y)
  BY ONLY <1>2, <1>7, <1>10, <1>11 DEF Follows
<1> QED
  BY ONLY <1>7, <1>12, Zenon DEF Kept

LEMMA FrameCallbackKeeps == IInv /\ FInv /\ IInv' /\ frameCallback => Keeps
<1> SUFFICES ASSUME IInv, FInv, IInv', frameCallback PROVE Keeps
  OBVIOUS
<1>u. PICK u : u = ui
  OBVIOUS
<1>v. PICK v : v = ui'
  OBVIOUS
<1>d. PICK d : d = dirty
  OBVIOUS
<1>e. PICK e : e = dirty'
  OBVIOUS
<1>x. PICK x : x = disturbed
  OBVIOUS
<1>y. PICK y : y = disturbed'
  OBVIOUS
<1>a. PICK a : a = attached
  OBVIOUS
<1>z. PICK values : values = Older(stackValues, ui.sample)
  OBVIOUS
<1>1. u.phase = "callback" /\ a = attached' /\ values = Older(stackValues', u.sample)
  BY <1>u, <1>a, <1>z DEF frameCallback
<1>2. AtWork(u, values, d, a, x)
  BY ONLY IInv, FInv, <1>u, <1>d, <1>x, <1>a, <1>z, <1>1, InWalk
<1>3. CASE u.walk.pc = 0 \/ Len(u.frames) > MaxFrames
  <2>1. v = EndWalk(Guess(u)) /\ e = d /\ y = x
    BY <1>u, <1>v, <1>d, <1>e, <1>x, <1>y, <1>3 DEF frameCallback, NoFrame
  <2>2. e = {} => StopsWalk(u, values)
    BY ONLY <1>1, <1>2, <1>3, <2>1, CallbackStops, Zenon DEF AtWork
  <2>3. MayCall(d, x, e, y) /\ MayGuess(Guess(u), u)
    BY ONLY <2>1, Zenon DEF MayCall, MayGuess
  <2> QED
    BY ONLY IInv', <1>v, <1>e, <1>y, <1>1, <1>2, <2>1, <2>2, <2>3, EndKeeps, Zenon
<1>4. CASE ~(u.walk.pc = 0 \/ Len(u.frames) > MaxFrames)
  <2>0. PICK ip : ip = u.walk.pc - (IF u.walk.activation THEN 0 ELSE 1)
    OBVIOUS
  <2>1. /\ CallTable("user")
        /\ v = IF "user" \in e THEN EndWalk(u)
               ELSE [u EXCEPT !.phase = "read", !.frames = Append(@, Frame(ip, FALSE)),
                              !.isInterworking = @ \/ (u.frames = <<>> /\ ip \in Veneers)]
    BY ONLY frameCallback, <1>u, <1>v, <1>e, <1>4, <2>0 DEF frameCallback, NoFrame, Adjusted
  <2>2. MayCall(d, x, e, y)
    BY <1>d, <1>e, <1>x, <1>y, <2>1 DEF MayCall, CallTable
  <2>3. CASE "user" \in e
    <3>1. v = EndWalk(u) /\ MayGuess(u, u)
      BY ONLY <2>1, <2>3, Zenon DEF MayGuess
    <3>2. ~(e = {})
      BY ONLY <2>3
    <3> QED
      BY ONLY IInv', <1>v, <1>e, <1>y, <1>1, <1>2, <2>2, <3>1, <3>2, EndKeeps, Zenon
  <2>4. CASE "user" \notin e
    <3>1. v \in Unwinds
      BY ONLY IInv', <1>v DEF IInv, TypeInv
    <3>2. Adds(v, u, ip)
      BY ONLY <2>1, <2>4, Zenon DEF Adds
    <3>3. Kept(v, u, values, e, y)
      BY ONLY <1>1, <1>2, <1>4, <2>0, <2>2, <2>4, <3>1, <3>2, CallbackFollows, Zenon
    <3>4. values = Older(stackValues', ui'.sample)
      BY ONLY <1>v, <1>1, <3>3, Zenon DEF Kept
    <3>5. attached' = TRUE
      BY ONLY <1>1, <1>2, Zenon DEF AtWork
    <3> QED
      BY ONLY <1>v, <1>e, <1>y, <3>3, <3>4, <3>5, WalkKeeps, Zenon DEF Kept
  <2> QED
    BY <2>3, <2>4
<1> QED
  BY <1>3, <1>4

\* A walk whose next place is nowhere has found all.
LEMMA NowhereStops ==
  ASSUME NEW u, u.phase = "read", NEW values, NEW d, NEW a, NEW x, AtWork(u, values, d, a, x),
         NEW next, next = NextPlace(u.sample, values, AtPlace(u)), next = Nowhere
  PROVE  StopsWalk(u, values)
<1>1. next.pc = 0
  BY ONLY next = Nowhere DEF Nowhere
<1> QED
  BY ONLY u.phase = "read", AtWork(u, values, d, a, x),
          next = NextPlace(u.sample, values, AtPlace(u)), <1>1, ReadStops, Zenon DEF AtWork

\* The word that is asked for is a number, like the last one.
LEMMA AskedIs ==
  ASSUME NEW u \in Unwinds, u.walk.pc \in DOMAIN Cfi,
         NEW word, word = WordOf(u.walk.pc, u.walk.sp)
  PROVE  word < MaxAddress => ~(word >= MaxAddress)
<1>1. u.walk.sp \in Int
  BY UnwindTypes DEF Walks
<1>2. word \in Int
  BY ONLY u.walk.pc \in DOMAIN Cfi, word = WordOf(u.walk.pc, u.walk.sp), <1>1, WordIsOne
<1>3. MaxAddress \in Int
  BY UnwindingAssumption
<1> QED
  BY ONLY <1>2, <1>3

LEMMA NoRuleKeeps == IInv /\ FInv /\ IInv' /\ NoRule => Keeps
<1> SUFFICES ASSUME IInv, FInv, IInv', NoRule PROVE Keeps
  OBVIOUS
<1>u. PICK u : u = ui
  OBVIOUS
<1>v. PICK v : v = ui'
  OBVIOUS
<1>d. PICK d : d = dirty
  OBVIOUS
<1>e. PICK e : e = dirty'
  OBVIOUS
<1>x. PICK x : x = disturbed
  OBVIOUS
<1>y. PICK y : y = disturbed'
  OBVIOUS
<1>a. PICK a : a = attached
  OBVIOUS
<1>z. PICK values : values = Older(stackValues, ui.sample)
  OBVIOUS
<1>w. PICK word : word = WordOf(u.walk.pc, u.walk.sp)
  OBVIOUS
<1>n. PICK next : next = NextPlace(u.sample, values, AtPlace(u))
  OBVIOUS
<1>1. /\ u.phase = "read" /\ a = attached' /\ values = Older(stackValues', u.sample)
      /\ v = EndWalk(u) /\ e = d /\ y = x
  BY <1>u, <1>v, <1>d, <1>e, <1>x, <1>y, <1>a, <1>z DEF NoRule
<1>2. AtWork(u, values, d, a, x)
  BY ONLY IInv, FInv, <1>u, <1>d, <1>x, <1>a, <1>z, <1>1, InWalk
<1>3. Finds(u, values, word, next)
  BY ONLY <1>w, <1>n, WalkFinds, Zenon
<1>4. u.walk.pc \notin DOMAIN Cfi
  BY <1>u, <1>w DEF NoRule
<1>5. next = Nowhere
  BY ONLY <1>3, <1>4, Zenon DEF Finds
<1>6. StopsWalk(u, values)
  BY ONLY <1>n, <1>1, <1>2, <1>5, NowhereStops, Zenon
<1>7. MayCall(d, x, e, y) /\ MayGuess(u, u)
  BY ONLY <1>1, Zenon DEF MayCall, MayGuess
<1> QED
  BY ONLY IInv', <1>v, <1>e, <1>y, <1>1, <1>2, <1>6, <1>7, EndKeeps, Zenon

LEMMA ReadPastEndKeeps == IInv /\ FInv /\ IInv' /\ ReadPastEnd => Keeps
<1> SUFFICES ASSUME IInv, FInv, IInv', ReadPastEnd PROVE Keeps
  OBVIOUS
<1>u. PICK u : u = ui
  OBVIOUS
<1>v. PICK v : v = ui'
  OBVIOUS
<1>d. PICK d : d = dirty
  OBVIOUS
<1>e. PICK e : e = dirty'
  OBVIOUS
<1>x. PICK x : x = disturbed
  OBVIOUS
<1>y. PICK y : y = disturbed'
  OBVIOUS
<1>a. PICK a : a = attached
  OBVIOUS
<1>z. PICK values : values = Older(stackValues, ui.sample)
  OBVIOUS
<1>w. PICK word : word = WordOf(u.walk.pc, u.walk.sp)
  OBVIOUS
<1>n. PICK next : next = NextPlace(u.sample, values, AtPlace(u))
  OBVIOUS
<1>1. /\ u.phase = "read" /\ a = attached' /\ values = Older(stackValues', u.sample)
      /\ v = EndWalk(Guess(u)) /\ e = d /\ y = x
  BY <1>u, <1>v, <1>d, <1>e, <1>x, <1>y, <1>a, <1>z DEF ReadPastEnd, Asks, Asked
<1>2. AtWork(u, values, d, a, x)
  BY ONLY IInv, FInv, <1>u, <1>d, <1>x, <1>a, <1>z, <1>1, InWalk
<1>3. Finds(u, values, word, next)
  BY ONLY <1>w, <1>n, WalkFinds, Zenon
<1>4. word >= MaxAddress
  BY <1>u, <1>w DEF ReadPastEnd, Asks, Asked
<1>5. next = Nowhere
  BY ONLY <1>3, <1>4, Zenon DEF Finds
<1>6. StopsWalk(u, values)
  BY ONLY <1>n, <1>1, <1>2, <1>5, NowhereStops, Zenon
<1>7. MayCall(d, x, e, y) /\ MayGuess(Guess(u), u)
  BY ONLY <1>1, Zenon DEF MayCall, MayGuess
<1> QED
  BY ONLY IInv', <1>v, <1>e, <1>y, <1>1, <1>2, <1>6, <1>7, EndKeeps, Zenon

LEMMA ReadKernelKeeps == IInv /\ FInv /\ IInv' /\ ReadKernel => Keeps
<1> SUFFICES ASSUME IInv, FInv, IInv', ReadKernel PROVE Keeps
  OBVIOUS
<1>u. PICK u : u = ui
  OBVIOUS
<1>v. PICK v : v = ui'
  OBVIOUS
<1>d. PICK d : d = dirty
  OBVIOUS
<1>e. PICK e : e = dirty'
  OBVIOUS
<1>x. PICK x : x = disturbed
  OBVIOUS
<1>y. PICK y : y = disturbed'
  OBVIOUS
<1>a. PICK a : a = attached
  OBVIOUS
<1>z. PICK values : values = Older(stackValues, ui.sample)
  OBVIOUS
<1>w. PICK word : word = WordOf(u.walk.pc, u.walk.sp)
  OBVIOUS
<1>n. PICK next : next = NextPlace(u.sample, values, AtPlace(u))
  OBVIOUS
<1>1. /\ u.phase = "read" /\ a = attached' /\ values = Older(stackValues', u.sample)
      /\ v = EndWalk(u) /\ e = d /\ y = x
  BY <1>u, <1>v, <1>d, <1>e, <1>x, <1>y, <1>a, <1>z DEF ReadKernel, Elsewhere, Asks, Asked
<1>2. AtWork(u, values, d, a, x)
  BY ONLY IInv, FInv, <1>u, <1>d, <1>x, <1>a, <1>z, <1>1, InWalk
<1>3. Finds(u, values, word, next)
  BY ONLY <1>w, <1>n, WalkFinds, Zenon
<1>4. /\ u.walk.pc \in DOMAIN Cfi /\ word < MaxAddress /\ ~OnStack(u.sample, word)
      /\ word \in Kernel
  BY <1>u, <1>w DEF ReadKernel, Elsewhere, Asks, Asked
<1>5. next = Nowhere
  <2>1. ~(word >= MaxAddress)
    BY ONLY <1>2, <1>4, <1>w, AskedIs, Zenon DEF AtWork
  <2> QED
    BY ONLY <1>3, <1>4, <2>1, Zenon DEF Finds
<1>6. StopsWalk(u, values)
  BY ONLY <1>n, <1>1, <1>2, <1>5, NowhereStops, Zenon
<1>7. MayCall(d, x, e, y) /\ MayGuess(u, u)
  BY ONLY <1>1, Zenon DEF MayCall, MayGuess
<1> QED
  BY ONLY IInv', <1>v, <1>e, <1>y, <1>1, <1>2, <1>6, <1>7, EndKeeps, Zenon

LEMMA ReadStackKeeps == IInv /\ FInv /\ IInv' /\ ReadStack => Keeps
<1> SUFFICES ASSUME IInv, FInv, IInv', ReadStack PROVE Keeps
  OBVIOUS
<1>u. PICK u : u = ui
  OBVIOUS
<1>v. PICK v : v = ui'
  OBVIOUS
<1>d. PICK d : d = dirty
  OBVIOUS
<1>e. PICK e : e = dirty'
  OBVIOUS
<1>x. PICK x : x = disturbed
  OBVIOUS
<1>y. PICK y : y = disturbed'
  OBVIOUS
<1>a. PICK a : a = attached
  OBVIOUS
<1>z. PICK values : values = Older(stackValues, ui.sample)
  OBVIOUS
<1>w. PICK word : word = WordOf(u.walk.pc, u.walk.sp)
  OBVIOUS
<1>n. PICK next : next = NextPlace(u.sample, values, AtPlace(u))
  OBVIOUS
<1>c. PICK value : value = u.sample.stack[word - u.sample.sp + 1]
  OBVIOUS
<1>1. u.phase = "read" /\ a = attached' /\ v = Return(u, value) /\ e = d /\ y = x
  BY <1>u, <1>v, <1>d, <1>e, <1>x, <1>y, <1>a, <1>w, <1>c DEF ReadStack, Asks, Asked
<1>2. AtWork(u, values, d, a, x)
  BY ONLY IInv, FInv, <1>u, <1>d, <1>x, <1>a, <1>z, <1>1, InWalk
<1>3. Finds(u, values, word, next)
  BY ONLY <1>w, <1>n, WalkFinds, Zenon
<1>4. u.walk.pc \in DOMAIN Cfi /\ word < MaxAddress /\ OnStack(u.sample, word)
  BY <1>u, <1>w DEF ReadStack, Asks, Asked
<1>5. values = Older(stackValues', u.sample)
  <2>1. PICK old : old = stackValues
    OBVIOUS
  <2>2. PICK new : new = stackValues'
    OBVIOUS
  <2>3. new = [b \in DOMAIN old \cup {word} |-> IF b = word THEN value ELSE old[b]]
    BY <1>u, <1>w, <1>c, <2>1, <2>2 DEF ReadStack, Asked
  <2>4. Older(new, u.sample) = Older(old, u.sample)
    BY ONLY <1>4, <2>3, OlderStays
  <2> QED
    BY ONLY <1>u, <1>z, <2>1, <2>2, <2>4, Zenon
<1>6. next = PlaceAt(value, AtPlace(u), FALSE)
  <2>1. ~(word >= MaxAddress)
    BY ONLY <1>2, <1>4, <1>w, AskedIs, Zenon DEF AtWork
  <2> QED
    BY ONLY <1>c, <1>3, <1>4, <2>1, Zenon DEF Finds
<1>7. /\ MayCall(d, x, e, y) /\ MayGuess(u, u) /\ FALSE \in BOOLEAN
      /\ NextPlace(u.sample, values, AtPlace(u)) = PlaceAt(value, AtPlace(u), FALSE)
  BY ONLY <1>n, <1>1, <1>6, Zenon DEF MayCall, MayGuess
<1> QED
  BY ONLY IInv', <1>v, <1>e, <1>y, <1>1, <1>2, <1>5, <1>7, ReturnKeeps, Zenon

LEMMA ReadFileKeeps == IInv /\ FInv /\ IInv' /\ ReadFile => Keeps
<1> SUFFICES ASSUME IInv, FInv, IInv', ReadFile PROVE Keeps
  OBVIOUS
<1>u. PICK u : u = ui
  OBVIOUS
<1>v. PICK v : v = ui'
  OBVIOUS
<1>d. PICK d : d = dirty
  OBVIOUS
<1>e. PICK e : e = dirty'
  OBVIOUS
<1>x. PICK x : x = disturbed
  OBVIOUS
<1>y. PICK y : y = disturbed'
  OBVIOUS
<1>a. PICK a : a = attached
  OBVIOUS
<1>z. PICK values : values = Older(stackValues, ui.sample)
  OBVIOUS
<1>w. PICK word : word = WordOf(u.walk.pc, u.walk.sp)
  OBVIOUS
<1>n. PICK next : next = NextPlace(u.sample, values, AtPlace(u))
  OBVIOUS
<1>1. /\ u.phase = "read" /\ a = attached' /\ values = Older(stackValues', u.sample)
      /\ v = Return(u, FileData[word]) /\ e = d /\ y = x
  BY <1>u, <1>v, <1>d, <1>e, <1>x, <1>y, <1>a, <1>z, <1>w DEF ReadFile, Elsewhere, Asks, Asked
<1>2. AtWork(u, values, d, a, x)
  BY ONLY IInv, FInv, <1>u, <1>d, <1>x, <1>a, <1>z, <1>1, InWalk
<1>3. Finds(u, values, word, next)
  BY ONLY <1>w, <1>n, WalkFinds, Zenon
<1>4. /\ u.walk.pc \in DOMAIN Cfi /\ word < MaxAddress /\ ~OnStack(u.sample, word)
      /\ word \notin Kernel /\ word \in DOMAIN FileData
  BY <1>u, <1>w DEF ReadFile, Elsewhere, Asks, Asked
<1>5. next = PlaceAt(FileData[word], AtPlace(u), FALSE)
  <2>1. ~(word >= MaxAddress)
    BY ONLY <1>2, <1>4, <1>w, AskedIs, Zenon DEF AtWork
  <2> QED
    BY ONLY <1>3, <1>4, <2>1, Zenon DEF Finds
<1>6. /\ MayCall(d, x, e, y) /\ MayGuess(u, u) /\ FALSE \in BOOLEAN
      /\ NextPlace(u.sample, values, AtPlace(u)) = PlaceAt(FileData[word], AtPlace(u), FALSE)
  BY ONLY <1>n, <1>1, <1>5, Zenon DEF MayCall, MayGuess
<1> QED
  BY ONLY IInv', <1>v, <1>e, <1>y, <1>1, <1>2, <1>6, ReturnKeeps, Zenon

LEMMA ReadOlderKeeps == IInv /\ FInv /\ IInv' /\ ReadOlder => Keeps
<1> SUFFICES ASSUME IInv, FInv, IInv', ReadOlder PROVE Keeps
  OBVIOUS
<1>u. PICK u : u = ui
  OBVIOUS
<1>v. PICK v : v = ui'
  OBVIOUS
<1>d. PICK d : d = dirty
  OBVIOUS
<1>e. PICK e : e = dirty'
  OBVIOUS
<1>x. PICK x : x = disturbed
  OBVIOUS
<1>y. PICK y : y = disturbed'
  OBVIOUS
<1>a. PICK a : a = attached
  OBVIOUS
<1>z. PICK values : values = Older(stackValues, ui.sample)
  OBVIOUS
<1>w. PICK word : word = WordOf(u.walk.pc, u.walk.sp)
  OBVIOUS
<1>n. PICK next : next = NextPlace(u.sample, values, AtPlace(u))
  OBVIOUS
<1>o. PICK old : old = stackValues
  OBVIOUS
<1>1. /\ u.phase = "read" /\ a = attached' /\ values = Older(stackValues', u.sample)
      /\ v = IF word \in DOMAIN old THEN Return(Guess(u), old[word]) ELSE EndWalk(Guess(u))
  BY <1>u, <1>v, <1>a, <1>z, <1>w, <1>o DEF ReadOlder, Elsewhere, Asks, Asked
<1>2. AtWork(u, values, d, a, x)
  BY ONLY IInv, FInv, <1>u, <1>d, <1>x, <1>a, <1>z, <1>1, InWalk
<1>3. Finds(u, values, word, next)
  BY ONLY <1>w, <1>n, WalkFinds, Zenon
<1>4. /\ u.walk.pc \in DOMAIN Cfi /\ word < MaxAddress /\ ~OnStack(u.sample, word)
      /\ word \notin Kernel /\ (word \in DOMAIN FileData => "user" \in e)
  BY <1>u, <1>e, <1>w DEF ReadOlder, Elsewhere, Asks, Asked
<1>5. MayCall(d, x, e, y) /\ MayGuess(Guess(u), u) /\ TRUE \in BOOLEAN
  <2>1. MayCall(d, x, e, y)
    BY <1>d, <1>e, <1>x, <1>y DEF ReadOlder, MayCall, CallTable
  <2> QED
    BY ONLY <2>1, Zenon DEF MayGuess
<1>6. ~(word >= MaxAddress)
  BY ONLY <1>2, <1>4, <1>w, AskedIs, Zenon DEF AtWork
<1>7. e = {} => word \notin DOMAIN FileData
  BY ONLY <1>4
<1>8. /\ word \in DOMAIN values <=> word \in DOMAIN old
      /\ word \in DOMAIN old => values[word] = old[word]
  <2>1. values = Older(old, u.sample)
    BY ONLY <1>u, <1>z, <1>o, Zenon
  <2> QED
    BY ONLY <1>4, <2>1 DEF Older
<1>9. CASE word \in DOMAIN old
  <2>1. v = Return(Guess(u), old[word])
    BY ONLY <1>1, <1>9, Zenon
  <2>2. e = {} => NextPlace(u.sample, values, AtPlace(u)) = PlaceAt(old[word], AtPlace(u), TRUE)
    BY ONLY <1>n, <1>3, <1>4, <1>6, <1>7, <1>8, <1>9, Zenon DEF Finds
  <2> QED
    BY ONLY IInv', <1>v, <1>e, <1>y, <1>1, <1>2, <1>5, <2>1, <2>2, ReturnKeeps, Zenon
<1>10. CASE word \notin DOMAIN old
  <2>1. v = EndWalk(Guess(u))
    BY ONLY <1>1, <1>10, Zenon
  <2>2. e = {} => next = Nowhere
    BY ONLY <1>3, <1>4, <1>6, <1>7, <1>8, <1>10, Zenon DEF Finds
  <2>3. e = {} => StopsWalk(u, values)
    BY ONLY <1>n, <1>1, <1>2, <2>2, NowhereStops, Zenon
  <2> QED
    BY ONLY IInv', <1>v, <1>e, <1>y, <1>1, <1>2, <1>5, <2>1, <2>3, EndKeeps, Zenon
<1> QED
  BY <1>9, <1>10

LEMMA AnalyzeKeeps == IInv /\ FInv /\ IInv' /\ (\E s \in Samples : analyze(s)) => Keeps
<1> SUFFICES ASSUME IInv, FInv, IInv', NEW s \in Samples, analyze(s) PROVE Keeps
  OBVIOUS
<1>1. ui' = NewUnwind(s, 1) /\ disturbed' = FALSE
  BY DEF analyze
<1>2. s \in SampleRecords /\ 1 \in 1 .. 2 /\ ~(1 = 2)
  BY UnwindingAssumption
<1>3. \A values, d, a : Follows(NewUnwind(s, 1), values, d, a, FALSE)
  BY ONLY <1>2, AnalyzeFollows, Zenon
<1> QED
  BY ONLY <1>1, <1>3, Zenon DEF Keeps

LEMMA RetryKeeps == IInv /\ FInv /\ IInv' /\ Retry => Keeps
<1> SUFFICES ASSUME IInv, FInv, IInv', Retry PROVE Keeps
  OBVIOUS
<1>1. PICK s : s = ui.sample
  OBVIOUS
<1>2. ui' = NewUnwind(s, 2) /\ dirty' = {} /\ disturbed' = FALSE
  BY <1>1 DEF Retry
<1>3. s \in SampleRecords /\ 2 \in 1 .. 2
  BY <1>1, UnwindTypes DEF IInv, TypeInv
<1>4. \A values, a : Follows(NewUnwind(s, 2), values, {}, a, FALSE)
  BY ONLY <1>3, AnalyzeFollows, Zenon
<1> QED
  BY ONLY <1>2, <1>4, Zenon DEF Keeps

\* What an attempt has found when it is over.
Found(u, values, d, a) ==
  IF d = {} THEN HasAll(u, values, a) ELSE PartOfFrames(u.frames, u.sample, values)

LEMMA HasRecordedFound ==
  ASSUME NEW u \in Unwinds, NEW values, NEW d, NEW a, HasRecorded(u, d),
         d # {} \/ ~HasStack(u.sample)
  PROVE  Found(u, values, d, a)
<1>1. CASE d = {}
  <2>1. HasRecorded(u, {}) /\ ~(HasStack(u.sample) /\ a)
    BY ONLY HasRecorded(u, d), d # {} \/ ~HasStack(u.sample), <1>1, Zenon
  <2>2. HasAll(u, values, a)
    BY ONLY <2>1, HasRecordedHasAll, Zenon
  <2> QED
    BY ONLY <1>1, <2>2, Zenon DEF Found
<1>2. CASE d # {}
  <2>1. u.sample \in SampleRecords /\ u.frames \in Seq(Frames)
    BY UnwindTypes
  <2>2. Recorded(u.sample) \in Seq(Frames)
    BY ONLY <2>1, RecordedAreFrames, Zenon
  <2>3. Begins(u.frames, Recorded(u.sample))
    BY ONLY HasRecorded(u, d), Zenon DEF HasRecorded
  <2>4. IsPrefix(u.frames, Recorded(u.sample))
    BY ONLY <2>1, <2>2, <2>3, BeginsIsPrefix, Zenon
  <2> QED
    BY ONLY <1>2, <2>4, Zenon DEF Found, PartOfFrames
<1> QED
  BY <1>1, <1>2

LEMMA FinishFollows ==
  ASSUME NEW u \in Unwinds, NEW values, NEW d, NEW a, NEW x, Found(u, values, d, a),
         Counts(u, d, x), d = {} \/ u.attempt = 2, NEW v,
         v = [u EXCEPT !.phase = IF u.frames = <<>> THEN "ip" ELSE "send"]
  PROVE  Follows(v, values, {}, a, x) /\ v.sample = u.sample
<1>1. /\ v.sample = u.sample /\ v.frames = u.frames /\ v.firstGuessedFrame = u.firstGuessedFrame
      /\ v.phase = IF u.frames = <<>> THEN "ip" ELSE "send"
  BY ONLY u \in Unwinds, v = [u EXCEPT !.phase = IF u.frames = <<>> THEN "ip" ELSE "send"]
     DEF Unwinds
<1>2. (x => d # {}) /\ (d # {} => x)
  BY ONLY Counts(u, d, x), d = {} \/ u.attempt = 2, Zenon DEF Counts
<1>3. ~x => HasAll(v, values, a)
  BY ONLY Found(u, values, d, a), <1>1, <1>2, Zenon DEF Found, HasAll, GuessesAt, Guessed
<1>4. x => PartOfFrames(v.frames, v.sample, values)
  BY ONLY Found(u, values, d, a), <1>1, <1>2, Zenon DEF Found
<1>5. CASE u.frames = <<>>
  <2>1. v.phase = "ip" /\ v.frames = <<>>
    BY ONLY <1>1, <1>5, Zenon
  <2>2. Follows(v, values, {}, a, x)
    BY ONLY <1>3, <2>1 DEF Follows
  <2> QED
    BY ONLY <1>1, <2>2, Zenon
<1>6. CASE u.frames # <<>>
  <2>1. v.phase = "send" /\ v.frames # <<>>
    BY ONLY <1>1, <1>6, Zenon
  <2>2. PICK all : all = AllFrames(v.sample, values, HasStack(v.sample) /\ a)
    OBVIOUS
  <2>3. ~x => Sends(v, all, values, a)
    BY ONLY <1>3, <2>1, <2>2, Zenon DEF HasAll, Sends
  <2>4. Follows(v, values, {}, a, x)
    BY ONLY <1>4, <2>1, <2>2, <2>3 DEF Follows
  <2> QED
    BY ONLY <1>1, <2>4, Zenon
<1> QED
  BY <1>5, <1>6

LEMMA FinishKeeps == IInv /\ FInv /\ IInv' /\ Finish => Keeps
<1> SUFFICES ASSUME IInv, FInv, IInv', Finish PROVE Keeps
  OBVIOUS
<1>u. PICK u : u = ui
  OBVIOUS
<1>v. PICK v : v = ui'
  OBVIOUS
<1>d. PICK d : d = dirty
  OBVIOUS
<1>x. PICK x : x = disturbed
  OBVIOUS
<1>a. PICK a : a = attached
  OBVIOUS
<1>z. PICK values : values = Older(stackValues, ui.sample)
  OBVIOUS
<1>1. u \in Unwinds
  BY <1>u DEF IInv, TypeInv
<1>2. /\ u.phase = "attempted" \/ (u.phase = "resolved" /\ (d # {} \/ ~HasStack(u.sample)))
      /\ d = {} \/ u.attempt = 2
      /\ v = [u EXCEPT !.phase = IF u.frames = <<>> THEN "ip" ELSE "send"]
      /\ dirty' = {} /\ a = attached' /\ x = disturbed' /\ stackValues' = stackValues
  BY <1>u, <1>v, <1>d, <1>x, <1>a DEF Finish, Attempted
<1>3. Follows(u, values, d, a, x)
  BY ONLY FInv, <1>u, <1>d, <1>x, <1>a, <1>z, Zenon DEF FInv
<1>4. Counts(u, d, x) /\ Found(u, values, d, a)
  <2>1. CASE u.phase = "attempted"
    BY ONLY <1>3, <2>1 DEF Follows, Found
  <2>2. CASE u.phase = "resolved" /\ (d # {} \/ ~HasStack(u.sample))
    <3>1. HasRecorded(u, d) /\ Counts(u, d, x)
      BY ONLY <1>3, <2>2 DEF Follows
    <3> QED
      BY ONLY <1>1, <2>2, <3>1, HasRecordedFound, Zenon
  <2> QED
    BY ONLY <1>2, <2>1, <2>2, Zenon
<1>5. Follows(v, values, {}, a, x) /\ v.sample = u.sample
  BY ONLY <1>1, <1>2, <1>4, FinishFollows
<1>6. values = Older(stackValues', ui'.sample)
  BY ONLY <1>u, <1>v, <1>z, <1>2, <1>5, Zenon
<1> QED
  BY ONLY <1>v, <1>2, <1>5, <1>6, Zenon DEF Keeps

LEMMA LookupIpKeeps == IInv /\ FInv /\ IInv' /\ LookupIp => Keeps
<1> SUFFICES ASSUME IInv, FInv, IInv', LookupIp PROVE Keeps
  OBVIOUS
<1>u. PICK u : u = ui
  OBVIOUS
<1>v. PICK v : v = ui'
  OBVIOUS
<1>d. PICK d : d = dirty
  OBVIOUS
<1>e. PICK e : e = dirty'
  OBVIOUS
<1>x. PICK x : x = disturbed
  OBVIOUS
<1>y. PICK y : y = disturbed'
  OBVIOUS
<1>a. PICK a : a = attached
  OBVIOUS
<1>z. PICK values : values = Older(stackValues, ui.sample)
  OBVIOUS
<1>o. PICK only : only = Only(u.sample)
  OBVIOUS
<1>1. u \in Unwinds
  BY <1>u DEF IInv, TypeInv
<1>2. /\ u.phase = "ip" /\ u.frames = <<>>
      /\ v = [u EXCEPT !.phase = "send", !.frames = only]
      /\ a = attached' /\ stackValues' = stackValues
  BY <1>u, <1>v, <1>a, <1>o DEF LookupIp, Only
<1>3. ~y => ~x
  BY <1>x, <1>y DEF LookupIp, CallTable
<1>4. Follows(u, values, d, a, x)
  BY ONLY FInv, <1>u, <1>d, <1>x, <1>a, <1>z, Zenon DEF FInv
<1>5. ~y => HasAll(u, values, a)
  BY ONLY <1>2, <1>3, <1>4 DEF Follows
<1>6. /\ v.phase = "send" /\ v.sample = u.sample /\ v.frames = only
      /\ v.firstGuessedFrame = u.firstGuessedFrame
  BY ONLY <1>1, <1>2 DEF Unwinds
<1>7. PICK all : all = AllFrames(v.sample, values, HasStack(v.sample) /\ a)
  OBVIOUS
<1>8. v.frames = Only(v.sample)
  BY ONLY <1>o, <1>6, Zenon
<1>9. ~y => Sends(v, all, values, a)
  BY ONLY <1>2, <1>5, <1>6, <1>7, <1>8, Zenon DEF HasAll, Sends, GuessesAt, Guessed
<1>10. Follows(v, values, e, a, y)
  BY ONLY <1>6, <1>7, <1>8, <1>9 DEF Follows
<1>11. values = Older(stackValues', ui'.sample)
  BY ONLY <1>u, <1>v, <1>z, <1>2, <1>6, Zenon
<1> QED
  BY ONLY <1>v, <1>e, <1>y, <1>2, <1>10, <1>11, Zenon DEF Keeps

LEMMA IdleFollows == \A values, d, a, x : Follows(Idle, values, d, a, x)
<1>1. Idle.phase = "idle"
  BY DEF Idle, NewUnwind
<1> QED
  BY ONLY <1>1 DEF Follows

LEMMA SendKeeps == IInv /\ FInv /\ IInv' /\ Send => Keeps
<1> SUFFICES ASSUME Send PROVE Keeps
  OBVIOUS
<1>1. ui' = Idle
  BY DEF Send
<1> QED
  BY ONLY <1>1, IdleFollows, Zenon DEF Keeps

LEMMA InitFInv == Init => FInv
BY IdleFollows, Zenon DEF Init, FInv

LEMMA NextFInv == IInv /\ FInv /\ [Next]_vars => FInv'
<1> SUFFICES ASSUME IInv, FInv, [Next]_vars PROVE FInv'
  OBVIOUS
<1>i. IInv'
  BY NextInv
<1>1. CASE \E s \in Samples : analyze(s)
  BY ONLY IInv, FInv, <1>i, <1>1, AnalyzeKeeps, KeepsFInv
<1>2. CASE Context
  BY ONLY IInv, FInv, <1>i, <1>2, ContextKeeps, KeepsFInv
<1>3. CASE Address
  BY ONLY IInv, FInv, <1>i, <1>3, AddressKeeps, KeepsFInv
<1>4. CASE CallchainEnds
  BY ONLY IInv, FInv, <1>i, <1>4, CallchainEndsKeeps, KeepsFInv
<1>5. CASE Branch
  BY ONLY IInv, FInv, <1>i, <1>5, BranchKeeps, KeepsFInv
<1>6. CASE BranchEnds
  BY ONLY IInv, FInv, <1>i, <1>6, BranchEndsKeeps, KeepsFInv
<1>7. CASE unwindStack
  BY ONLY IInv, FInv, <1>i, <1>7, UnwindStackKeeps, KeepsFInv
<1>8. CASE frameCallback
  BY ONLY IInv, FInv, <1>i, <1>8, FrameCallbackKeeps, KeepsFInv
<1>9. CASE NoRule
  BY ONLY IInv, FInv, <1>i, <1>9, NoRuleKeeps, KeepsFInv
<1>10. CASE ReadPastEnd
  BY ONLY IInv, FInv, <1>i, <1>10, ReadPastEndKeeps, KeepsFInv
<1>11. CASE ReadStack
  BY ONLY IInv, FInv, <1>i, <1>11, ReadStackKeeps, KeepsFInv
<1>12. CASE ReadKernel
  BY ONLY IInv, FInv, <1>i, <1>12, ReadKernelKeeps, KeepsFInv
<1>13. CASE ReadFile
  BY ONLY IInv, FInv, <1>i, <1>13, ReadFileKeeps, KeepsFInv
<1>14. CASE ReadOlder
  BY ONLY IInv, FInv, <1>i, <1>14, ReadOlderKeeps, KeepsFInv
<1>15. CASE Retry
  BY ONLY IInv, FInv, <1>i, <1>15, RetryKeeps, KeepsFInv
<1>16. CASE Finish
  BY ONLY IInv, FInv, <1>i, <1>16, FinishKeeps, KeepsFInv
<1>17. CASE LookupIp
  BY ONLY IInv, FInv, <1>i, <1>17, LookupIpKeeps, KeepsFInv
<1>18. CASE Send
  BY ONLY IInv, FInv, <1>i, <1>18, SendKeeps, KeepsFInv
<1>19. CASE UNCHANGED vars
  BY ONLY FInv, <1>19 DEF vars, FInv
<1> QED
  BY ONLY [Next]_vars, <1>1, <1>2, <1>3, <1>4, <1>5, <1>6, <1>7, <1>8, <1>9, <1>10, <1>11, <1>12,
          <1>13, <1>14, <1>15, <1>16, <1>17, <1>18, <1>19, Zenon DEF Next

\* Before a sample is sent, it has all its frames, or a table became dirty twice.
LEMMA AtSend ==
  ASSUME FInv, NEW u, u = ui, u.phase = "send", NEW values, values = OlderValues(ui.sample),
         NEW a, a = attached, NEW x, x = disturbed
  PROVE  IF x THEN u.frames = Only(u.sample) \/ PartOfFrames(u.frames, u.sample, values)
         ELSE Sends(u, AllFrames(u.sample, values, HasStack(u.sample) /\ a), values, a)
<1>1. PICK d : d = dirty
  OBVIOUS
<1>2. values = Older(stackValues, ui.sample)
  BY ONLY values = OlderValues(ui.sample), Zenon DEF OlderValues, Older
<1>3. Follows(u, values, d, a, x)
  BY ONLY FInv, u = ui, a = attached, x = disturbed, <1>1, <1>2, Zenon DEF FInv
<1> QED
  BY ONLY u.phase = "send", <1>3 DEF Follows

(***************************************************************************)
(* PerfUnwind::analyze sends, for every sample, exactly the frames that    *)
(* the call chain, the branch stack and the copy of the stack determine:   *)
(* no frame of the first attempt is left in the second one, and a second   *)
(* walk from LR is taken only if it is no shorter; if a table gets dirty   *)
(* in both attempts, the frames are the beginning of these.                *)
(***************************************************************************)
THEOREM FramesAlwaysFollowSample == Spec => []FramesFollowSample
<1>1. FInv => FramesFollowSample
  <2> SUFFICES ASSUME FInv, ui.phase = "send" PROVE FramesFollowSample
    BY DEF FramesFollowSample
  <2>1. PICK u : u = ui
    OBVIOUS
  <2>2. PICK values : values = OlderValues(ui.sample)
    OBVIOUS
  <2>3. PICK a : a = attached
    OBVIOUS
  <2>4. PICK x : x = disturbed
    OBVIOUS
  <2>5. IF x THEN u.frames = Only(u.sample) \/ PartOfFrames(u.frames, u.sample, values)
        ELSE Sends(u, AllFrames(u.sample, values, HasStack(u.sample) /\ a), values, a)
    BY ONLY FInv, ui.phase = "send", <2>1, <2>2, <2>3, <2>4, AtSend
  <2> QED
    BY ONLY <2>1, <2>2, <2>3, <2>4, <2>5, Zenon DEF FramesFollowSample, Only, Sends
<1>2. Init => IInv /\ FInv
  BY InitInv, InitFInv
<1>3. IInv /\ FInv /\ [Next]_vars => IInv' /\ FInv'
  BY NextInv, NextFInv
<1> QED
  BY <1>1, <1>2, <1>3, PTL DEF Spec

(***************************************************************************)
(* The callbacks of libdw take a word that is not on the stack of the      *)
(* sample from an older one, and mark the frames from there on as guessed: *)
(* the mark is there whenever the frames that are sent depend on such a    *)
(* word, whichever of the two walks they are from.                         *)
(***************************************************************************)
THEOREM OlderWordsAlwaysAreGuesses == Spec => []OlderWordsAreGuesses
<1>1. FInv => OlderWordsAreGuesses
  <2> SUFFICES ASSUME FInv, ui.phase = "send", HasStack(ui.sample), attached, ~disturbed
               PROVE  OlderWordsAreGuesses
    BY DEF OlderWordsAreGuesses
  <2>1. PICK u : u = ui
    OBVIOUS
  <2>2. PICK values : values = OlderValues(ui.sample)
    OBVIOUS
  <2>3. PICK a : a = attached
    OBVIOUS
  <2>4. PICK x : x = disturbed
    OBVIOUS
  <2>5. IF x THEN u.frames = Only(u.sample) \/ PartOfFrames(u.frames, u.sample, values)
        ELSE Sends(u, AllFrames(u.sample, values, HasStack(u.sample) /\ a), values, a)
    BY ONLY FInv, ui.phase = "send", <2>1, <2>2, <2>3, <2>4, AtSend
  <2>6. GuessesAt(u, PlacesOf(u.sample, values))
    BY ONLY HasStack(ui.sample), attached, ~disturbed, <2>1, <2>3, <2>4, <2>5, Zenon DEF Sends
  <2> QED
    BY ONLY <2>1, <2>2, <2>6, Zenon DEF OlderWordsAreGuesses, GuessesAt, Guessed, PlacesOf
<1>2. Init => IInv /\ FInv
  BY InitInv, InitFInv
<1>3. IInv /\ FInv /\ [Next]_vars => IInv' /\ FInv'
  BY NextInv, NextFInv
<1> QED
  BY <1>1, <1>2, <1>3, PTL DEF Spec
=============================================================================
