----------------------------- MODULE Unwinding -----------------------------
(***************************************************************************)
(* How PerfUnwind::analyze (src/app/perfunwind.cpp) gets the frames of a   *)
(* sample: from the call chain and the branch stack that perf recorded,    *)
(* and by unwinding the part of the stack that it copied, for which libdw  *)
(* calls back.  All samples are of one process.  What is in a table of     *)
(* symbols is data (see SymbolTable and FrameLookup); here, any call may   *)
(* make it dirty.  Addresses of memory count words.                        *)
(***************************************************************************)
EXTENDS Integers, FiniteSets, SequencesExt

CONSTANTS
  Samples,     \* [ip, callchain, branch : sequence of [from, to], type : registers and
               \*  stack were asked for, regs : and there are registers, pc, sp, lr,
               \*  stack : sequence of words, the first one at sp]
  ContextMax, HV, KERNEL, USER,  \* PERF_CONTEXT_MAX; what is greater is no address
  Kernel,      \* addresses of the kernel
  Veneers,     \* addresses whose symbol is $a or $t
  MaxAddress,
  MaxFrames,
  FileData,    \* from addresses to words of the files that are mapped
  Cfi          \* external: for addresses of code, where the one to return to is:
               \* [relative, offset, size], what it takes of the stack

SampleRecords ==
  [ip : Int, callchain : Seq(Int), branch : Seq([from : Int, to : Int]), type : BOOLEAN,
   regs : BOOLEAN, pc : Int, sp : Int, lr : Int, stack : Seq(Int)]

ASSUME UnwindingAssumption ==
  /\ Samples \subseteq SampleRecords
  /\ FileData \in [DOMAIN FileData -> Int]
  /\ Cfi \in [DOMAIN Cfi -> [relative : BOOLEAN, offset : Int, size : Int]]
  /\ ContextMax \in Int /\ MaxAddress \in Int /\ MaxFrames \in Nat

VARIABLES
  ui,          \* PerfUnwind::UnwindInfo, and the locals of its functions
  dirty,       \* the tables with m_cacheIsDirty
  attached,    \* libdw has the callbacks for the process
  stackValues, \* those of the process: from addresses to values
  disturbed    \* history: a table became dirty in this attempt

vars == <<ui, dirty, attached, stackValues, disturbed>>

None == -1

NoSample == [ip |-> 0, callchain |-> <<>>, branch |-> <<>>, type |-> FALSE, regs |-> FALSE,
             pc |-> 0, sp |-> 0, lr |-> 0, stack |-> <<>>]

NoWalk == [number |-> 0, pc |-> 0, sp |-> 0, activation |-> FALSE, saved |-> <<>>]

NewUnwind(s, attempt) ==
  [phase |-> "callchain", sample |-> s, attempt |-> attempt, frames |-> <<>>,
   firstGuessedFrame |-> None, isInterworking |-> FALSE, pos |-> 1, isKernel |-> FALSE,
   addedUserFrames |-> FALSE, walk |-> NoWalk]

Idle == [NewUnwind(NoSample, 0) EXCEPT !.phase = "idle"]

Frame(ip, isKernel) == [ip |-> ip, isKernel |-> isKernel]

Table(isKernel) == IF isKernel THEN "kernel" ELSE "user"

\* A call of a table may make it dirty, and nothing but clearCache makes it clean.
CallTable(table) ==
  \/ UNCHANGED <<dirty, disturbed>>
  \/ dirty' = dirty \cup {table} /\ disturbed' = TRUE

HasStack(s) == s.regs /\ s.stack # <<>>

\* External: libdw may find no file that it can attach the process to.
attachDwfl(isKernel) ==
  attached' \in {attached, attached \/ (ui.sample.type /\ ~isKernel)}

-----------------------------------------------------------------------------
(***************************************************************************)
(* resolveCallchain                                                        *)
(***************************************************************************)
analyze(s) ==
  /\ ui.phase = "idle"
  /\ ui' = NewUnwind(s, 1)
  /\ disturbed' = FALSE
  /\ UNCHANGED <<dirty, attached, stackValues>>

Entry == ui.sample.callchain[ui.pos]

InCallchain == ui.phase = "callchain" /\ ui.pos <= Len(ui.sample.callchain)

Context ==
  /\ InCallchain /\ Entry > ContextMax
  /\ ui' = IF Entry \in {HV, KERNEL, USER}
           THEN [ui EXCEPT !.isKernel = Entry # USER, !.pos = @ + 1]
           ELSE [ui EXCEPT !.phase = "resolved"]
  /\ UNCHANGED <<dirty, attached, stackValues, disturbed>>

\* reportIp, for one address after the other: the first one that leaves the table
\* dirty is the last one.
reportIps(ips, next) ==
  \E n \in DOMAIN ips :
    /\ CallTable(Table(ui.isKernel))
    /\ n < Len(ips) => Table(ui.isKernel) \in dirty'
    /\ Table(ui.isKernel) \in dirty => n = 1
    /\ LET reported == [next EXCEPT
             !.frames = @ \o [k \in 1 .. n |-> Frame(ips[k], ui.isKernel)],
             !.isInterworking = ips[n] \in Veneers]
       IN  ui' = IF Table(ui.isKernel) \in dirty' THEN [reported EXCEPT !.phase = "resolved"]
                                                  ELSE reported

\* "Sometimes it skips the first user frame."
SkipsFirst ==
  ~ui.addedUserFrames /\ ~ui.isKernel /\ Entry # ui.sample.ip

HasBranchStack == ui.sample.branch # <<>>

\* An address of the call chain; the branch stack is preferred for those of the user.
Address ==
  /\ InCallchain /\ Entry <= ContextMax
  /\ LET first == IF SkipsFirst THEN <<ui.sample.ip>> ELSE <<>>
         next  == [ui EXCEPT !.pos = @ + 1, !.addedUserFrames = @ \/ ~ui.isKernel]
     IN  IF HasBranchStack /\ ~ui.isKernel
         THEN IF first = <<>>
              THEN /\ ui' = [ui EXCEPT !.phase = "branch", !.pos = 1]
                   /\ UNCHANGED <<dirty, attached, disturbed>>
              ELSE reportIps(first, [ui EXCEPT !.phase = "branch", !.pos = 1]) /\ attachDwfl(FALSE)
         ELSE reportIps(Append(first, Entry), next) /\ attachDwfl(ui.isKernel)
  /\ UNCHANGED stackValues

\* In the kernel, there is no meaningful branch stack.
CallchainEnds ==
  /\ ui.phase = "callchain" /\ ui.pos > Len(ui.sample.callchain)
  /\ ui' = [ui EXCEPT !.phase = IF ui.isKernel THEN "resolved" ELSE "branch", !.pos = 1]
  /\ UNCHANGED <<dirty, attached, stackValues, disturbed>>

\* The first callee and all callers.
Branch ==
  /\ ui.phase = "branch" /\ ui.pos <= Len(ui.sample.branch)
  /\ LET entry == ui.sample.branch[ui.pos]
     IN  reportIps(IF ui.pos = 1 THEN <<entry.to, entry.from>> ELSE <<entry.from>>,
                   [ui EXCEPT !.pos = @ + 1])
  /\ attachDwfl(FALSE)
  /\ UNCHANGED stackValues

BranchEnds ==
  /\ ui.phase = "branch" /\ ui.pos > Len(ui.sample.branch)
  /\ ui' = [ui EXCEPT !.phase = "resolved"]
  /\ UNCHANGED <<dirty, attached, stackValues, disturbed>>

-----------------------------------------------------------------------------
(***************************************************************************)
(* unwindStack                                                             *)
(***************************************************************************)
\* setInitialRegisters; the first frame of a thread is an activation.
BeginWalk(u, number, saved) ==
  [u EXCEPT !.phase = "callback",
            !.walk = [number |-> number, saved |-> saved, sp |-> u.sample.sp, activation |-> TRUE,
                      pc |-> IF u.isInterworking THEN u.sample.lr ELSE u.sample.pc]]

\* Faulty: what the second walk found is kept even when it is shorter.
EndWalkKeep(u) ==
  CASE u.walk.number = 1 /\ u.isInterworking ->
         BeginWalk([u EXCEPT !.frames = SubSeq(@, 1, 1)], 2, u.frames)
    [] OTHER -> [u EXCEPT !.phase = "attempted"]

\* After a veneer, the stack is unwound again with LR for IP.
EndWalk(u) ==
  CASE u.walk.number = 1 /\ u.isInterworking ->
         BeginWalk([u EXCEPT !.frames = SubSeq(@, 1, 1)], 2, u.frames)
    [] u.walk.number = 2 /\ Len(u.walk.saved) > Len(u.frames) ->
         [u EXCEPT !.phase = "attempted", !.frames = u.walk.saved]
    [] OTHER -> [u EXCEPT !.phase = "attempted"]

Guess(u) == [u EXCEPT !.firstGuessedFrame = Len(u.frames)]

unwindStack ==
  /\ ui.phase = "resolved" /\ dirty = {} /\ HasStack(ui.sample)
  /\ attachDwfl(FALSE)
  /\ ui' = IF attached' THEN BeginWalk(ui, 1, <<>>) ELSE [ui EXCEPT !.phase = "attempted"]
  /\ UNCHANGED <<dirty, stackValues, disturbed>>

\* A pc of 0 also stands for one that libdw does not know.
NoFrame == ui.walk.pc = 0 \/ Len(ui.frames) > MaxFrames

\* pc_adjusted
Adjusted == ui.walk.pc - (IF ui.walk.activation THEN 0 ELSE 1)

frameCallback ==
  /\ ui.phase = "callback"
  /\ IF NoFrame
     THEN ui' = EndWalk(Guess(ui)) /\ UNCHANGED <<dirty, disturbed>>
     ELSE /\ CallTable("user")
          /\ ui' = IF "user" \in dirty' THEN EndWalk(ui)
                   ELSE [ui EXCEPT !.phase = "read",
                                   !.frames = Append(@, Frame(Adjusted, FALSE)),
                                   !.isInterworking = @ \/ (ui.frames = <<>> /\ Adjusted \in Veneers)]
  /\ UNCHANGED <<attached, stackValues>>

Rule(pc) == Cfi[pc]

WordOf(pc, sp) == (IF Rule(pc).relative THEN sp ELSE 0) + Rule(pc).offset

\* External: libdw has the return address, and goes on with the frame it is in.
Return(u, value) ==
  [u EXCEPT !.phase = "callback",
            !.walk = [number |-> u.walk.number, saved |-> u.walk.saved, activation |-> FALSE,
                      pc |-> value, sp |-> u.walk.sp + Rule(u.walk.pc).size]]

NoRule ==
  /\ ui.phase = "read" /\ ui.walk.pc \notin DOMAIN Cfi
  /\ ui' = EndWalk(ui)
  /\ UNCHANGED <<dirty, attached, stackValues, disturbed>>

\* The word that libdw asks memoryRead for; MaxAddress is the last one.
Asks  == ui.phase = "read" /\ ui.walk.pc \in DOMAIN Cfi
Asked == WordOf(ui.walk.pc, ui.walk.sp)

OnStack(s, word) == s.sp <= word /\ word < s.sp + Len(s.stack)

ReadPastEnd ==
  /\ Asks /\ Asked >= MaxAddress
  /\ ui' = EndWalk(Guess(ui))
  /\ UNCHANGED <<dirty, attached, stackValues, disturbed>>

ReadStack ==
  /\ Asks /\ Asked < MaxAddress /\ OnStack(ui.sample, Asked)
  /\ LET value == ui.sample.stack[Asked - ui.sample.sp + 1]
     IN  /\ ui' = Return(ui, value)
         /\ stackValues' = [a \in DOMAIN stackValues \cup {Asked} |->
                              IF a = Asked THEN value ELSE stackValues[a]]
  /\ UNCHANGED <<dirty, attached, disturbed>>

Elsewhere == Asks /\ Asked < MaxAddress /\ ~OnStack(ui.sample, Asked)

ReadKernel ==
  /\ Elsewhere /\ Asked \in Kernel
  /\ ui' = EndWalk(ui)
  /\ UNCHANGED <<dirty, attached, stackValues, disturbed>>

ReadFile ==
  /\ Elsewhere /\ Asked \notin Kernel /\ Asked \in DOMAIN FileData
  /\ ui' = Return(ui, FileData[Asked])
  /\ UNCHANGED <<dirty, attached, stackValues, disturbed>>

\* Faulty: a value of another sample counts like one of this.
ReadOlderUnmarked ==
  /\ Elsewhere /\ Asked \notin Kernel
  /\ CallTable("user")
  /\ Asked \in DOMAIN FileData => "user" \in dirty'
  /\ ui' = IF Asked \in DOMAIN stackValues THEN Return(ui, stackValues[Asked])
                                           ELSE EndWalk(Guess(ui))
  /\ UNCHANGED <<attached, stackValues>>

\* A word that is in no file, or in one that could not be loaded, has the value that
\* an older sample had for it.
ReadOlder ==
  /\ Elsewhere /\ Asked \notin Kernel
  /\ CallTable("user")
  /\ Asked \in DOMAIN FileData => "user" \in dirty'
  /\ ui' = IF Asked \in DOMAIN stackValues THEN Return(Guess(ui), stackValues[Asked])
                                           ELSE EndWalk(Guess(ui))
  /\ UNCHANGED <<attached, stackValues>>

-----------------------------------------------------------------------------
(***************************************************************************)
(* The end of an attempt                                                   *)
(***************************************************************************)
Attempted ==
  ui.phase = "attempted" \/ (ui.phase = "resolved" /\ (dirty # {} \/ ~HasStack(ui.sample)))

\* Faulty: the second attempt goes on from the frames of the first one.
RetryKeep ==
  /\ Attempted /\ dirty # {} /\ ui.attempt < 2
  /\ ui' = [NewUnwind(ui.sample, 2) EXCEPT !.frames = ui.frames]
  /\ dirty' = {} /\ disturbed' = FALSE
  /\ UNCHANGED <<attached, stackValues>>

\* clearCache of the dirty tables.
Retry ==
  /\ Attempted /\ dirty # {} /\ ui.attempt < 2
  /\ ui' = NewUnwind(ui.sample, 2)
  /\ dirty' = {} /\ disturbed' = FALSE
  /\ UNCHANGED <<attached, stackValues>>

Finish ==
  /\ Attempted /\ (dirty = {} \/ ui.attempt = 2)
  /\ ui' = [ui EXCEPT !.phase = IF ui.frames = <<>> THEN "ip" ELSE "send"]
  /\ dirty' = {}
  /\ UNCHANGED <<attached, stackValues, disturbed>>

\* If nothing was found, at least look up the IP; the table may stay dirty.
LookupIp ==
  /\ ui.phase = "ip" /\ ui.frames = <<>>
  /\ LET isKernel == ui.sample.ip \in Kernel
     IN  /\ CallTable(Table(isKernel))
         /\ ui' = [ui EXCEPT !.phase = "send", !.frames = <<Frame(ui.sample.ip, isKernel)>>]
  /\ UNCHANGED <<attached, stackValues>>

Send ==
  /\ ui.phase = "send"
  /\ ui' = Idle
  /\ UNCHANGED <<dirty, attached, stackValues, disturbed>>

Init ==
  /\ ui = Idle /\ dirty = {} /\ attached = FALSE /\ stackValues = <<>> /\ disturbed = FALSE

Next ==
  \/ \E s \in Samples : analyze(s)
  \/ Context \/ Address \/ CallchainEnds \/ Branch \/ BranchEnds
  \/ unwindStack \/ frameCallback
  \/ NoRule \/ ReadPastEnd \/ ReadStack \/ ReadKernel \/ ReadFile \/ ReadOlder
  \/ Retry \/ Finish \/ LookupIp \/ Send

Spec == Init /\ [][Next]_vars
-----------------------------------------------------------------------------
(***************************************************************************)
(* What the frames of a sample should be                                   *)
(***************************************************************************)
\* The call chain, as far as its contexts are known.
Known(s) ==
  LET unknown == {i \in DOMAIN s.callchain : s.callchain[i] > ContextMax
                                            /\ s.callchain[i] \notin {HV, KERNEL, USER}}
  IN  {i \in DOMAIN s.callchain : \A u \in unknown : i < u}

InKernel(s, i) ==
  LET marks == {j \in Known(s) : j < i /\ s.callchain[j] > ContextMax}
  IN  \E j \in marks : (\A k \in marks : k <= j) /\ s.callchain[j] # USER

UserAddresses(s) ==
  {i \in Known(s) : s.callchain[i] <= ContextMax /\ ~InKernel(s, i)}

FirstUser(s, i) == i \in UserAddresses(s) /\ \A j \in UserAddresses(s) : i <= j

\* The frames of an entry of the call chain; addresses of the user are those of the
\* branch stack, if there is one.
FramesOf(s, i) ==
  IF \/ i \notin Known(s) \/ s.callchain[i] > ContextMax
     \/ s.branch # <<>> /\ \E j \in UserAddresses(s) : j < i
  THEN <<>>
  ELSE (IF FirstUser(s, i) /\ s.callchain[i] # s.ip THEN <<Frame(s.ip, FALSE)>> ELSE <<>>)
       \o (IF s.branch # <<>> /\ FirstUser(s, i) THEN <<>>
           ELSE <<Frame(s.callchain[i], InKernel(s, i))>>)

ChainFrames(s) ==
  LET frames[k \in 0 .. Len(s.callchain)] ==
        IF k = 0 THEN <<>> ELSE frames[k - 1] \o FramesOf(s, k)
  IN  frames

UsesBranches(s) ==
  /\ s.branch # <<>>
  /\ \/ UserAddresses(s) # {}
     \/ Known(s) = DOMAIN s.callchain /\ ~InKernel(s, Len(s.callchain) + 1)

Branches(s) ==
  [i \in 1 .. Len(s.branch) + 1 |->
     Frame(IF i = 1 THEN s.branch[1].to ELSE s.branch[i - 1].from, FALSE)]

Recorded(s) ==
  ChainFrames(s)[Len(s.callchain)] \o (IF UsesBranches(s) THEN Branches(s) ELSE <<>>)

\* The values that older samples left at words that are not on the stack of this one.
OlderValues(s) ==
  [a \in {word \in DOMAIN stackValues : ~OnStack(s, word)} |-> stackValues[a]]

Nowhere == [pc |-> 0, sp |-> 0, older |-> FALSE]

\* Where a place returns to, and whether that is known from an older sample only.
NextPlace(s, values, place) ==
  LET word == WordOf(place.pc, place.sp)
      To(value, older) == [pc |-> value, sp |-> place.sp + Rule(place.pc).size, older |-> older]
  IN  IF place.pc \notin DOMAIN Cfi \/ word >= MaxAddress THEN Nowhere
      ELSE IF OnStack(s, word) THEN To(s.stack[word - s.sp + 1], FALSE)
      ELSE IF word \in Kernel THEN Nowhere
      ELSE IF word \in DOMAIN FileData THEN To(FileData[word], FALSE)
      ELSE IF word \in DOMAIN values THEN To(values[word], TRUE) ELSE Nowhere

Trail(s, values, pc, n) ==
  LET trail[k \in 1 .. n] ==
        IF k = 1 THEN [pc |-> pc, sp |-> s.sp, older |-> FALSE]
        ELSE NextPlace(s, values, trail[k - 1])
  IN  trail

\* The places where a walk from pc comes by, at most n.
Places(s, values, pc, n) ==
  LET trail == Trail(s, values, pc, n)
  IN  [k \in {m \in 1 .. n : \A j \in 1 .. m : trail[j].pc # 0} |-> trail[k]]

Unwound(places) ==
  [k \in DOMAIN places |-> Frame(places[k].pc - (IF k = 1 THEN 0 ELSE 1), FALSE)]

FromVeneer(s) == Recorded(s) # <<>> /\ Last(Recorded(s)).ip \in Veneers

FirstPlaces(s, values) ==
  Places(s, values, IF FromVeneer(s) THEN s.lr ELSE s.pc, MaxFrames + 1 - Len(Recorded(s)))
First(s, values) == Recorded(s) \o Unwound(FirstPlaces(s, values))

SecondPlaces(s, values) == Places(s, values, s.lr, MaxFrames)
Second(s, values) == <<Head(First(s, values))>> \o Unwound(SecondPlaces(s, values))

WalksTwice(s, values) ==
  \/ FromVeneer(s)
  \/ Recorded(s) = <<>> /\ First(s, values) # <<>> /\ Head(First(s, values)).ip \in Veneers

TakesSecond(s, values) ==
  WalksTwice(s, values) /\ Len(First(s, values)) <= Len(Second(s, values))

AllFrames(s, values, unwinds) ==
  CASE ~unwinds -> Recorded(s)
    [] unwinds /\ TakesSecond(s, values)  -> Second(s, values)
    [] unwinds /\ ~TakesSecond(s, values) -> First(s, values)

\* What an attempt may leave when a table becomes dirty.
PartOfFrames(frames, s, values) ==
  \/ IsPrefix(frames, Recorded(s))
  \/ HasStack(s) /\ IsPrefix(frames, First(s, values))
  \/ HasStack(s) /\ WalksTwice(s, values) /\ IsPrefix(frames, Second(s, values))

\* The frames that are sent are those of the call chain or the branch stack, followed by
\* those that are found on the stack, whatever tables have become dirty; if one
\* does in the second attempt, too, a part of them.
FramesFollowSample ==
  ui.phase = "send" =>
    LET s    == ui.sample
        only == <<Frame(s.ip, s.ip \in Kernel)>>
        all  == AllFrames(s, OlderValues(s), HasStack(s) /\ attached)
    IN  IF disturbed THEN ui.frames = only \/ PartOfFrames(ui.frames, s, OlderValues(s))
                     ELSE ui.frames = IF all = <<>> THEN only ELSE all

\* Q_ASSERT(numGuessed >= 0), although the second walk cuts the frames down to one.
GuessesAreFrames ==
  ui.phase = "send" =>
    ui.firstGuessedFrame = None \/ Len(ui.frames) - ui.firstGuessedFrame >= 0

\* Frames that were found by a word that an older sample had at the address are never
\* sent as if they were certain.
OlderWordsAreGuesses ==
  ui.phase = "send" /\ HasStack(ui.sample) /\ attached /\ ~disturbed =>
    LET s      == ui.sample
        values == OlderValues(s)
        places == IF TakesSecond(s, values) THEN SecondPlaces(s, values) ELSE FirstPlaces(s, values)
    IN  (\E k \in DOMAIN places : places[k].older) => ui.firstGuessedFrame # None
=============================================================================
