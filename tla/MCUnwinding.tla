---------------------------- MODULE MCUnwinding ----------------------------
(***************************************************************************)
(* Samples of one process, with code at 1 to 29, the stack from 40, data   *)
(* of a file at 60, the kernel at 80, and contexts from 91.                *)
(***************************************************************************)
EXTENDS Unwinding

Plain(ip, callchain, branch) ==
  [NoSample EXCEPT !.ip = ip, !.callchain = callchain, !.branch = branch]

Copied(ip, callchain, pc, sp, lr, stack) ==
  [ip |-> ip, callchain |-> callchain, branch |-> <<>>, type |-> TRUE, regs |-> TRUE,
   pc |-> pc, sp |-> sp, lr |-> lr, stack |-> stack]

Jump(from, to) == [from |-> from, to |-> to]

\* Call chains of both sides, with one that is not known, and with branches.
Recordings ==
  { Plain(81, <<KERNEL, 81, 82, USER, 12, 13>>, <<>>),
    Plain(13, <<USER, 12, 99, 14>>, <<>>),
    Plain(12, <<HV, 83, KERNEL, 81>>, <<Jump(1, 2)>>),
    Plain(81, <<KERNEL, 81, USER, 12, 13>>, <<Jump(1, 2), Jump(3, 4)>>),
    Plain(12, <<12, 13>>, <<Jump(3, 4)>>),
    Plain(12, <<>>, <<Jump(3, 4)>>), Plain(12, <<>>, <<>>), Plain(81, <<KERNEL>>, <<>>) }

Rel(offset, size) == [relative |-> TRUE, offset |-> offset, size |-> size]
Abs(address)      == [relative |-> FALSE, offset |-> address, size |-> 0]

MCCfi ==
  (11 :> Rel(1, 2)) @@ (12 :> Rel(0, 1)) @@ (13 :> Abs(60)) @@ (14 :> Abs(80)) @@ (15 :> Abs(89))
    @@ (16 :> Abs(61)) @@ (5 :> Rel(0, 1))

MCFileData == (60 :> 17) @@ (61 :> 16)

\* The words at 43 to 46 are read in one sample, and missing in others; 5 is a veneer;
\* 16 calls itself forever.
Stacks ==
  { Copied(11, <<>>, 11, 40, 0, <<1, 11, 1, 12, 12, 12, 13>>),
    Copied(12, <<>>, 12, 43, 0, <<12>>),
    Copied(12, <<>>, 12, 45, 0, <<14>>), Copied(12, <<>>, 12, 45, 0, <<15>>),
    Copied(81, <<KERNEL, 81, 82>>, 12, 46, 0, <<16>>),
    Copied(5, <<>>, 5, 44, 11, <<12>>), Copied(5, <<>>, 5, 44, 12, <<9, 9>>),
    Copied(5, <<>>, 5, 44, 0, <<12, 13>>), Copied(9, <<9, 5>>, 5, 43, 12, <<12>>) }

MCSamples == Recordings \cup Stacks
=============================================================================
