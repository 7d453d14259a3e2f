---------------------------- MODULE StepPrograms ----------------------------
(* The programs that the threads of module ThreadStep execute, and the       *)
(* packets their client sends.  An instruction is its kind, its condition,   *)
(* what it refers to (a target, a word of memory, the conditions of an IT    *)
(* block) and its length in halfwords; a program also has the entry of each  *)
(* thread, the words of memory, the values that a peer's store gives them,   *)
(* and the addresses of its retry loop.                                      *)
EXTENDS Integers, TLC

I(op, cond, to, n) == [op |-> op, cond |-> cond, to |-> to, n |-> n]
N(op) == I(op, "al", 0, 1)

\* IT block, direct branches, a word that a peer changes under a POP {pc}.
ThumbFlow ==
    [thumb |-> TRUE, loop |-> {}, entry |-> <<0, 6>>, mem |-> (1 :> 0), alt |-> (1 :> 5),
     code |-> (0 :> I("it", "al", <<"eq", "ne", "ne">>, 1)) @@ (1 :> I("plain", "al", 0, 2)) @@
              (3 :> N("plain")) @@ (4 :> I("b", "al", 7, 1)) @@ (5 :> N("cmp")) @@
              (6 :> N("cmp")) @@ (7 :> I("cbz", "eq", 9, 1)) @@ (8 :> I("poke", "al", 1, 1)) @@
              (9 :> I("pop", "al", 1, 1))]

\* 32-bit Thumb branches and loads of the program counter.
ThumbWide ==
    [thumb |-> TRUE, loop |-> {}, entry |-> <<0, 3>>,
     mem |-> (1 :> 2) @@ (2 :> 0), alt |-> (1 :> 7) @@ (2 :> 0),
     code |-> (0 :> I("b", "eq", 5, 2)) @@ (2 :> N("cmp")) @@ (3 :> I("tbb", "al", 1, 2)) @@
              (5 :> I("ldm", "al", 1, 2)) @@ (7 :> I("poke", "al", 1, 1)) @@
              (8 :> I("ldr", "al", 2, 2))]

\* A load-exclusive/store-exclusive retry loop, then a blocking call.
ThumbLock ==
    [thumb |-> TRUE, loop |-> {0, 2, 3, 5}, entry |-> <<0, 6>>,
     mem |-> (1 :> 0), alt |-> (1 :> 0),
     code |-> (0 :> I("ldrex", "al", 1, 2)) @@ (2 :> N("cmp")) @@ (3 :> I("strex", "al", 1, 2)) @@
              (5 :> I("cbz", "ne", 0, 1)) @@ (6 :> N("svc")) @@ (7 :> I("b", "al", 6, 1))]

\* The same in the ARM set, with conditional and unsupported transfers.
ArmLock ==
    [thumb |-> FALSE, loop |-> {0, 2, 4, 6}, entry |-> <<0, 8>>,
     mem |-> (1 :> 12), alt |-> (1 :> 12),
     code |-> (0 :> I("ldrex", "ne", 1, 2)) @@ (2 :> I("cmp", "al", 0, 2)) @@
              (4 :> I("strex", "al", 1, 2)) @@ (6 :> I("b", "ne", 0, 2)) @@
              (8 :> I("ldr", "eq", 1, 2)) @@ (10 :> I("ldm", "ne", 1, 2)) @@
              (12 :> I("svc", "al", 0, 2)) @@ (14 :> I("rfe", "eq", 0, 2)) @@
              (16 :> I("plain", "al", 0, 2)) @@ (18 :> I("b", "al", 8, 2))]

\* A compare in an IT block, ahead of another instruction of the block.
ItCompare ==
    [thumb |-> TRUE, loop |-> {}, entry |-> <<0, 4>>, mem |-> (1 :> 0), alt |-> (1 :> 0),
     code |-> (0 :> I("it", "al", <<"ne", "ne">>, 1)) @@ (1 :> N("cmp")) @@ (2 :> N("plain")) @@
              (3 :> N("plain")) @@ (4 :> I("b", "al", 3, 1))]

StepPrograms ==
    ("flow" :> ThumbFlow) @@ ("wide" :> ThumbWide) @@ ("lock" :> ThumbLock) @@ ("arm" :> ArmLock)
LockPrograms == ("lock" :> ThumbLock) @@ ("arm" :> ArmLock)
ComparePrograms == "compare" :> ItCompare

H(op, id) == [kind |-> "H", op |-> op, id |-> id]
Go(stepping, jump) == [kind |-> "legacy", stepping |-> stepping, jump |-> jump]
Act(kind, thread) == [kind |-> kind, thread |-> thread]
Resume(actions) == [kind |-> "vCont", actions |-> actions]

\* Selections, legacy resumes, vCont, and a breakpoint set and cleared.
StepPackets ==
    {H("c", 1), H("c", 0), H("c", -1), H("g", 2), [kind |-> "g"],
     Go(TRUE, -1), Go(FALSE, -1), Go(TRUE, 2),
     Resume(<<Act("step", 2), Act("continue", -1)>>),
     Resume(<<Act("step", 0), Act("continue", -1)>>), Resume(<<Act("step", 1)>>),
     [kind |-> "Z", at |-> 6], [kind |-> "z", at |-> 6]}

\* A client that only ever steps thread 1.
LockPackets == {H("c", 1), Go(TRUE, -1)}

=============================================================================
