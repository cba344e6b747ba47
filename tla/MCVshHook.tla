------------------------------ MODULE MCVshHook ------------------------------
(***************************************************************************)
(* Small images of the VSH, made of three words: a start of the signature,  *)
(* up to two at any place, its end, and a call.  A byte counts to 8; the    *)
(* first and the last word of the signature are wild in their lower half,   *)
(* so that an end and a start two words behind it match it as well, across  *)
(* the instructions.                                                        *)
(***************************************************************************)
EXTENDS VshHook, TLC

MCByteSize == 8
MCSignature == <<1, 1, 7, 7, 7, 7, 7, 7, 2, 2, 7, 7>>
MCBase == 8
MCOrig == 64

Start == <<1, 1, 2, 2>>
End == <<2, 2, 1, 1>>

\* The n-th word of the image, counted from 0.
Image(starts, calls, n) ==
    IF n \in starts THEN Start
    ELSE IF n \in calls THEN BytesOf(Encode(MCBase + 4 * n, MCOrig, 1))
    ELSE End

MCImages ==
    {[i \in 1 .. 4 * len |-> Image(starts, calls, (i - 1) \div 4)[((i - 1) % 4) + 1]] :
        len \in {9, 10},
        starts \in {s \in SUBSET (0 .. 9) : Cardinality(s) <= 2},
        calls \in {{}, {1, 4, 7}, {2, 5, 8}, {3, 6, 9}}}

\* In reach, and out of reach of the call.
MCPlacements == {<<72, 80>>, <<140, 148>>}

MCKernels == {{"dbg"}, {"hen"}, {"dbg", "hen"}}
=============================================================================
