------------------------------ MODULE MCDetour ------------------------------
(***************************************************************************)
(* Two functions: one with a backward, an absolute and a linked branch among *)
(* its first words, and one that counts and loads the count register.       *)
(* Whatever is not in the image is code of others, the callbacks among it.   *)
(***************************************************************************)
EXTENDS Detour, TLC

CONSTANTS d1, d2, d3, lib, other

MCBits == [b |-> 6, bc |-> 5]

B(offset, link) == Branch("b", offset, "always", link, FALSE)
Bc(cond, offset) == Branch("bc", offset, cond, FALSE, FALSE)

MCImage ==
    << Plain("o"), Return,
       Bc("eq", -2), Branch("b", 50, "always", TRUE, TRUE), B(-12, TRUE), Bc("eq", 3),
       B(-8, TRUE), Bc("eq", 1), Plain("p"), Return,
       Bc("count", 5), LoadCount("q1"), Plain("q2"), Plain("q3"), Bc("eq", -2), Return >>

MCFunctions == {3, 11}
MCCallback == [d \in Detours |-> d]

MCStub(fnid, func) == [fnid |-> fnid, func |-> func]

MCTable ==
    << [size |-> "export", name |-> other, stubs |-> <<MCStub(2, 11)>>],
       [size |-> "export", name |-> lib, stubs |-> <<MCStub(1, 11), MCStub(2, 3)>>],
       [size |-> "import", name |-> lib, stubs |-> <<MCStub(3, 11)>>] >>

MCNames == {<<lib, 2>>, <<lib, 3>>}

Twins == Permutations({d1, d2})

MCKernels == {{"dbg"}, {"dbg", "hen"}}
=============================================================================
