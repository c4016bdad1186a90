----------------------------- MODULE MCToolkit ------------------------------
(***************************************************************************)
(* Small instances.  The shapes of the adapter include blocks of one byte  *)
(* and an empty block between two others; the suites one that is manual,   *)
(* and one name of suite and of module in two libraries; the scripts every *)
(* form of an operation, reads without room and past the end of the text.  *)
(***************************************************************************)
EXTENDS Toolkit

MCShapes == {<<2, 1, 1>>, <<1, 0, 2>>}

MCLimits == <<2, 3>>

MCSuites ==
  <<[name |-> "s1", module |-> "m1", library |-> "l1", full |-> "l1.m1.s1", manual |-> FALSE],
    [name |-> "s2", module |-> "m1", library |-> "l1", full |-> "l1.m1.s2", manual |-> TRUE],
    [name |-> "s1", module |-> "m1", library |-> "l2", full |-> "l2.m1.s1", manual |-> FALSE]>>

MCText == <<1, 2, 3, 4>>

MCOp(form, what, room) == [form |-> form, what |-> what, room |-> room]

MCScripts ==
  {<<MCOp("ec", "read", 2), MCOp("async", "write", 0), MCOp("throw", "read", 3),
     MCOp("async", "teardown", 0)>>,
   <<MCOp("async", "read", 1), MCOp("ec", "write", 0), MCOp("async", "read", 0)>>,
   <<MCOp("ec", "read", 4), MCOp("async", "read", 2), MCOp("throw", "write", 0)>>}

=============================================================================
