---------------------------- MODULE MCAudioCall ----------------------------
(* AudioCall: with retries, with users who leave, and with stacks that hold a  *)
(* wrong length.                                                              *)
EXTENDS AudioCall

Stacks(atCaller, atCallee) == [e \in Ends |-> IF e = Caller THEN atCaller ELSE atCallee]

Setting(leavers, tries, lengths) == [leavers |-> leavers, tries |-> tries, lengths |-> lengths]

CallSettings ==
  {Setting({}, 2, Stacks("enough", "enough")),
   Setting({Caller}, 1, Stacks("enough", "enough")),
   Setting({Callee}, 1, Stacks("enough", "enough")),
   Setting({}, 1, Stacks("short", "enough")),
   Setting({}, 1, Stacks("enough", "negative"))}
=============================================================================
