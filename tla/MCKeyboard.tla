----------------------------- MODULE MCKeyboard -----------------------------
(* A ring of four slots, a shift key, and two keys one of which changes its  *)
(* code with the shift state.                                                *)
EXTENDS Keyboard, TLC

Entry(c, r) == [code |-> c, remap |-> r]
MCScanTable ==
  (0 :> ("shift" :> Entry("SHIFT", FALSE) @@ "a" :> Entry("A", FALSE) @@ "b" :> Entry("A", TRUE)))
  @@
  (1 :> ("shift" :> Entry("SHIFT", FALSE) @@ "a" :> Entry("A", TRUE) @@ "b" :> Entry("none", FALSE)))
=============================================================================
