----------------------------- MODULE MCJesd204 ------------------------------
(* Model checking of Jesd204: every array of three devices with one top      *)
(* device, two links in any order, and the callbacks of the devices chosen   *)
(* from a few tables.                                                        *)
EXTENDS Jesd204

Orders == {<<>>, <<1>>, <<2>>, <<1, 2>>, <<2, 1>>}

\* per_device, per_link, mode.  The first is as drivers have it, one callback per
\* op; the second supplies more than mode selects, the third something else, as ad9081.c
\* does for JESD204_OP_DEVICE_INIT.
Tables == {<<{0}, {1}, {0}>>, <<Ops, Ops, Ops>>, <<{0}, {1}, {}>>}

Device(isTop, order, table, provides) ==
  [is_top_device |-> isTop, is_sysref_provider |-> provides,
   link_ids |-> order, per_device |-> table[1], per_link |-> table[2],
   mode |-> table[3],
   post_state_sysref |-> IF isTop THEN {1} ELSE {}]

Tops == {Device(TRUE, o, t, FALSE) : o \in {<<>>, <<2>>, <<1, 2>>, <<2, 1>>},
                                          t \in Tables}
Others(provides) == {Device(FALSE, o, t, provides) : o \in Orders, t \in Tables}

AllArrays == {<<d, e, t>> : d \in Others(TRUE), e \in Others(FALSE), t \in Tops}
               \cup {<<d, t, e>> : d \in Others(FALSE), e \in Others(FALSE), t \in Tops}
=============================================================================
