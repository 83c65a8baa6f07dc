---------------------------- MODULE HighlightStore ----------------------------
(***************************************************************************)
(* What the right pane promises about the registers whose details are      *)
(* open, with no buffer and no pointer in sight (src/config.h, the comment *)
(* on keep_dev_selected_regs): each device has its own set, only the user  *)
(* changes it, and only on the device the pane displays; moving to another *)
(* device and back changes nothing, or closes everything if the option is  *)
(* off.                                                                    *)
(***************************************************************************)
CONSTANTS
  Devices,
  Registers,      \* Registers[d]: the registers of d that can be opened
  NoDevice

VARIABLES
  keep,           \* keep_dev_selected_regs
  chosen,         \* the device the pane has been asked to display
  displayed,      \* the device it displays
  open            \* open[d]: the registers of d whose details are open

vars == <<keep, chosen, displayed, open>>

Init ==
  /\ keep \in BOOLEAN
  /\ chosen \in Devices \cup {NoDevice}
  /\ displayed = NoDevice
  /\ open = [d \in Devices |-> {}]

Choose(d) ==
  /\ chosen' = d
  /\ UNCHANGED <<keep, displayed, open>>

Display ==
  /\ chosen # displayed
  /\ displayed' = chosen
  /\ open' = IF keep THEN open ELSE [d \in Devices |-> {}]
  /\ UNCHANGED <<keep, chosen>>

Toggle(r) ==
  /\ displayed # NoDevice
  /\ open' = [open EXCEPT ![displayed] = (@ \ {r}) \cup ({r} \ @)]
  /\ UNCHANGED <<keep, chosen, displayed>>

CloseAll ==
  /\ displayed # NoDevice
  /\ open' = [open EXCEPT ![displayed] = {}]
  /\ UNCHANGED <<keep, chosen, displayed>>

Next ==
  \/ \E d \in Devices : Choose(d)
  \/ Display
  \/ displayed # NoDevice /\ \E r \in Registers[displayed] : Toggle(r)
  \/ CloseAll

Spec == Init /\ [][Next]_vars
=============================================================================
