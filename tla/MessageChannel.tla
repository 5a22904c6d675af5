--------------------------- MODULE MessageChannel ---------------------------
(***************************************************************************)
(* What the chat promises for a message, whatever carries it: the sender   *)
(* composes it once, a relay may hold it, the recipient opens it at most   *)
(* once and shows it at most once, and the sender is told that it was read *)
(* only when the recipient has opened it.  A message may also be lost      *)
(* between being opened and being shown.                                   *)
(*                                                                         *)
(* The four parties of the channel move independently of each other: a     *)
(* step is a step of some of them.  A recipient may show or lose all that  *)
(* it has opened at once.                                                  *)
(*                                                                         *)
(* Abstract specification; ChatDelivery implements it.                     *)
(***************************************************************************)
CONSTANT MsgId

VARIABLES
  composed,   \* written by their sender
  held,       \* stored by the relay
  opening,    \* opened, and about to be shown
  shown,      \* shown to the recipient
  lost,       \* opened, and gone
  confirmed   \* the sender was told "read"

reader == <<opening, shown, lost>>
channelVars == <<composed, held, reader, confirmed>>

Opened == opening \cup shown \cup lost

Init == /\ composed = {} /\ held = {} /\ opening = {}
        /\ shown = {} /\ lost = {} /\ confirmed = {}

Compose == \E m \in MsgId \ composed : composed' = composed \cup {m}

Hold == \E m \in composed : held' = held \cup {m}

Open == \E m \in composed \ Opened :
          opening' = opening \cup {m} /\ UNCHANGED <<shown, lost>>

Show == \E S \in SUBSET opening :
          opening' = opening \ S /\ shown' = shown \cup S /\ UNCHANGED lost

Lose == \E S \in SUBSET opening :
          opening' = opening \ S /\ lost' = lost \cup S /\ UNCHANGED shown

Confirm == \E m \in held \cap Opened : confirmed' = confirmed \cup {m}

Next == /\ Compose \/ UNCHANGED composed
        /\ Hold \/ UNCHANGED held
        /\ Open \/ Show \/ Lose \/ UNCHANGED reader
        /\ Confirm \/ UNCHANGED confirmed

Spec == Init /\ [][Next]_channelVars
=============================================================================
