---------------------------------- MODULE Desktop ----------------------------------
(* What the daemon does on the desktop: pasting a text (Delivery), lowering the output
   while the user dictates (Ducking), running a tool within a deadline (Tools) and testing
   the microphone (Microphone): four parts that share no state.                        *)
EXTENDS Delivery, Ducking, Tools, Microphone

VARIABLE moving    \* bound: the part that moves; the others stay as they begin

desktopVars == <<deliveryVars, duckingVars, toolVars, testVars, moving>>

(* How a part that stays begins: one state stands for all. *)
DeliveryRests == ~waylandSession /\ focused = NoWindow /\ keyboard = {}
DuckingRests == enabled /\ default = CHOOSE s \in Sinks : TRUE

DesktopInit ==
  /\ moving \in {"delivery", "ducking", "tools", "microphone"}
  /\ DeliveryInit /\ (moving # "delivery" => DeliveryRests)
  /\ DuckingInit /\ (moving # "ducking" => DuckingRests)
  /\ ToolsInit
  /\ MicrophoneInit

DeliveryMoves ==
  /\ moving = "delivery" /\ DeliveryNext
  /\ UNCHANGED <<duckingVars, toolVars, testVars, moving>>

DuckingMoves ==
  /\ moving = "ducking" /\ DuckingNext
  /\ UNCHANGED <<deliveryVars, toolVars, testVars, moving>>

ToolsMove ==
  /\ moving = "tools" /\ ToolsNext
  /\ UNCHANGED <<deliveryVars, duckingVars, testVars, moving>>

MicrophoneMoves ==
  /\ moving = "microphone" /\ MicrophoneNext
  /\ UNCHANGED <<deliveryVars, duckingVars, toolVars, moving>>

DesktopNext == DeliveryMoves \/ DuckingMoves \/ ToolsMove \/ MicrophoneMoves

(* The daemon's threads go on and time passes; nothing else need happen. *)
DesktopSpec ==
  /\ DesktopInit /\ [][DesktopNext]_desktopVars
  /\ DeliveryFairness /\ DuckingFairness /\ ToolsFairness

(* Neither a tool nor a microphone test leaves anything behind it: ToolsAreBounded and
   TestKeepsNothing. *)
NothingOutlivesItsCall == ToolsAreBounded /\ TestKeepsNothing

(* What the daemon reports of a delivery, and decides the next step by, is so: the text is
   served (CopiedIsServed), no key was pressed (NotSentIsSafe), or the application took
   the text (ConsumedIsThePaste). *)
ReportsAreTrue == CopiedIsServed /\ NotSentIsSafe /\ ConsumedIsThePaste

(* A lowered output has one owner who knows its volume, and so does the journal:
   LoweredIsOwned and LoweredIsRecorded. *)
LoweredIsAccountedFor == DuckingTypeOK /\ LoweredIsOwned /\ LoweredIsRecorded

(* A delivery ends and the volume comes back: DeliveryEnds and VolumeComesBack. *)
DesktopSettles == DeliveryEnds /\ VolumeComesBack

================================================================================
