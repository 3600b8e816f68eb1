------------------------------ MODULE MCBridge ------------------------------
(* A scenario of four events for two devices, for model checking Bridge.   *)
EXTENDS Bridge, TLC

CONSTANTS smoke, radio

Observed(kind, device, data) ==
  [kind |-> "observation.created",
   data |-> [id |-> None, kind |-> kind, device |-> device, room |-> None, data |-> data]]

Known(kind, name) == [kind |-> kind, name |-> name, room |-> "hall", building |-> "b1"]

Devices == smoke :> Known("smoke_sensor", "Smoke 1") @@ radio :> Known("radio_channel", "Channel A")

(* The name of the smoke sensor is corrected between its two observations; *)
(* the last event is refused by the contract.                              *)
Scenario == <<
  Observed("measurement", smoke,
           [metric |-> "smoke_detected", value |-> "true", quality |-> "valid"]),
  [kind |-> "device.updated",
   data |-> [device |-> smoke, state |-> Known("smoke_sensor", "Smoke 1, hall")]],
  Observed("connectivity", smoke, [connected |-> "no"]),
  Observed("people_count", radio, [count |-> "2.0", quality |-> "suspect"]) >>
=============================================================================
