------------------------------- MODULE Mapper -------------------------------
(***************************************************************************)
(* What the bridge makes of an event of the state machine                  *)
(* (platform/app/adapter/mapper.py): a telemetry item for                  *)
(* POST /ingest/telemetry, or nothing.  Also the part of the contract of   *)
(* that endpoint that decides whether the item is taken                    *)
(* (platform/app/schemas/telemetry.py, device.py).                         *)
(*                                                                         *)
(* Fields that are only copied (payload, unit, times) are left out.  A     *)
(* value of a measurement is named by what float() makes of it.            *)
(***************************************************************************)
EXTENDS Integers

CONSTANTS Device, None

(* What the cache knows of a device; a missing entry reads as missing fields. *)
Unknown == [kind |-> None, name |-> None, room |-> None, building |-> None]

ApplyDeviceState(meta, s) ==
  IF s.device = None THEN meta ELSE [meta EXCEPT ![s.device] = s.state]

ApplySnapshot(meta, devices) ==
  [d \in Device |-> IF d \in DOMAIN devices THEN devices[d] ELSE meta[d]]

TypeOfKind(kind) ==
  CASE kind \in {"temperature_sensor", "multisensor"} -> "iot"
    [] kind = "smoke_sensor" -> "fire_panel"
    [] kind = "camera" -> "cctv"
    [] kind = "radio_channel" -> "radio"
    [] OTHER -> "other"

MetricType(metric) ==
  CASE metric \in {"temperature", "obscuration", "co", "eco2"} -> metric
    [] metric = "smoke_detected" -> "smoke"
    [] OTHER -> "other"

TypeOfMetric(metric) ==
  IF metric \in {"obscuration", "smoke_detected", "co", "eco2"}
  THEN "fire_panel" ELSE "iot"

(* The device is named after itself when the cache has no name for it, and *)
(* the room of the observation comes before the room in the cache.         *)
Envelope(o, type, meta) ==
  [external_id |-> <<"sm-", o.device>>, type |-> type,
   name |-> IF meta[o.device].name # None THEN meta[o.device].name ELSE o.device,
   zone |-> IF o.room # None THEN o.room ELSE meta[o.device].room,
   building |-> meta[o.device].building]

Item(o, type, metric, meta) ==
  [device |-> Envelope(o, type, meta), metric_type |-> metric,
   external_event_id |-> o.id, value |-> None, quality |-> None,
   availability |-> None, transcript |-> None, audio_duration_ms |-> None]

MapMeasurement(o, meta) ==
  [Item(o, TypeOfMetric(o.data.metric), MetricType(o.data.metric), meta) EXCEPT
     !.value = CASE o.data.value = "true" -> "1.0"
                 [] o.data.value = "false" -> "0.0"
                 [] o.data.value = "text" -> None
                 [] OTHER -> o.data.value,
     !.quality = o.data.quality]

MapCamera(o, meta) == Item(o, "cctv", "video_event", meta)

MapAccess(o, meta) == Item(o, "other", "access", meta)

MapRadioTranscript(o, meta) ==
  [Item(o, "radio", "radio_audio", meta) EXCEPT
     !.transcript = o.data.text,
     !.audio_duration_ms = IF None \in {o.data.start, o.data.end}
                           THEN None ELSE o.data.end - o.data.start]

MapPeopleCount(o, meta) ==
  [Item(o, "other", "occupancy", meta) EXCEPT
     !.value = o.data.count, !.quality = o.data.quality]

(* The only kind of observation whose device type comes from the cache.    *)
MapConnectivity(o, meta) ==
  [Item(o, TypeOfKind(meta[o.device].kind), "system", meta) EXCEPT
     !.value = CASE o.data.connected = "yes" -> "1.0"
                 [] o.data.connected = "no" -> "0.0"
                 [] OTHER -> None,
     !.availability = IF o.data.connected = "yes" THEN "fresh" ELSE "disconnected"]

ObservationKinds == {"measurement", "camera", "access", "radio_transcript", "people_count",
                     "connectivity"}

MapObservation(o, meta) ==
  CASE o.kind = "measurement" -> MapMeasurement(o, meta)
    [] o.kind = "camera" -> MapCamera(o, meta)
    [] o.kind = "access" -> MapAccess(o, meta)
    [] o.kind = "radio_transcript" -> MapRadioTranscript(o, meta)
    [] o.kind = "people_count" -> MapPeopleCount(o, meta)
    [] o.kind = "connectivity" -> MapConnectivity(o, meta)
    [] OTHER -> None

(* The cache after an event, and the item to forward.                      *)
MetaAfter(e, meta) ==
  IF e.kind = "device.updated" THEN ApplyDeviceState(meta, e.data) ELSE meta

MapEvent(e, meta) ==
  IF e.kind = "observation.created" THEN MapObservation(e.data, meta) ELSE None

-----------------------------------------------------------------------------
(* The contract of the ingestion endpoint: anything else is refused (422). *)
DeviceTypes == {"cctv", "iot", "fire_panel", "alarm", "water_sensor", "radio", "other"}
MetricTypes == {"temperature", "smoke", "water_level", "motion", "video_event",
                "heartbeat", "other", "access", "occupancy", "radio_audio",
                "system", "obscuration", "co", "eco2"}
Qualities == {"valid", "missing", "invalid"}
Availabilities == {"fresh", "stale", "missing", "invalid", "disconnected"}

Accepts(t) ==
  /\ t.device.type \in DeviceTypes
  /\ t.metric_type \in MetricTypes
  /\ t.quality \in Qualities \cup {None}
  /\ t.availability \in Availabilities \cup {None}
=============================================================================
