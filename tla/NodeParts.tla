------------------------------ MODULE NodeParts ------------------------------
(***************************************************************************)
(* Five parts that the pipeline relies on and that share no state: the     *)
(* configuration file, the limiter of an endpoint, connecting, what is     *)
(* captured of a block, and the rows it is decoded to.  A behaviour is one *)
(* part at work while the others rest, so that the runs of the five are    *)
(* one.                                                                    *)
(***************************************************************************)
EXTENDS Settings, Limiter, Capture, Endpoints, Decoding

VARIABLE part

vars == <<part, settingsVars, limiterVars, captureVars, endpointVars, decodingVars>>

Init ==
    /\ part \in {"settings", "limiter", "capture", "endpoints", "decoding"}
    /\ SettingsInit /\ LimiterInit /\ CaptureInit
    /\ EndpointsInit /\ DecodingInit
    \* one start for the parts that never connect
    /\ part # "endpoints" => node = [u \in Urls |-> CHOOSE g \in Geneses : TRUE]

NotSettings  == UNCHANGED <<part, limiterVars, captureVars, endpointVars, decodingVars>>
NotLimiter   == UNCHANGED <<part, settingsVars, captureVars, endpointVars, decodingVars>>
NotCapture   == UNCHANGED <<part, settingsVars, limiterVars, endpointVars, decodingVars>>
NotEndpoints == UNCHANGED <<part, settingsVars, limiterVars, captureVars, decodingVars>>
NotDecoding  == UNCHANGED <<part, settingsVars, limiterVars, captureVars, endpointVars>>

TheSettings  == part = "settings"  /\ SettingsNext  /\ NotSettings
TheLimiter   == part = "limiter"   /\ LimiterNext   /\ NotLimiter
TheCapture   == part = "capture"   /\ CaptureNext   /\ NotCapture
TheEndpoints == part = "endpoints" /\ EndpointsNext /\ NotEndpoints
TheDecoding  == part = "decoding"  /\ DecodingNext  /\ NotDecoding

Next == TheSettings \/ TheLimiter \/ TheCapture \/ TheEndpoints \/ TheDecoding

(***************************************************************************)
(* Time passes, and the task of a worker is polled again and again.        *)
(***************************************************************************)
Fairness == /\ WF_vars(part = "limiter" /\ Tick /\ NotLimiter)
            /\ WF_vars(part = "limiter" /\ Work /\ NotLimiter)

Spec == Init /\ [][Next]_vars /\ Fairness

(***************************************************************************)
(* The types of the limiter, whose bounds say that rate, tokens, backoff   *)
(* and wait stay where limiter.rs clamps them, and of the other parts.     *)
(***************************************************************************)
PartsTypeOK ==
    /\ LimiterTypeOK
    /\ load \in {"edited", "parsed", "resolved", "accepted", "rejected"}
    /\ edits \in 0 .. MaxEdits
    /\ chunk \in [Blocks -> {"pending", "leased", "done"}]
    /\ seen \subseteq Specs /\ loaded \subseteq Specs
    /\ saved \in [Blocks -> {0} \cup Specs] /\ decoded \in [Blocks -> {0} \cup Specs]
    /\ node \in [Urls -> Geneses] /\ chains \in Geneses \cup {Unknown}
    /\ \A p \in Commands : process[p].tried \in 0 .. Configured
    /\ cursor \in 0 .. Len(applied) /\ applied \in Seq(Bodies)
=============================================================================
