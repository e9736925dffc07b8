------------------------------ MODULE Platform ------------------------------
(* The parts around the requests: how customers and providers sign in and   *)
(* are limited, the devices they register, how an instance starts, the      *)
(* positions of a job and the app that collects them. No two of them share  *)
(* a table or a variable, so every property of one is decided by its own    *)
(* steps, and a behaviour here is one of one part.                          *)
EXTENDS CustomerSignIn, SignInLimits, ProviderSignIn, DeviceRegistry, ServiceStart,
        LocationSamples, ProviderTracking

Orders == INSTANCE SequencesExt

VARIABLE part       \* whose behaviour this is

platformVars == <<part, signInVars, limitVars, codeVars, deviceVars, serviceVars,
                  sampleVars, trackingVars>>

PlatformParts ==
    {"asks", "checks", "limits", "codes", "devices", "service", "samples", "client"}

PlatformInit ==
    /\ part \in PlatformParts
    /\ SignInInit /\ LimitsInit /\ CodesInit /\ DevicesInit /\ ServiceInit
    /\ SamplesInit /\ TrackingInit
    /\ part # "codes" => \A p \in Providers : given[p] = NoCode
    /\ part # "service" => built = {}
    /\ part # "client" => server.job = "assigned"

\* The calls of requestOtp on their own, up to their being accepted. They are
\* interchangeable, so they may be taken to begin in one order ...
Queue == Orders!SetToSeq(Asks)

AsksNext ==
    /\ SignInNext
    /\ \A i \in 2..Len(Queue) :
           ask'[Queue[i]].step # "idle" => ask'[Queue[i - 1]].step # "idle"
    /\ \A a \in Asks : ask[a].step = "accepted" => ask'[a] = ask[a]

\* ... and the checks of the challenge that a single one of them makes.
ChecksNext ==
    /\ SignInNext
    /\ Cardinality({a \in Asks : ask'[a].step # "idle"}) <= 1

PlatformNext ==
    \/ /\ part = "asks" /\ AsksNext
       /\ UNCHANGED <<part, limitVars, codeVars, deviceVars, serviceVars,
                      sampleVars, trackingVars>>
    \/ /\ part = "checks" /\ ChecksNext
       /\ UNCHANGED <<part, limitVars, codeVars, deviceVars, serviceVars,
                      sampleVars, trackingVars>>
    \/ /\ part = "limits" /\ LimitsNext
       /\ UNCHANGED <<part, signInVars, codeVars, deviceVars, serviceVars,
                      sampleVars, trackingVars>>
    \/ /\ part = "codes" /\ CodesNext
       /\ UNCHANGED <<part, signInVars, limitVars, deviceVars, serviceVars,
                      sampleVars, trackingVars>>
    \/ /\ part = "devices" /\ DevicesNext
       /\ UNCHANGED <<part, signInVars, limitVars, codeVars, serviceVars,
                      sampleVars, trackingVars>>
    \/ /\ part = "service" /\ ServiceNext
       /\ UNCHANGED <<part, signInVars, limitVars, codeVars, deviceVars,
                      sampleVars, trackingVars>>
    \/ /\ part = "samples" /\ SamplesNext
       /\ UNCHANGED <<part, signInVars, limitVars, codeVars, deviceVars,
                      serviceVars, trackingVars>>
    \/ /\ part = "client" /\ TrackingNext
       /\ UNCHANGED <<part, signInVars, limitVars, codeVars, deviceVars,
                      serviceVars, sampleVars>>

PlatformSpec == PlatformInit /\ [][PlatformNext]_platformVars

-----------------------------------------------------------------------------
(* The state of every part has its type.                                    *)
PlatformTypeOK ==
    /\ SignInTypeOK /\ LimitsTypeOK /\ CodesTypeOK /\ DevicesTypeOK /\ ServiceTypeOK
    /\ SamplesTypeOK /\ TrackingTypeOK

=============================================================================
