------------------------------ MODULE MCClient ------------------------------
(* The parts of the client.  They share no variable: a behaviour moves one of  *)
(* them, the others stay where they start, so that one run explores the states *)
(* of each part and not their product.  Where a part has several initial       *)
(* states, all of them belong to the behaviours that move it.  Of the pages of *)
(* a device the uploads and the registrations are each explored by themselves, *)
(* as they meet only in the page that is mounted.                              *)
EXTENDS PageViews, AlertFeed, DeviceSearch, CommandStreamPage, DevicePage, ThresholdViews

VARIABLE part

clientVars ==
    <<part, liveVars, feedVars, searchVars, streamVars, deviceVars, thresholdVars>>

Init ==
    /\ part \in {"views", "feed", "search", "stream", "uploads", "registrations", "thresholds"}
    /\ LiveInit /\ FeedInit /\ SearchInit /\ StreamInit /\ DeviceInit /\ ThresholdInit
    /\ part # "views" => key = "summary"
    /\ part \notin {"uploads", "registrations"} => registered = Provisioned
    /\ part # "thresholds" => threshold = [normal |-> 0, critical |-> 1]

StillLive == UNCHANGED liveVars
StillFeed == UNCHANGED feedVars
StillSearch == UNCHANGED searchVars
StillStream == UNCHANGED streamVars
StillDevice == UNCHANGED deviceVars
StillThresholds == UNCHANGED thresholdVars

Next ==
    /\ part' = part
    /\ \/ /\ part = "views" /\ LiveNext
          /\ StillFeed /\ StillSearch /\ StillStream /\ StillDevice /\ StillThresholds
       \/ /\ part = "feed" /\ FeedNext
          /\ StillLive /\ StillSearch /\ StillStream /\ StillDevice /\ StillThresholds
       \/ /\ part = "search" /\ SearchNext
          /\ StillLive /\ StillFeed /\ StillStream /\ StillDevice /\ StillThresholds
       \/ /\ part = "stream" /\ StreamNext
          /\ StillLive /\ StillFeed /\ StillSearch /\ StillDevice /\ StillThresholds
       \/ /\ part = "uploads" /\ DeviceNext /\ UNCHANGED attempts
          /\ StillLive /\ StillFeed /\ StillSearch /\ StillStream /\ StillThresholds
       \/ /\ part = "registrations" /\ DeviceNext /\ UNCHANGED uploads
          /\ StillLive /\ StillFeed /\ StillSearch /\ StillStream /\ StillThresholds
       \/ /\ part = "thresholds" /\ ThresholdNext
          /\ StillLive /\ StillFeed /\ StillSearch /\ StillStream /\ StillDevice

Spec == Init /\ [][Next]_clientVars
=============================================================================
