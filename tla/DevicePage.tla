------------------------------ MODULE DevicePage ------------------------------
(* frontend/src/pages/DeviceDetails.jsx with the files attached to a device,   *)
(* backend/Endpoints/FileEndpoints.cs that stores them, and                    *)
(* frontend/src/pages/DeviceRegistration.jsx that leads to a new device's page.*)
(*                                                                             *)
(* The page stays mounted from one device to the next, and an upload that is   *)
(* under way then takes the options of the device that is shown: the device    *)
(* whose list its success refreshes and, when it had to wait for the browser   *)
(* to be online, the device it is sent to (the query library's rule, external).*)
(* A form that is changed while its request waits is left out.  The entries of *)
(* the cache do not act on one another, so the files of one device are         *)
(* followed; every other device is a page the user can be on.                  *)
EXTENDS QueryCache, Naturals

CONSTANTS Devices,     \* devices that can be registered
          Provisioned, \* those that are from the start, perhaps with others
          Followed,    \* the device whose list of files is followed
          MaxUploads,  \* bound on the files picked
          MaxAttempts  \* bound on the registrations submitted

ASSUME PageAssumption ==
    /\ Provisioned \subseteq Devices /\ Followed \in Devices
    /\ "register" \notin Devices /\ "other" \notin Devices
    /\ MaxUploads \in Nat /\ MaxAttempts \in Nat

VARIABLES registered, \* rows of the table of devices
          rows,       \* uploads that have a row in device_files
          disk,       \* uploads that have a file under /app/uploads
          place,      \* the page that is mounted: a device's, the form, or another
          deviceList, \* the cache's entry of the devices
          files,      \* its entry of the files of Followed
          uploads,    \* the uploads
          attempts,   \* the registrations
          atNetwork,  \* the browser says that it is online
          lost,       \* history: uploads whose row was inserted with the answer lost
          missed      \* history: what was stored with an older list that no refresh reaches

serverVars == <<registered, rows, disk, lost>>
listVars == <<deviceList, files, missed>>
deviceVars == <<serverVars, place, listVars, uploads, attempts, atNetwork>>

Uploads == 1 .. MaxUploads
Attempts == 1 .. MaxAttempts
Clients == {"unused", "paused", "pending", "told", "failed"}
Servers == {"idle", "sent", "copied", "stored", "failed"}
Places == Devices \cup {"register", "other"}

\* options: the device of its options; mounted: the page it was picked on still is.
Upload == [client : Clients, server : Servers, options : Devices \cup {"other"},
           url : Devices \cup {"other"}, mounted : BOOLEAN]
Attempt == [client : Clients, server : Servers, device : Devices \cup {"other"}]

NoUpload == [client |-> "unused", server |-> "idle", options |-> "other", url |-> "other",
             mounted |-> FALSE]
NoAttempt == [client |-> "unused", server |-> "idle", device |-> "other"]

DeviceTypeOK ==
    /\ registered \subseteq Devices
    /\ rows \subseteq Uploads /\ disk \subseteq Uploads /\ lost \subseteq Uploads
    /\ place \in Places
    /\ deviceList \in Entries(SUBSET Devices)
    /\ files \in Entries(SUBSET Uploads)
    /\ uploads \in [Uploads -> Upload] /\ attempts \in [Attempts -> Attempt]
    /\ atNetwork \in BOOLEAN
    /\ missed \subseteq [file : Uploads] \cup [device : Devices]

DeviceInit ==
    /\ registered \in {s \in SUBSET Devices : Provisioned \subseteq s}
    /\ rows = {} /\ disk = {} /\ lost = {}
    /\ place = "other"
    /\ deviceList = NoEntry /\ files = NoEntry
    /\ uploads = [n \in Uploads |-> NoUpload]
    /\ attempts = [n \in Attempts |-> NoAttempt]
    /\ atNetwork = TRUE
    /\ missed = {}
-----------------------------------------------------------------------------
(* The pages.                                                                  *)

OnDevicePage == place \in Devices
UnderWay(r) == r.client \in {"paused", "pending"}

\* Page p mounts, with q as the list of devices: what it observes is stale at
\* once, and an upload keeps or loses the page that shows it.
Mount(p, q) ==
    /\ place' = p
    /\ deviceList' = IF p \in Devices /\ ~OnDevicePage THEN AskIfDue(q, TRUE, atNetwork) ELSE q
    /\ files' = IF p = Followed /\ p # place THEN AskIfDue(files, TRUE, atNetwork) ELSE files
    /\ uploads' = [n \in Uploads |->
                      IF ~(uploads[n].mounted /\ UnderWay(uploads[n])) THEN uploads[n]
                      ELSE IF p \in Devices THEN [uploads[n] EXCEPT !.options = p]
                      ELSE [uploads[n] EXCEPT !.mounted = FALSE]]

\* Links, the search's suggestions, the bell's alerts, Back.
GoToPage(p) ==
    /\ p # place
    /\ Mount(p, deviceList)
    /\ UNCHANGED <<serverVars, missed, attempts, atNetwork>>

\* The early returns: the device is on the page.
DeviceShown(d) ==
    /\ place = d
    /\ ~IsLoading(deviceList) /\ ~deviceList.error
    /\ \E list \in deviceList.data : d \in list

\* The list of Attached Files.
FilesListed(q) ==
    IF IsLoading(q) \/ q.error THEN {} ELSE UNION q.data

WindowFocus ==
    /\ OnDevicePage
    /\ deviceList' = AskIfDue(deviceList, TRUE, atNetwork)
    /\ files' = IF place = Followed THEN AskIfDue(files, TRUE, atNetwork) ELSE files
    /\ UNCHANGED <<serverVars, place, missed, uploads, attempts, atNetwork>>

NetworkLost ==
    /\ atNetwork
    /\ atNetwork' = FALSE
    /\ UNCHANGED <<serverVars, place, listVars, uploads, attempts>>

\* What is paused goes on, an upload to the device of its options; what is
\* mounted is asked for.
NetworkBack ==
    LET resumed(q) == IF q.fetch = "paused" THEN Ask(q, TRUE) ELSE q
    IN  /\ ~atNetwork
        /\ atNetwork' = TRUE
        /\ deviceList' = IF OnDevicePage THEN AskIfDue(resumed(deviceList), TRUE, TRUE)
                                         ELSE resumed(deviceList)
        /\ files' = IF place = Followed THEN AskIfDue(resumed(files), TRUE, TRUE)
                                        ELSE resumed(files)
        /\ uploads' = [n \in Uploads |->
                          IF uploads[n].client = "paused"
                          THEN [uploads[n] EXCEPT !.client = "pending", !.server = "sent",
                                                  !.url = uploads[n].options]
                          ELSE uploads[n]]
        /\ attempts' = [n \in Attempts |->
                          IF attempts[n].client = "paused"
                          THEN [attempts[n] EXCEPT !.client = "pending", !.server = "sent"]
                          ELSE attempts[n]]
        /\ UNCHANGED <<serverVars, place, missed>>
-----------------------------------------------------------------------------
(* The requests of the lists.                                                  *)

ListAnswered ==
    /\ deviceList.fetch = "asked"
    /\ deviceList' = Compute(deviceList, registered)
    /\ UNCHANGED <<serverVars, place, files, missed, uploads, attempts, atNetwork>>

ListSettles ==
    /\ \/ deviceList.fetch = "answered" /\ deviceList' = Settle(deviceList)
       \/ deviceList.fetch \in {"asked", "answered"} /\ deviceList' = Fail(deviceList)
    /\ UNCHANGED <<serverVars, place, files, missed, uploads, attempts, atNetwork>>

FilesAnswered ==
    /\ files.fetch = "asked"
    /\ files' = Compute(files, {n \in rows : uploads[n].url = Followed})
    /\ UNCHANGED <<serverVars, place, deviceList, missed, uploads, attempts, atNetwork>>

FilesSettle ==
    /\ \/ files.fetch = "answered" /\ files' = Settle(files)
       \/ files.fetch \in {"asked", "answered"} /\ files' = Fail(files)
    /\ UNCHANGED <<serverVars, place, deviceList, missed, uploads, attempts, atNetwork>>
-----------------------------------------------------------------------------
(* Uploads.                                                                    *)

\* A file is picked: Attach Files is disabled while the page has one under way.
Attach(n) ==
    /\ OnDevicePage /\ DeviceShown(place)
    /\ uploads[n].client = "unused"
    /\ \A m \in Uploads : ~(uploads[m].mounted /\ UnderWay(uploads[m]))
    /\ uploads' = [uploads EXCEPT ![n] =
                      [client |-> IF atNetwork THEN "pending" ELSE "paused",
                       server |-> IF atNetwork THEN "sent" ELSE "idle",
                       url |-> IF atNetwork THEN place ELSE "other",
                       options |-> place, mounted |-> TRUE]]
    /\ UNCHANGED <<serverVars, place, listVars, attempts, atNetwork>>

\* The server's handler moves from one step to the next.
ServerStep(n, from, to) ==
    /\ uploads[n].server = from
    /\ uploads' = [uploads EXCEPT ![n].server = to]
    /\ UNCHANGED <<registered, place, listVars, attempts, atNetwork>>

\* A file of a wrong size or type, or a device that does not exist.
RefuseFile(n) == ServerStep(n, "sent", "failed") /\ UNCHANGED <<rows, disk, lost>>

\* File.Create and CopyToAsync, which may fail and leave what they wrote.
CopyFile(n) ==
    /\ \E to \in {"copied", "failed"} : ServerStep(n, "sent", to)
    /\ disk' = disk \cup {n}
    /\ UNCHANGED <<rows, lost>>

\* Mutant: the row is inserted before the file is there.
InsertRow_First(n) ==
    /\ \E from \in {"sent", "copied"} : ServerStep(n, from, "stored")
    /\ rows' = rows \cup {n}
    /\ UNCHANGED <<disk, lost>>

InsertRow(n) ==
    /\ ServerStep(n, "copied", "stored")
    /\ rows' = rows \cup {n}
    /\ UNCHANGED <<disk, lost>>

\* The insert throws and the file is deleted; the database may have done it.
InsertFails(n) ==
    /\ ServerStep(n, "copied", "failed")
    /\ disk' = disk \ {n}
    /\ \E done \in {{}, {n}} : rows' = rows \cup done /\ lost' = lost \cup done

\* The server stops between any two steps of its handlers.
ServerStops ==
    /\ \E n \in Uploads : uploads[n].server \in {"sent", "copied"}
    /\ uploads' = [n \in Uploads |->
                      IF uploads[n].server \in {"sent", "copied"}
                      THEN [uploads[n] EXCEPT !.server = "failed"] ELSE uploads[n]]
    /\ UNCHANGED <<serverVars, place, listVars, attempts, atNetwork>>

\* Mutant: the list is not refreshed.
UploadSucceeds_NoRefresh(n) ==
    /\ uploads[n].client = "pending" /\ uploads[n].server = "stored"
    /\ uploads' = [uploads EXCEPT ![n].client = "told"]
    /\ UNCHANGED <<serverVars, place, listVars, attempts, atNetwork>>

\* onSuccess refreshes the list of the device of its options, which is another
\* than the one it was stored for once the page was left on that one.
UploadSucceeds(n) ==
    LET device == uploads[n].options
        url == uploads[n].url
    IN  /\ uploads[n].client = "pending" /\ uploads[n].server = "stored"
        /\ uploads' = [uploads EXCEPT ![n].client = "told"]
        /\ files' = IF device = Followed THEN Invalidate(files, device = place, atNetwork)
                                         ELSE files
        /\ missed' = IF \/ \E list \in files'.answer : n \notin list
                        \/ device # url /\ place = url
                     THEN missed \cup {[file |-> n]} ELSE missed
        /\ UNCHANGED <<serverVars, place, deviceList, attempts, atNetwork>>

\* onError: refused, failed, or the connection was lost whatever the server did.
UploadFails(n) ==
    /\ uploads[n].client = "pending"
    /\ uploads' = [uploads EXCEPT ![n].client = "failed"]
    /\ UNCHANGED <<serverVars, place, listVars, attempts, atNetwork>>
-----------------------------------------------------------------------------
(* Registrations.                                                              *)

\* The form's submit, which an attempt under way does not disable.
Submit(n, d) ==
    /\ place = "register"
    /\ attempts[n].client = "unused"
    /\ attempts' = [attempts EXCEPT ![n] =
                       [client |-> IF atNetwork THEN "pending" ELSE "paused",
                        server |-> IF atNetwork THEN "sent" ELSE "idle", device |-> d]]
    /\ UNCHANGED <<serverVars, place, listVars, uploads, atNetwork>>

\* The endpoint: a device that exists is a conflict, other data may be refused.
RegisterDevice(n) ==
    /\ attempts[n].server = "sent"
    /\ \/ /\ attempts[n].device \notin registered
          /\ registered' = registered \cup {attempts[n].device}
          /\ attempts' = [attempts EXCEPT ![n].server = "stored"]
       \/ /\ attempts' = [attempts EXCEPT ![n].server = "failed"]
          /\ UNCHANGED registered
    /\ UNCHANGED <<rows, disk, lost, place, listVars, uploads, atNetwork>>

\* onSuccess: the list is refreshed and the device's page opened, wherever the
\* user is by then.
RegistrationSucceeds(n) ==
    LET device == attempts[n].device
    IN  /\ attempts[n].client = "pending" /\ attempts[n].server = "stored"
        /\ attempts' = [attempts EXCEPT ![n].client = "told"]
        /\ Mount(device, Invalidate(deviceList, OnDevicePage, atNetwork))
        /\ missed' = IF \E list \in deviceList'.answer : device \notin list
                     THEN missed \cup {[device |-> device]} ELSE missed
        /\ UNCHANGED <<serverVars, atNetwork>>

RegistrationFails(n) ==
    /\ attempts[n].client = "pending"
    /\ attempts' = [attempts EXCEPT ![n].client = "failed"]
    /\ UNCHANGED <<serverVars, place, listVars, uploads, atNetwork>>

DeviceNext ==
    \/ \E p \in Places : GoToPage(p)
    \/ WindowFocus \/ NetworkLost \/ NetworkBack
    \/ ListAnswered \/ ListSettles
    \/ FilesAnswered \/ FilesSettle
    \/ \E n \in Uploads :
           \/ Attach(n) \/ UploadSucceeds(n) \/ UploadFails(n)
           \/ RefuseFile(n) \/ CopyFile(n) \/ InsertRow(n) \/ InsertFails(n)
    \/ ServerStops
    \/ \E n \in Attempts :
           \/ \E d \in Devices : Submit(n, d)
           \/ RegisterDevice(n) \/ RegistrationSucceeds(n) \/ RegistrationFails(n)
-----------------------------------------------------------------------------
(* Properties.                                                                 *)

Quiet(q) == q.fetch = "idle" /\ ~q.error

\* Once the page of a device is quiet, it lists every file the user was told is
\* stored for that device, and a device the user was told is registered is on
\* its page: through page changes while the upload was under way, a wait for
\* the network, failures and late answers.  Left out is what was stored while an
\* older list was under way that the refresh does not cancel, or while the page
\* shows the device anew after it was left on another one (missed).  Code:
\* onSuccess of DeviceDetails and of DeviceRegistration.
ToldIsShown ==
    OnDevicePage =>
        /\ \A n \in Uploads :
               uploads[n].client = "told" /\ uploads[n].url = Followed /\ place = Followed
               /\ [file |-> n] \notin missed /\ Quiet(files)
                   => n \in FilesListed(files)
        /\ \A n \in Attempts :
               attempts[n].client = "told" /\ attempts[n].device = place
               /\ [device |-> place] \notin missed /\ Quiet(deviceList)
                   => DeviceShown(place)

\* Every file that a list offers is on the disk, through failures of the copy or
\* the insert and stops of the server, but for an insert the server was told
\* had failed.  Code: the order of POST's copy and insert, and its catch.
RowsHaveFiles == rows \ lost \subseteq disk
=============================================================================
