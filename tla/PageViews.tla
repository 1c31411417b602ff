------------------------------ MODULE PageViews ------------------------------
(* What the components of frontend/src show of a query of LiveViews: a         *)
(* skeleton, an error, the note that there is nothing, the data, or the page's *)
(* crash where the code reads the data it does not have.  Wording and layout   *)
(* are left out.                                                               *)
EXTENDS LiveViews

\* The answer holds nothing to show: no day closed, or no command was sent.
NoDays(q) == \A value \in q.data : value.days = 0
NoCommands(q) == \A value \in q.data : value.changes = 0

\* CommandStream's tiles and strip: the data of an earlier answer outlives a
\* failed refresh, and while the browser is offline nothing may be shown.
NetworkSummary(q) ==
    CASE q.error /\ q.data = {} -> "error"
      [] IsLoading(q) -> "loading"
      [] ~IsLoading(q) /\ q.data # {} -> "data"
      [] OTHER -> "blank"

\* The three cards on snapshots, that take an answer they have not for an
\* empty one.
ScopeCard(q) ==
    CASE IsLoading(q) -> "loading"
      [] q.error /\ NoDays(q) -> "error"
      [] ~q.error /\ ~IsLoading(q) /\ NoDays(q) -> "nothing"
      [] OTHER -> "data"

ScopeSummaryTable(q) == ScopeCard(q)
MetricByZoneChart(q) == ScopeCard(q)
SubzoneMetricGrid(q) == ScopeCard(q)

\* A failed refresh hides the data.
Guarded(q, empty) ==
    CASE IsLoading(q) -> "loading"
      [] q.error -> "error"
      [] ~IsLoading(q) /\ ~q.error /\ empty -> "nothing"
      [] OTHER -> "data"

DeviceTimeline(q) == Guarded(q, NoDays(q))

\* Components that read the data once it neither loads nor failed.
Reads(q) ==
    CASE IsLoading(q) -> "loading"
      [] q.error -> "error"
      [] ~IsLoading(q) /\ ~q.error /\ q.data = {} -> "crash"
      [] OTHER -> "data"

\* Mutant: the branch for the error is dropped.
DeviceLivePanel_NoErrorBranch(q) ==
    IF IsLoading(q) THEN "loading" ELSE IF q.data = {} THEN "crash" ELSE "data"

DeviceLivePanel(q) == Reads(q)

DeviceRecentCommands(q) ==
    IF Reads(q) = "data" /\ NoCommands(q) THEN "nothing" ELSE Reads(q)

\* history falls back to the empty list, so that nothing is shown for no answer.
CommandHistory(q) == Guarded(q, NoCommands(q))

\* The page reads minSupport of the answer, outside any boundary.
InsightsPage(q) == Reads(q)

SearchResults(q) ==
    CASE IsLoading(q) -> "loading"
      [] q.error /\ q.data = {} -> "error"
      [] ~IsLoading(q) /\ q.data # {} -> "data"
      [] OTHER -> "blank"

\* The page reads the list of devices, outside any boundary.
DeviceList(q) == Reads(q)

\* data?.find: a device that is in no list is not found.
DeviceDetails(q) == Guarded(q, q.data = {})

\* Two components of a device's page that ask neither whether the query loads
\* nor whether it failed: without an answer there are no readings for the
\* table, and no alerts for the button to acknowledge.
Defaulted(q, empty) == IF q.data = {} \/ empty THEN "nothing" ELSE "data"

RecentReadingsTable(q) == Defaulted(q, NoDays(q))
DeviceCommands(q) == Defaulted(q, FALSE)

\* What the mounted page shows of the entry that is followed, by component.
Shown ==
    CASE page = "stream" /\ key = "summary" -> {<<"NetworkSummary", NetworkSummary(query)>>}
      [] page = "stream" /\ key = "snapshots" ->
             {<<"ScopeSummaryTable", ScopeSummaryTable(query)>>,
              <<"MetricByZoneChart", MetricByZoneChart(query)>>,
              <<"SubzoneMetricGrid", SubzoneMetricGrid(query)>>}
      [] page = "device" /\ key = "device" ->
             {<<"DeviceLivePanel", DeviceLivePanel(query)>>,
              <<"DeviceTimeline", DeviceTimeline(query)>>,
              <<"RecentReadingsTable", RecentReadingsTable(query)>>,
              <<"DeviceCommands", DeviceCommands(query)>>}
      [] page = "device" /\ key = "commands" ->
             {<<"DeviceRecentCommands", DeviceRecentCommands(query)>>}
      [] page = "device" /\ key = "devices" -> {<<"DeviceDetails", DeviceDetails(query)>>}
      [] page = "history" /\ key = "commands" -> {<<"CommandHistory", CommandHistory(query)>>}
      [] page = "insights" /\ key = "insights" -> {<<"InsightsPage", InsightsPage(query)>>}
      [] page = "devices" /\ key = "devices" -> {<<"DeviceList", DeviceList(query)>>}
      [] page = "results" /\ key = "search" -> {<<"SearchResults", SearchResults(query)>>}
      [] OTHER -> {}

\* The components that take no answer for an empty one.
Unguarded == {"RecentReadingsTable", "DeviceCommands"}

\* While the browser is online no component crashes on an answer it has not,
\* stays blank, or says that there is nothing where the server has not said so:
\* the combination of a mount, a failure, an invalidation and a page change that
\* leaves a mounted page with neither data, request nor error does not exist.
\* The two unguarded components do say that there is nothing during a first
\* load and after it failed; whenever they do, another component of the page
\* says that it loads or that it failed.
NoViewGuesses ==
    query.data = {} /\ query.fetch # "paused" =>
        /\ \A view \in Shown :
              \/ view[2] \notin {"crash", "blank", "nothing"}
              \/ view[1] \in Unguarded /\ view[2] = "nothing"
        /\ (\E view \in Shown : view[2] = "nothing") =>
              \E view \in Shown : view[2] \in {"loading", "error"}
=============================================================================
