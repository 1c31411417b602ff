------------------------------ MODULE AlertFeed ------------------------------
(* The alerts the client was pushed: LiveConnectionProvider's recentAlerts and *)
(* unreadAlerts, and components/NotificationBell.jsx that shows them and marks *)
(* the new ones when it is opened.  What is on the screen, and what a click's  *)
(* handler works on, is what was rendered last: a push that was handled since  *)
(* is not in it.  Alerts are numbered in the order they were raised; those     *)
(* raised while the client is not connected never arrive.                      *)
EXTENDS Naturals, Sequences, FiniteSets, SequencesExt

CONSTANTS MaxAlerts,        \* bound on alerts raised
          RecentAlertLimit  \* RECENT_ALERT_LIMIT, 50 in the code

ASSUME FeedAssumption == MaxAlerts \in Nat /\ RecentAlertLimit \in Nat \ {0}

VARIABLES raised,      \* alerts raised so far
          feed,        \* recentAlerts, newest first
          unread,      \* unreadAlerts
          rendered,    \* the feed and the number of the last render
          open,        \* the bell's list is open
          highlighted, \* the alerts it marks as new
          seen,        \* history: alerts the list marked as new when it was opened
          slipped,     \* history: alerts that came after the last render before an opening
          twice        \* history: some alert was marked as new at two openings

feedVars == <<raised, feed, unread, rendered, open, highlighted, seen, slipped, twice>>

Alerts == 1 .. MaxAlerts
Newest(s, n) == {s[i] : i \in DOMAIN s \cap 1 .. n}

FeedTypeOK ==
    /\ raised \in 0 .. MaxAlerts
    /\ feed \in Seq(Alerts) /\ Len(feed) <= RecentAlertLimit
    /\ unread \in 0 .. RecentAlertLimit
    /\ rendered.feed \in Seq(Alerts) /\ rendered.unread \in 0 .. RecentAlertLimit
    /\ open \in BOOLEAN /\ twice \in BOOLEAN
    /\ highlighted \subseteq Alerts /\ seen \subseteq Alerts /\ slipped \subseteq Alerts

FeedInit ==
    /\ raised = 0
    /\ feed = <<>> /\ unread = 0
    /\ rendered = [feed |-> <<>>, unread |-> 0]
    /\ open = FALSE /\ highlighted = {}
    /\ seen = {} /\ slipped = {} /\ twice = FALSE
-----------------------------------------------------------------------------
\* The handler of AlertRaised: both updates are queued and rendered later.
AlertArrives ==
    /\ raised < MaxAlerts
    /\ raised' = raised + 1
    /\ feed' = SubSeq(<<raised'>> \o feed, 1, IF Len(feed) < RecentAlertLimit
                                              THEN Len(feed) + 1 ELSE RecentAlertLimit)
    /\ unread' = IF unread < RecentAlertLimit THEN unread + 1 ELSE unread
    /\ UNCHANGED <<rendered, open, highlighted, seen, slipped, twice>>

\* An alert that is raised while the client is not connected.
AlertMissed ==
    /\ raised < MaxAlerts
    /\ raised' = raised + 1
    /\ UNCHANGED <<feed, unread, rendered, open, highlighted, seen, slipped, twice>>

Render ==
    /\ rendered # [feed |-> feed, unread |-> unread]
    /\ rendered' = [feed |-> feed, unread |-> unread]
    /\ UNCHANGED <<raised, feed, unread, open, highlighted, seen, slipped, twice>>

\* Mutant: the alerts are not marked as read.
OpenBell_KeepsUnread ==
    /\ ~open
    /\ open' = TRUE
    /\ highlighted' = Newest(rendered.feed, rendered.unread)
    /\ rendered' = [feed |-> feed, unread |-> unread]
    /\ seen' = seen \cup highlighted'
    /\ slipped' = slipped \cup (ToSet(feed) \ ToSet(rendered.feed))
    /\ twice' = (twice \/ highlighted' \cap seen # {})
    /\ UNCHANGED <<raised, feed, unread>>

\* The bell is clicked while its list is closed: what was rendered as unread is
\* marked, all that arrived is read, and the click is rendered at once.
OpenBell ==
    /\ ~open
    /\ open' = TRUE
    /\ highlighted' = Newest(rendered.feed, rendered.unread)
    /\ unread' = 0
    /\ rendered' = [feed |-> feed, unread |-> 0]
    /\ seen' = seen \cup highlighted'
    /\ slipped' = slipped \cup (ToSet(feed) \ ToSet(rendered.feed))
    /\ twice' = (twice \/ highlighted' \cap seen # {})
    /\ UNCHANGED <<raised, feed>>

\* A click on the bell, a click outside, Escape, or a link of the list.
CloseBell ==
    /\ open
    /\ open' = FALSE
    /\ rendered' = [feed |-> feed, unread |-> unread]
    /\ UNCHANGED <<raised, feed, unread, highlighted, seen, slipped, twice>>

FeedNext == AlertArrives \/ AlertMissed \/ Render \/ OpenBell \/ CloseBell
-----------------------------------------------------------------------------
(* Property.                                                                   *)

\* The count on the bell is the number of alerts of the list that no opening
\* has marked as new, those are the newest of the list, and no alert is marked
\* at two openings, whatever arrives while the list is open or is cut off at
\* its limit.  Left out are alerts that come between the last render and the
\* click (slipped): they are read and never marked.  Code: NotificationBell's
\* toggle, LiveConnectionProvider's AlertRaised.
UnreadAreUnmarked ==
    LET unmarked == ToSet(feed) \ (seen \cup slipped)
    IN  /\ Newest(feed, unread) = unmarked
        /\ unread = Cardinality(unmarked)
        /\ ~twice
=============================================================================
