-------------------------- MODULE CommandStreamPage --------------------------
(* The address of frontend/src/pages/CommandStream.jsx: the view the user      *)
(* chose is kept in its parameters, the last one in sessionStorage too, and    *)
(* an address without parameters is replaced by the stored one.  The metric,   *)
(* the statistic and the order of the alerts are set as the range is and are   *)
(* left out.  The effect that stores the parameters runs after the render that *)
(* shows them, before the user can act.                                        *)
EXTENDS Naturals, Sequences

CONSTANTS Zones,     \* ZONE_ORDER
          MaxHistory \* bound on the addresses the browser can go back to

ASSUME StreamAssumption == "" \notin Zones /\ MaxHistory \in Nat

VARIABLES at,      \* the address: a page other than this one, or the parameters
          stored,  \* what sessionStorage holds, the empty parameters for nothing
          behind,  \* the addresses the browser can go back to
          asked    \* history: the view the user asked for last

streamVars == <<at, stored, behind, asked>>

\* Parameters; "" is one that is not there, and the range is 7 unless it is 30.
Views == [zone : Zones \cup {""}, show : Zones \cup {""}, range : {"", "7", "30"}]
Bare == [zone |-> "", show |-> "", range |-> ""]
Shown7or30(view) == IF view.range = "30" THEN "30" ELSE "7"

OtherPage == [stream |-> FALSE, view |-> Bare]
Stream(view) == [stream |-> TRUE, view |-> view]

StreamTypeOK ==
    LET addresses == {OtherPage} \cup {Stream(v) : v \in Views}
    IN  /\ at \in addresses /\ behind \in Seq(addresses) /\ Len(behind) <= MaxHistory
        /\ stored \in Views /\ asked \in Views

StreamInit ==
    /\ at = OtherPage
    /\ stored = Bare
    /\ behind = <<>>
    /\ asked = Bare
-----------------------------------------------------------------------------
\* The page renders at a view: one without parameters is replaced by the stored
\* one (Navigate with replace), and what is shown is stored.
Arrives(view) ==
    LET shown == IF view = Bare THEN stored ELSE view
    IN  /\ at' = Stream(shown)
        /\ stored' = shown

Pushes ==
    behind' = LET longer == Append(behind, at)
              IN  IF Len(longer) > MaxHistory THEN Tail(longer) ELSE longer

\* The sidebar's link, which has no parameters: the view is the one left.
EnterStream ==
    /\ ~at.stream
    /\ Arrives(Bare) /\ Pushes
    /\ asked' = asked

\* Links to other pages.
LeaveStream ==
    /\ at.stream
    /\ at' = OtherPage
    /\ Pushes
    /\ UNCHANGED <<stored, asked>>

\* setView("range", r): the address is replaced.
SetRange(r) ==
    /\ at.stream
    /\ Arrives([at.view EXCEPT !.range = r])
    /\ asked' = [asked EXCEPT !.range = r]
    /\ UNCHANGED behind

\* setView("show", z), where the zone filter is shown.  "All zones" does not come
\* through while the filter is the only parameter: the address is left without
\* any, and the stored one is put back.
SetShow(z) ==
    /\ at.stream /\ at.view.zone = ""
    /\ LET view == [at.view EXCEPT !.show = z]
       IN  /\ Arrives(view)
           /\ asked' = IF view = Bare THEN asked ELSE [asked EXCEPT !.show = z]
    /\ UNCHANGED behind

\* selectZone, from the chart's lines and legend and from the table, and the
\* zone links of the alerts: the address is pushed.
SelectZone(z) ==
    /\ at.stream
    /\ Arrives([at.view EXCEPT !.zone = z]) /\ Pushes
    /\ asked' = [asked EXCEPT !.zone = z]

\* Mutant: the link only takes the zone out.
OverviewLink_ZoneOut(view) == [view EXCEPT !.zone = ""]

\* overviewLink: with the range, so that it is never without parameters.
OverviewLink(view) == [view EXCEPT !.zone = "", !.range = Shown7or30(view)]

Overview ==
    /\ at.stream /\ at.view.zone # ""
    /\ Arrives(OverviewLink(at.view)) /\ Pushes
    /\ asked' = [asked EXCEPT !.zone = ""]

\* The browser's Back asks for the view of that address.
GoBack ==
    /\ behind # <<>>
    /\ LET a == behind[Len(behind)]
       IN  /\ behind' = SubSeq(behind, 1, Len(behind) - 1)
           /\ IF a.stream
              THEN Arrives(a.view) /\ asked' = (IF a.view = Bare THEN asked ELSE a.view)
              ELSE at' = a /\ UNCHANGED <<stored, asked>>

StreamNext ==
    \/ EnterStream \/ LeaveStream \/ Overview \/ GoBack
    \/ \E r \in {"7", "30"} : SetRange(r)
    \/ \E z \in Zones \cup {""} : SetShow(z)
    \/ \E z \in Zones : SelectZone(z)
-----------------------------------------------------------------------------
(* Property.                                                                   *)

\* The page shows the view the user asked for last, through links, Back, other
\* pages and the restoring of an address without parameters, but for the one
\* choice that SetShow names.  Code: CommandStream's overviewLink,
\* readStoredQuery and effect.
ViewAsAsked ==
    at.stream =>
        /\ at.view.zone = asked.zone
        /\ at.view.show = asked.show
        /\ Shown7or30(at.view) = Shown7or30(asked)
=============================================================================
