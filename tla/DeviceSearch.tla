----------------------------- MODULE DeviceSearch -----------------------------
(* The device search of the client: the search box and its filters in the      *)
(* header (frontend/src/components/search), the results and the pages to       *)
(* browse by zone (pages/DeviceList.jsx), all of which keep their state in the *)
(* address.  Typing is put into the address by timers; a timer's callback acts *)
(* on the address of the render it was set in, not on the current one, as the  *)
(* router hands an updater the parameters that its setter was rendered with.   *)
(*                                                                             *)
(* Left out are the category, state, battery and override filters, which are   *)
(* set and removed as the zone is, and the sorting and the pages of a result.  *)
(* The list of suggestions is left out but for opening a device of it.         *)
EXTENDS Naturals, Sequences, FiniteSets

CONSTANTS Texts,   \* what is typed into the search box
          Kms,     \* what is typed as the least chainage
          MaxPast  \* bound on the addresses the browser can go back to

ASSUME SearchAssumption == "" \notin Texts /\ "" \notin Kms /\ MaxPast \in Nat

VARIABLES address,    \* the page and its parameters
          past,       \* the addresses the browser can go back to
          text,       \* HeaderSearch's text
          queryTimer, \* the timer that puts the text into the address, at most one
          panelOpen,  \* the panel of filters is open
          kmText,     \* KmInput's text
          kmTimer     \* its timer, at most one

boxVars == <<text, queryTimer>>
kmVars == <<panelOpen, kmText, kmTimer>>
searchVars == <<address, past, boxVars, kmVars>>

\* Addresses: the search page /devices with its parameters ("" for none), and
\* all other pages, whose parameters the search does not read.
Params == [q : Texts \cup {""}, zone : {"", "z"}, subzone : {"", "s"}, km : Kms \cup {""}]
NoParams == [q |-> "", zone |-> "", subzone |-> "", km |-> ""]
OnSearchPage(a) == a.path = "devices"
Elsewhere == [path |-> "other", params |-> NoParams]
Search(p) == [path |-> "devices", params |-> p]

\* useSearchParamsState: elsewhere there are no parameters.
params == address.params

\* showsResults, and the page's own lists to choose a zone and a subzone from.
ShowsResults(p) == p.subzone # "" \/ p.q # "" \/ p.km # ""

SearchTypeOK ==
    LET addresses == [path : {"devices", "other"}, params : Params]
        timers(values) == {{}} \cup {{t} : t \in [value : values, on : addresses]}
    IN  /\ address \in addresses /\ past \in Seq(addresses) /\ Len(past) <= MaxPast
        /\ text \in Texts \cup {""}
        /\ queryTimer \in timers(Texts \cup {""})
        /\ panelOpen \in BOOLEAN
        /\ kmText \in Kms \cup {""}
        /\ kmTimer \in timers(Kms \cup {""})

SearchInit ==
    /\ address = Elsewhere /\ past = <<>>
    /\ text = "" /\ queryTimer = {}
    /\ panelOpen = FALSE /\ kmText = "" /\ kmTimer = {}
-----------------------------------------------------------------------------
(* The address.                                                                *)

\* Mutant: the effect does not clear the timers.
Show_KeepsTimers(a, typed, query, km) ==
    /\ address' = a
    /\ text' = IF a.params.q # params.q THEN a.params.q ELSE typed
    /\ queryTimer' = query
    /\ kmText' = IF panelOpen /\ a.params.km # params.km THEN a.params.km ELSE km

\* The components render at address a, where the box and the chainage held the
\* given texts: each takes over its parameter where that has changed, and the
\* box's effect clears its timers where the search page is entered or left.
Show(a, typed, query, km) ==
    /\ address' = a
    /\ text' = IF a.params.q # params.q THEN a.params.q ELSE typed
    /\ queryTimer' = IF OnSearchPage(a) = OnSearchPage(address) THEN query ELSE {}
    /\ kmText' = IF panelOpen /\ a.params.km # params.km THEN a.params.km ELSE km

Push(a) ==
    past' = LET longer == Append(past, address)
            IN  IF Len(longer) > MaxPast THEN Tail(longer) ELSE longer

\* update, called by a handler rendered at address a: on the search page it
\* replaces the current address by that one with the changes, elsewhere it goes
\* to the search page.
Updated(a, changes) ==
    Search([k \in DOMAIN NoParams |->
               IF k \in DOMAIN changes THEN changes[k] ELSE a.params[k]])

UpdateFrom(a, changes, typed, query, km) ==
    /\ Show(Updated(a, changes), typed, query, km)
    /\ IF OnSearchPage(a) THEN past' = past ELSE Push(a)

Update(changes) == UpdateFrom(address, changes, text, queryTimer, kmText)

\* Another page, or the browser's Back.
GoTo(a) ==
    /\ Show(a, text, queryTimer, kmText)
    /\ Push(a)
-----------------------------------------------------------------------------
(* The search box.                                                             *)

\* Its onChange.
Type(v) ==
    /\ v # text
    /\ text' = v
    /\ queryTimer' = IF OnSearchPage(address) THEN {[value |-> v, on |-> address]} ELSE {}
    /\ UNCHANGED <<address, past, kmVars>>

QueryTimerFires ==
    \E t \in queryTimer :
        /\ UpdateFrom(t.on, [q |-> t.value], text, {}, kmText)
        /\ UNCHANGED <<panelOpen, kmTimer>>

\* Enter in the box, or the last line of the list.
ShowAll ==
    /\ UpdateFrom(address, [q |-> text], text, {}, kmText)
    /\ UNCHANGED <<panelOpen, kmTimer>>

\* A device of the list: setText("") comes before the navigation's render.
OpenDevice ==
    /\ text # ""
    /\ Show(Elsewhere, "", {}, kmText)
    /\ Push(Elsewhere)
    /\ UNCHANGED <<panelOpen, kmTimer>>

-----------------------------------------------------------------------------
(* The panel of filters.                                                       *)

\* The inputs mount with the panel, and are gone with it; their timers stay.
TogglePanel ==
    /\ panelOpen' = ~panelOpen
    /\ kmText' = IF panelOpen THEN "" ELSE params.km
    /\ UNCHANGED <<address, past, boxVars, kmTimer>>

\* A zone, or none, is chosen.
ChooseZone ==
    /\ panelOpen
    /\ \E z \in {"", "z"} : Update([zone |-> z, subzone |-> ""])
    /\ UNCHANGED <<panelOpen, kmTimer>>

\* A subzone of the zone, or none.
ChooseSubzone ==
    /\ panelOpen /\ params.zone # ""
    /\ \E s \in {"", "s"} : Update([subzone |-> s])
    /\ UNCHANGED <<panelOpen, kmTimer>>

TypeKm(v) ==
    /\ panelOpen /\ v # kmText
    /\ kmText' = v
    /\ kmTimer' = {[value |-> v, on |-> address]}
    /\ UNCHANGED <<address, past, boxVars, panelOpen>>

\* commit, by the handler that was rendered at address a: what was typed goes
\* into the address unless it was there.
Commit(v, a) ==
    /\ kmTimer' = {}
    /\ IF v # a.params.km
       THEN UpdateFrom(a, [km |-> v], text, queryTimer, kmText)
       ELSE UNCHANGED <<address, past, text, queryTimer, kmText>>
    /\ UNCHANGED panelOpen

KmTimerFires == \E t \in kmTimer : Commit(t.value, t.on)

\* Enter, or the input is left.
KmLeft == panelOpen /\ Commit(kmText, address)

ResetFilters ==
    /\ panelOpen
    /\ [params EXCEPT !.q = ""] # NoParams
    /\ Update([zone |-> "", subzone |-> "", km |-> ""])
    /\ UNCHANGED <<panelOpen, kmTimer>>
-----------------------------------------------------------------------------
(* The results and the pages.                                                  *)

\* Mutant: the chip of the zone leaves the subzone.
Chips_ZoneAlone ==
    {[q |-> ""], [zone |-> ""], [subzone |-> ""], [km |-> ""], NoParams}

\* What the chips and Clear all change.
Chips == {[q |-> ""], [zone |-> "", subzone |-> ""], [subzone |-> ""], [km |-> ""], NoParams}

RemoveChip ==
    /\ OnSearchPage(address) /\ ShowsResults(params)
    /\ \E chip \in Chips :
           /\ \E k \in DOMAIN chip : params[k] # ""
           /\ Update(chip)
    /\ UNCHANGED <<panelOpen, kmTimer>>

\* Select a Zone, Select a Subzone and their Back buttons.
Browse ==
    /\ OnSearchPage(address)
    /\ \/ /\ ~ShowsResults(params) /\ params.zone = ""
          /\ GoTo(Search([NoParams EXCEPT !.zone = "z"]))
       \/ /\ ~ShowsResults(params) /\ params.zone # ""
          /\ \/ GoTo(Search([NoParams EXCEPT !.zone = params.zone, !.subzone = "s"]))
             \/ GoTo(Search(NoParams))
       \/ /\ params.subzone # "" /\ params.q = "" /\ params.km = ""
          /\ GoTo(Search([NoParams EXCEPT !.zone = params.zone]))
    /\ UNCHANGED <<panelOpen, kmTimer>>

\* Links: a device of the results, the sidebar's entries.
Leave ==
    /\ GoTo(Elsewhere)
    /\ UNCHANGED <<panelOpen, kmTimer>>

Enter ==
    /\ GoTo(Search(NoParams))
    /\ UNCHANGED <<panelOpen, kmTimer>>

Back ==
    /\ past # <<>>
    /\ past' = SubSeq(past, 1, Len(past) - 1)
    /\ Show(past[Len(past)], text, queryTimer, kmText)
    /\ UNCHANGED <<panelOpen, kmTimer>>

SearchNext ==
    \/ \E v \in Texts \cup {""} : Type(v)
    \/ QueryTimerFires \/ ShowAll \/ OpenDevice
    \/ TogglePanel \/ ChooseZone \/ ChooseSubzone \/ KmTimerFires \/ KmLeft \/ ResetFilters
    \/ \E v \in Kms \cup {""} : TypeKm(v)
    \/ RemoveChip \/ Browse \/ Leave \/ Enter \/ Back
-----------------------------------------------------------------------------
(* Properties.                                                                 *)

\* The box and the address tell the same, whatever order typing, timers, links
\* and Back come in.  No timer outlives the search page to put its text into the
\* address from another page; and on the search page the box shows the query of
\* the results once no timer is pending: chips, Back, the zone lists, a late
\* chainage timer and a device opened in between included.  A text typed
\* elsewhere stays while there is no query.  Code: HeaderSearch's effect on
\* onSearchPage and its prevUrlQ.
BoxMatchesAddress ==
    IF OnSearchPage(address) THEN queryTimer = {} => params.q \in {"", text}
                             ELSE queryTimer = {}

\* There is no subzone without its zone, though a late timer may bring back
\* parameters that were changed since.  Code: SearchFilters, FilterChips and
\* DeviceList, whose Back button reads the zone.
SubzoneHasZone == params.subzone # "" => params.zone # ""
=============================================================================
