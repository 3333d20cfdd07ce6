------------------------------- MODULE Watchdogs -------------------------------
(***************************************************************************)
(* pi-mistral/index.ts and pi-opencode/index.ts: extensions that keep pi's  *)
(* built-in catalog and only tell when the live listing cannot be read.      *)
(* pi opens its model selector, several at a time, and refreshes the         *)
(* providers; a refresh waits for the listing.                              *)
(***************************************************************************)
EXTENDS Naturals, FiniteSets

CONSTANTS
  Watched,      \* the providers: "mistral", "opencode", "opencode-go"
  Opens,        \* the openings of the model selector
  INTERVAL,     \* REFRESH_INTERVAL_MS
  MaxNow        \* bound: the clock

ASSUME WatchAssumption == INTERVAL \in Nat /\ MaxNow \in Nat

\* wnow is the clock, keyed whether mistral's key is set, last[p] is lastAttemptAt.
VARIABLES
  wnow, keyed, last,
  open,     \* open[o]: not begun, waiting for a listing, or how the refresh ended
  begun     \* begun[o]: the provider, when it began and whether by force (history)
watchVars == <<wnow, keyed, last, open, begun>>

NotBegun == [provider |-> "none", at |-> 0, force |-> FALSE]

\* The clock is an interval and more past zero, where lastAttemptAt starts.
WatchInit ==
  /\ wnow = INTERVAL /\ keyed \in BOOLEAN
  /\ last = [p \in Watched |-> 0]
  /\ open = [o \in Opens |-> "closed"]
  /\ begun = [o \in Opens |-> NotBegun]

WatchTick ==
  /\ wnow < MaxNow
  /\ wnow' = wnow + 1
  /\ UNCHANGED <<keyed, last, open, begun>>

\* Only mistral's listing needs a key.
Observable(p) == p = "mistral" => keyed
DueAt(p) == last[p] + INTERVAL

\* Faulty variant: the attempt is not recorded.
AttemptLate(p, o, force) ==
  /\ open' = [open EXCEPT ![o] = "waiting"]
  /\ begun' = [begun EXCEPT ![o] = [provider |-> p, at |-> wnow, force |-> force]]
  /\ UNCHANGED last

\* The interval starts with the attempt, before the listing is awaited.
Attempt(p, o, force) ==
  /\ last' = [last EXCEPT ![p] = wnow]
  /\ open' = [open EXCEPT ![o] = "waiting"]
  /\ begun' = [begun EXCEPT ![o] = [provider |-> p, at |-> wnow, force |-> force]]

RefreshModels(p, o) ==
  /\ open[o] = "closed"
  /\ \E allowNetwork, force \in BOOLEAN :
       IF allowNetwork /\ Observable(p) /\ (force \/ wnow >= DueAt(p))
       THEN Attempt(p, o, force)
       ELSE /\ open' = [open EXCEPT ![o] = IF allowNetwork /\ Observable(p) THEN "early" ELSE "quiet"]
            /\ begun' = [begun EXCEPT ![o] = [provider |-> p, at |-> wnow, force |-> force]]
            /\ UNCHANGED last
  /\ UNCHANGED <<wnow, keyed>>

\* A status, a payload or a list without an id that is no listing ends in a warning.
fetchListingCount(o, answer) ==
  /\ open[o] = "waiting"
  /\ open' = [open EXCEPT ![o] = IF answer = "rows" THEN "confirmed" ELSE "warned"]

ListingAnswers(o) ==
  /\ \E answer \in {"rows", "no rows", "refused", "no answer"} : fetchListingCount(o, answer)
  /\ UNCHANGED <<wnow, keyed, last, begun>>

\* An aborted refresh throws, and is no warning.
WatchAborts(o) ==
  /\ open[o] = "waiting"
  /\ open' = [open EXCEPT ![o] = "aborted"]
  /\ UNCHANGED <<wnow, keyed, last, begun>>

WatchNext ==
  \/ WatchTick
  \/ \E o \in Opens : \/ \E p \in Watched : RefreshModels(p, o)
                      \/ ListingAnswers(o) \/ WatchAborts(o)

WatchSpec == WatchInit /\ [][WatchNext]_watchVars

\* However the openings of the model selector overlap and whichever listing is slow, a
\* provider warns once in an interval unless it was forced, mistral never without its
\* key, and an opening within the interval is silent only because its own provider was
\* tried ("one provider's outage must not silence the other's").
WarnedOncePerInterval ==
  /\ \A o, q \in Opens :
       /\ o # q /\ open[o] = "warned" /\ open[q] = "warned"
       /\ begun[o].provider = begun[q].provider
       /\ ~begun[o].force /\ ~begun[q].force
       => begun[o].at >= begun[q].at + INTERVAL \/ begun[q].at >= begun[o].at + INTERVAL
  /\ \A o \in Opens :
       /\ open[o] = "warned" /\ begun[o].provider = "mistral" => keyed
       /\ open[o] = "early" =>
            \E q \in Opens \ {o} :
              /\ begun[q].provider = begun[o].provider
              /\ open[q] \in {"waiting", "confirmed", "warned", "aborted"}
              /\ begun[q].at <= begun[o].at /\ begun[o].at < begun[q].at + INTERVAL
=============================================================================
