----------------------------- MODULE Credentials -----------------------------
(***************************************************************************)
(* Two answers of GitHub that the Worker uses long after it got them: the    *)
(* installation token (cloud/worker/src/github-app.ts, getInstallationToken), *)
(* which review-job.ts hands to the sandbox's outbound handlers and replaces  *)
(* from every poll that succeeds, and the App's identity, which decides the   *)
(* mentions of one isolate and is cached and asked for by all of them.        *)
(*                                                                         *)
(* No call has a time limit here: the clock may advance between any two       *)
(* steps, because the code puts no timeout on its requests to GitHub and      *)
(* repeats failed polls for as long as they fail.                            *)
(***************************************************************************)
EXTENDS Integers, Optional

CONSTANTS
  Margin,      \* TOKEN_REFRESH_MARGIN_MS
  Lifetime,    \* validity of the tokens GitHub issues
  IdentityTTL, \* APP_IDENTITY_TTL_MS
  Mentions,    \* webhook requests about mentions that the isolate may handle at once
  MaxTime      \* bound on the clock

ASSUME TimesAssumption ==
  Margin \in Nat /\ Lifetime \in Nat /\ IdentityTTL \in Nat /\ MaxTime \in Nat
ASSUME LifetimeAssumption == Margin < Lifetime
ASSUME NoneAssumption ==
  /\ None \notin Int \cup Mentions
  /\ None \notin [expires : Int, since : Int] \cup [read : Int, expires : Int]
  /\ None \notin [since : Int, read : Int \cup {None}]

VARIABLES
  now,       \* the clock
  phase,     \* of the job
  cache,     \* the token in the object's storage: the time it expires at
  held,      \* the token that start, or a poll, has in hand
  box,       \* the token in the outbound handler of a sandbox that has a process
  identity,  \* appIdentities: when the App was read and until when it is used
  request,   \* the request for the identity that a mention has sent
  pending,   \* appIdentityRequests: the mention whose request others join
  awaiting,  \* the mention whose request each mention awaits
  used       \* history: when the identity was read that decided the last mention

job  == <<phase, cache, held, box>>
app  == <<identity, request, pending, awaiting, used>>
vars == <<now, job, app>>

Times == 0 .. MaxTime + Lifetime
Phases == {"idle", "starting", "lost", "running", "polling", "ending"}

(* A token with the time it was issued, or taken from the storage.                *)
Tokens == [expires : Times, since : 0 .. MaxTime]

Init ==
  /\ now = 0 /\ phase = "idle" /\ cache = None /\ held = None /\ box = None
  /\ identity = None /\ pending = None /\ used = 0
  /\ request = [m \in Mentions |-> None] /\ awaiting = [m \in Mentions |-> None]

Tick == now < MaxTime /\ now' = now + 1 /\ UNCHANGED <<job, app>>

-----------------------------------------------------------------------------
(* The job.                                                                  *)

(* Faulty variant: a cached token is used until it expires.                      *)
usedUntilExpiry(token) ==
  token \in (IF cache # None /\ now < cache THEN {cache} ELSE {now + Lifetime})

(* The cached token while more than the margin remains, or the one GitHub issues     *)
(* now, however long its answer takes.                                           *)
getInstallationToken(token) ==
  token \in (IF cache # None /\ now + Margin < cache THEN {cache} ELSE {now + Lifetime})

Take ==
  \E token \in Times :
    /\ getInstallationToken(token) /\ cache' = token
    /\ held' = [expires |-> token, since |-> now]

(* The sandbox's handlers for GitHub's hosts answer with the token in hand.         *)
configureCodexEgress == box' = held /\ held' = None

(* start, or its redelivery when it failed, takes a token before anything else.    *)
Begin ==
  /\ phase \in {"idle", "starting"} /\ phase' = "starting"
  /\ Take
  /\ UNCHANGED <<now, box, app>>

(* The handlers are configured and the process is started, but the answer of        *)
(* startProcess may be lost.                                                     *)
Launch ==
  /\ phase = "starting" /\ phase' \in {"running", "lost"}
  /\ configureCodexEgress
  /\ UNCHANGED <<now, cache, app>>

(* The start that is delivered again takes a token and configures nothing when it     *)
(* finds the process, unless it fails as well.                                    *)
Adopt ==
  /\ phase = "lost" /\ phase' \in {"lost", "running"}
  /\ \E token \in Times : getInstallationToken(token) /\ cache' = token
  /\ UNCHANGED <<now, held, box, app>>

PollTakes ==
  /\ phase = "running" /\ phase' = "polling"
  /\ Take
  /\ UNCHANGED <<now, box, app>>

(* Faulty variant: a poll renews the stored token, and the sandbox keeps its own.     *)
PollStoresOnly ==
  /\ phase = "polling" /\ phase' = "running"
  /\ box' = [box EXCEPT !.since = held.since] /\ held' = None
  /\ UNCHANGED <<now, cache, app>>

PollConfigures ==
  /\ phase = "polling" /\ phase' = "running"
  /\ configureCodexEgress
  /\ UNCHANGED <<now, cache, app>>

(* A poll that fails after the exchange leaves the sandbox its old token; one that     *)
(* fails before it changes nothing at all.                                        *)
PollFails ==
  /\ phase = "polling" /\ phase' = "running"
  /\ held' = None
  /\ UNCHANGED <<now, cache, box, app>>

(* The process ended, the deadline passed or the head was superseded; or the last       *)
(* attempt of a start failed.                                                     *)
JobEnds ==
  /\ phase \in {"starting", "lost", "running"} /\ phase' = "ending"
  /\ held' = None
  /\ UNCHANGED <<now, cache, box, app>>

(* The last update of the check run takes a token and uses it at once.              *)
UpdateCheck ==
  /\ phase = "ending"
  /\ \E token \in Times : getInstallationToken(token) /\ cache' = token
  /\ UNCHANGED <<now, phase, held, box, app>>

(* Faulty variant: the stored token is cleared and the sandbox keeps its own.         *)
SettleStorage ==
  /\ phase = "ending" /\ phase' = "idle"
  /\ cache' = None
  /\ UNCHANGED <<now, held, box, app>>

(* The sandbox is destroyed, at once or by a later alarm.                          *)
Settle ==
  /\ phase = "ending" /\ phase' = "idle"
  /\ box' = None
  /\ UNCHANGED <<now, cache, held, app>>

(* The stored token is cleared whether or not the sandbox is gone; after an eviction   *)
(* that came first, a rerun finds the token that was left.                         *)
clearInstallationToken ==
  /\ phase \in {"ending", "idle"} /\ cache' = None
  /\ UNCHANGED <<now, phase, held, box, app>>

-----------------------------------------------------------------------------
(* The App's identity.                                                        *)

Current == identity # None /\ now < identity.expires

(* A mention awaits no answer: its handler has not begun, or it has been decided.      *)
Free(m) == awaiting[m] = None

DecideFromCache(m) ==
  /\ Free(m) /\ Current
  /\ used' = identity.read
  /\ UNCHANGED <<now, job, identity, request, pending, awaiting>>

(* Faulty variant: a mention asks although an answer is awaited already.            *)
AskAgain(m) ==
  /\ Free(m) /\ ~Current
  /\ request' = [request EXCEPT ![m] = [since |-> now, read |-> None]]
  /\ pending' = m /\ awaiting' = [awaiting EXCEPT ![m] = m]
  /\ UNCHANGED <<now, job, identity, used>>

Ask(m) ==
  /\ Free(m) /\ ~Current /\ pending = None
  /\ request' = [request EXCEPT ![m] = [since |-> now, read |-> None]]
  /\ pending' = m /\ awaiting' = [awaiting EXCEPT ![m] = m]
  /\ UNCHANGED <<now, job, identity, used>>

Join(m) ==
  /\ Free(m) /\ ~Current /\ pending # None
  /\ awaiting' = [awaiting EXCEPT ![m] = pending]
  /\ UNCHANGED <<now, job, identity, request, pending, used>>

GitHubReads(m) ==
  /\ request[m] # None /\ request[m].read = None
  /\ request' = [request EXCEPT ![m].read = now]
  /\ UNCHANGED <<now, job, identity, pending, awaiting, used>>

(* The request of m is over, for m and for those that joined it.                    *)
Settles(m) ==
  /\ request' = [request EXCEPT ![m] = None] /\ pending' = None
  /\ awaiting' = [w \in Mentions |-> IF awaiting[w] = m THEN None ELSE awaiting[w]]

(* The answer is cached, from when it was asked for, and decides every mention that     *)
(* awaits it, at whatever age it has by then.                                      *)
Answer(m) ==
  /\ request[m] # None /\ request[m].read # None
  /\ identity' = [read |-> request[m].read, expires |-> request[m].since + IdentityTTL]
  /\ used' = request[m].read
  /\ Settles(m)
  /\ UNCHANGED <<now, job>>

(* A request that fails rejects the mentions that await it and is not cached.         *)
AskFails(m) ==
  /\ request[m] # None
  /\ Settles(m)
  /\ UNCHANGED <<now, job, identity, used>>

Job ==
  \/ Begin \/ Launch \/ Adopt \/ PollTakes \/ PollConfigures \/ PollFails
  \/ JobEnds \/ UpdateCheck \/ Settle \/ clearInstallationToken

App == \E m \in Mentions :
  \/ DecideFromCache(m) \/ Ask(m) \/ Join(m)
  \/ GitHubReads(m) \/ Answer(m) \/ AskFails(m)

Next == Tick \/ Job \/ App

Spec == Init /\ [][Next]_vars

-----------------------------------------------------------------------------
(* Properties.                                                               *)

(* A token is in use only where the phase has a use for it.                        *)
TypeOK ==
  /\ held # None <=> phase \in {"starting", "polling"}
  /\ phase \in {"lost", "running", "polling"} => box # None
  /\ phase \in {"idle", "starting"} => box = None
  /\ now \in 0 .. MaxTime /\ phase \in Phases /\ cache \in Times \cup {None}
  /\ held \in Tokens \cup {None} /\ box \in Tokens \cup {None}
  /\ identity \in [read : 0 .. MaxTime, expires : 0 .. MaxTime + IdentityTTL] \cup {None}
  /\ request \in
       [Mentions -> [since : 0 .. MaxTime, read : 0 .. MaxTime \cup {None}] \cup {None}]
  /\ pending \in Mentions \cup {None} /\ used \in 0 .. MaxTime
  /\ awaiting \in [Mentions -> Mentions \cup {None}]

(* The token the job works with expires only after five minutes in which it was not     *)
(* renewed: not the one start carries across its awaits, and not the one the running     *)
(* review gets from the handlers, counted from the start that handed it over or the last  *)
(* poll that succeeded, through lost answers, starts that adopt the process and polls      *)
(* that fail, before or after the token in the storage was renewed.                *)
TokenUsable ==
  \A token \in {held, box} :
    token # None /\ now <= token.since + Margin => now < token.expires

(* No mention is decided by an older identity than one before it was: neither the cached   *)
(* identity nor an answer on its way is older than what decided the last mention, so a     *)
(* rename of the App that took effect stays in effect.  And a mention is decided, or       *)
(* rejected, from the cache only by an identity read less than five minutes ago: "An       *)
(* expired cached identity MUST NOT reject a candidate before authenticated identity       *)
(* refresh." (openspec/changes/review-trigger-modes/specs/cloud-app-platform/spec.md:5)    *)
IdentityCurrent ==
  /\ \A m \in Mentions :
       request[m] # None /\ request[m].read # None => used <= request[m].read
  /\ identity # None => used <= identity.read
  /\ Current => now < identity.read + IdentityTTL

=============================================================================
