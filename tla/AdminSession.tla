---------------------------- MODULE AdminSession ----------------------------
(***************************************************************************)
(* The administrator's browser: the tabs of the Admin console, the storage *)
(* they share, and the use of refresh tokens, which a Control server takes *)
(* once and whose second use it answers by ending the session              *)
(* (apps/admin/src/control).  A tab runs several calls of its store at     *)
(* once, and its profile may change while they wait.                       *)
(*                                                                         *)
(* Left out: expiry of tokens and markers (a marker lasts as long as its   *)
(* token), browsers without Web Locks or BroadcastChannel, and the state   *)
(* that only the views show.                                               *)
(***************************************************************************)
EXTENDS Naturals, Sequences

CONSTANTS
  Tabs, Calls,
  Profiles, Endpoints,  \* saved instances and the Control URLs they may have
  MaxPairs,             \* bound: token pairs issued
  MaxLoads, MaxMoves    \* bounds: pages loaded, changes of profiles

None == "none"

VARIABLES
  stored,     \* localStorage: the profiles, the active one
  local,      \* localStorage: a refresh token for each profile, 0 if none
  own,        \* own[t]: the same in the sessionStorage of t
  consumed,   \* localStorage: the scopes marked pending, succeeded or failed
  tab,        \* the store of each tab
  op,         \* the calls under way
  pairs,      \* the pairs issued: by whom, of which session, their state, and
              \* (history) the profile a refresh asked them for
  presented,  \* history: how often each refresh token reached its server
  loads, moves

vars == <<stored, local, own, consumed, tab, op, pairs, presented, loads, moves>>
browser == <<stored, local, own, consumed>>
server  == <<pairs, presented>>

Idle == [at |-> "idle", tab |-> None, profile |-> None, token |-> 0,
         persistent |-> FALSE, client |-> None, mail |-> 0, pair |-> 0]
Failed == MaxPairs + 1  \* the message "failed"; a pair is the one "succeeded"

Scope(c) == <<op[c].profile, op[c].token>>
Locked == {"send", "answered", "failed", "joining"}

Init ==
  /\ stored = [url |-> [p \in Profiles |-> CHOOSE e \in Endpoints : TRUE],
               active |-> CHOOSE p \in Profiles : TRUE]
  /\ local = [p \in Profiles |-> 0]
  /\ own = [t \in Tabs |-> [p \in Profiles |-> 0]]
  /\ consumed = {}
  /\ tab = [t \in Tabs |-> [open |-> FALSE, url |-> stored.url, active |-> None,
                            api |-> None, session |-> 0, busy |-> FALSE]]
  /\ op = [c \in Calls |-> Idle]
  /\ pairs = <<>>
  /\ presented = [n \in 1 .. MaxPairs |-> 0]
  /\ loads = 0 /\ moves = 0

Goto(c, record) == op' = [op EXCEPT ![c] = record]
Step(c, at)     == Goto(c, [op[c] EXCEPT !.at = at])

\* The finally of run: busy is one flag for all calls.
Ends(c) ==
  /\ Goto(c, Idle)
  /\ tab' = [tab EXCEPT ![op[c].tab].busy = FALSE]

-----------------------------------------------------------------------------
(* profile-storage.ts *)

ReadRefreshToken(t, p) ==
  IF own[t][p] # 0 THEN [token |-> own[t][p], persistent |-> FALSE]
                   ELSE [token |-> local[p], persistent |-> TRUE]

StoreRefreshToken(t, p, n, persistent) ==
  /\ local' = [local EXCEPT ![p] = IF persistent THEN n ELSE 0]
  /\ own' = [own EXCEPT ![t][p] = IF persistent THEN 0 ELSE n]

ClearRefreshToken(t, p) ==
  /\ local' = [local EXCEPT ![p] = 0]
  /\ own' = [own EXCEPT ![t][p] = 0]

-----------------------------------------------------------------------------
(* Pages and profiles.  Each of these calls initialize, whose refreshPublic *)
(* only reads and is awaited before restoreSession.                        *)

Initialize(c, t) ==
  Goto(c, [Idle EXCEPT !.at = "public", !.tab = t])

\* The page is loaded: memory is gone, and with it the calls and locks of t.
Load(c, t, storage) ==
  /\ loads < MaxLoads
  /\ loads' = loads + 1
  /\ own' = [own EXCEPT ![t] = storage]
  /\ tab' = [tab EXCEPT ![t] = [open |-> TRUE, url |-> stored.url,
                                active |-> stored.active, session |-> 0,
                                busy |-> stored.active # None,
                                api |-> IF stored.active = None THEN None
                                        ELSE stored.url[stored.active]]]
  /\ op' = [d \in Calls |->
              IF d = c /\ stored.active # None
              THEN [Idle EXCEPT !.at = "public", !.tab = t]
              ELSE IF op[d].tab = t THEN Idle ELSE op[d]]
  /\ UNCHANGED <<stored, local, consumed, server, moves>>

\* A reload keeps the sessionStorage of the tab, a duplicate copies it.
OpenPage(c, t) ==
  /\ op[c].at = "idle" \/ op[c].tab = t
  /\ \/ Load(c, t, own[t])
     \/ ~tab[t].open /\ \E u \in Tabs \ {t} : tab[u].open /\ Load(c, t, own[u])

\* clearMemoryState, the choice of a profile and activateClient
Activated(t, p, urls, forget) ==
  [tab[t] EXCEPT !.url = urls, !.active = p, !.busy = TRUE,
                 !.api = IF p = None THEN None ELSE urls[p],
                 !.session = IF forget THEN 0 ELSE @]

Move == moves < MaxMoves /\ moves' = moves + 1

\* saveProfile with an id: the endpoint, or the active profile, changes.
SaveProfile(c, t, p, e) ==
  /\ op[c].at = "idle" /\ tab[t].open /\ Move
  /\ tab[t].url[p] # None
  /\ LET moved == tab[t].url[p] # e
         urls  == [tab[t].url EXCEPT ![p] = e]
     IN /\ moved \/ tab[t].active # p
        /\ IF moved THEN ClearRefreshToken(t, p) ELSE UNCHANGED <<local, own>>
        /\ stored' = [url |-> urls, active |-> p]
        /\ tab' = [tab EXCEPT ![t] = Activated(t, p, urls, TRUE)]
  /\ Initialize(c, t)
  /\ UNCHANGED <<consumed, server, loads>>

SelectProfile(c, t, p) ==
  /\ op[c].at = "idle" /\ tab[t].open /\ Move
  /\ tab[t].url[p] # None
  /\ stored' = [url |-> tab[t].url, active |-> p]
  /\ tab' = [tab EXCEPT ![t] = Activated(t, p, tab[t].url, tab[t].active # p)]
  /\ Initialize(c, t)
  /\ UNCHANGED <<local, own, consumed, server, loads>>

\* No initialize follows.
DeleteProfile(t, p) ==
  /\ tab[t].open /\ tab[t].url[p] # None /\ Move
  /\ ClearRefreshToken(t, p)
  /\ LET urls == [tab[t].url EXCEPT ![p] = None]
         left == {q \in Profiles : urls[q] # None}
         next == IF tab[t].active # p THEN tab[t].active
                 ELSE IF left = {} THEN None ELSE CHOOSE q \in left : TRUE
     IN /\ stored' = [url |-> urls, active |-> next]
        /\ tab' = [tab EXCEPT ![t] =
                     IF @.active # p THEN [@ EXCEPT !.url = urls]
                     ELSE [Activated(t, next, urls, TRUE) EXCEPT !.busy = tab[t].busy]]
  /\ UNCHANGED <<consumed, op, server, loads>>

-----------------------------------------------------------------------------
(* restoreSession and refreshSession *)

RestoreSession(c) ==
  /\ op[c].at = "public"
  /\ LET t == op[c].tab
         p == tab[t].active
         found == ReadRefreshToken(t, p)
     IN IF p = None \/ tab[t].session # 0 \/ found.token = 0
        THEN Ends(c)
        ELSE /\ Goto(c, [op[c] EXCEPT !.at = "digest", !.profile = p,
                           !.token = found.token, !.persistent = found.persistent,
                           !.client = tab[t].api])
             /\ tab' = [tab EXCEPT ![t].busy = TRUE]
  /\ UNCHANGED <<browser, server, loads, moves>>

\* From here on the channel of the scope is open.
Subscribe(c) ==
  /\ op[c].at = "digest"
  /\ Step(c, "queued")
  /\ UNCHANGED <<browser, tab, server, loads, moves>>

\* The digest or the channel fails.
GiveUp(c) ==
  /\ op[c].at = "digest"
  /\ ClearRefreshToken(op[c].tab, op[c].profile)
  /\ Ends(c)
  /\ UNCHANGED <<stored, consumed, server, loads, moves>>

WasConsumed_Locally(c) == own[op[c].tab][op[c].profile] = 0 /\ local[op[c].profile] = 0
WasConsumed(c) == Scope(c) \in consumed

LockFree(c) ==
  \A d \in Calls \ {c} : op[d].at \in Locked => Scope(d) # Scope(c)

\* The exclusive lock of the scope is granted.
Enter(c) ==
  /\ op[c].at = "queued"
  /\ LockFree(c)
  /\ IF WasConsumed(c)
     THEN Step(c, "joining") /\ UNCHANGED <<local, own, consumed>>
     ELSE /\ consumed' = consumed \cup {Scope(c)}
          /\ ClearRefreshToken(op[c].tab, op[c].profile)
          /\ Step(c, "send")
  /\ UNCHANGED <<stored, tab, server, loads, moves>>

\* The server takes a current token and issues the next pair; a token taken
\* before ends the session; it knows no other.
Rotated(n, p) ==
  Append([pairs EXCEPT ![n].state = "rotated"],
         [pairs[n] EXCEPT !.state = "current", !.profile = p])

Revoked(n) ==
  [i \in 1 .. Len(pairs) |->
     IF pairs[i].session = pairs[n].session THEN [pairs[i] EXCEPT !.state = "revoked"]
     ELSE pairs[i]]

Served(c) ==
  LET n == op[c].token
  IN /\ op[c].at = "send"
     /\ presented' = [presented EXCEPT ![n] = @ + 1]
     /\ IF pairs[n].issuer # op[c].client \/ pairs[n].state = "revoked"
        THEN pairs' = pairs /\ Step(c, "failed")
        ELSE IF pairs[n].state = "rotated"
        THEN pairs' = Revoked(n) /\ Step(c, "failed")
        ELSE /\ Len(pairs) < MaxPairs
             /\ pairs' = Rotated(n, op[c].profile)
             /\ \/ Goto(c, [op[c] EXCEPT !.at = "answered", !.pair = Len(pairs')])
                \/ Step(c, "failed")  \* the answer is lost
     /\ UNCHANGED <<browser, tab, loads, moves>>

Unsent(c) ==
  /\ op[c].at = "send"
  /\ Step(c, "failed")
  /\ UNCHANGED <<browser, tab, server, loads, moves>>

\* publish: every other open channel of the scope receives the message.
Published(c, record, message) ==
  op' = [d \in Calls |->
           IF d = c THEN record
           ELSE IF op[d].at \in {"queued", "joining"} /\ Scope(d) = Scope(c)
           THEN [op[d] EXCEPT !.mail = message] ELSE op[d]]

\* The lock is released with the result.
Succeed(c) ==
  /\ op[c].at = "answered"
  /\ StoreRefreshToken(op[c].tab, op[c].profile, op[c].pair, op[c].persistent)
  /\ Published(c, [op[c] EXCEPT !.at = "apply"], op[c].pair)
  /\ UNCHANGED <<stored, consumed, tab, server, loads, moves>>

Fail(c) ==
  /\ op[c].at = "failed"
  /\ Published(c, [op[c] EXCEPT !.at = "rejected"], Failed)
  /\ UNCHANGED <<browser, tab, server, loads, moves>>

JoinCompletedRefresh(c) ==
  /\ op[c].at = "joining"
  /\ op[c].mail \in 1 .. MaxPairs
  /\ StoreRefreshToken(op[c].tab, op[c].profile, op[c].mail, op[c].persistent)
  /\ Goto(c, [op[c] EXCEPT !.at = "apply", !.pair = op[c].mail])
  /\ UNCHANGED <<stored, consumed, tab, server, loads, moves>>

\* The message is "failed", or does not come within waitForMessageMs.
JoinFails(c) ==
  /\ op[c].at = "joining"
  /\ ClearRefreshToken(op[c].tab, op[c].profile)
  /\ Step(c, "rejected")
  /\ UNCHANGED <<stored, consumed, tab, server, loads, moves>>

\* The outer catch, after the lock was released
Reject(c) ==
  /\ op[c].at = "rejected"
  /\ ClearRefreshToken(op[c].tab, op[c].profile)
  /\ Ends(c)
  /\ UNCHANGED <<stored, consumed, server, loads, moves>>

ApplySession(c, p) ==
  LET t == op[c].tab
  IN /\ tab' = [tab EXCEPT ![t].session = op[c].pair, ![t].busy = FALSE]
     /\ IF p = None THEN UNCHANGED <<local, own>>
        ELSE StoreRefreshToken(t, p, op[c].pair, op[c].persistent)
     /\ Goto(c, Idle)

\* profile.value?.id !== restoringProfile.id
StillActive_Ignored(c) == TRUE
StillActive(c) == tab[op[c].tab].active = op[c].profile

Restored(c) ==
  /\ op[c].at = "apply"
  /\ IF StillActive(c) THEN ApplySession(c, tab[op[c].tab].active)
     ELSE Ends(c) /\ UNCHANGED <<local, own>>
  /\ UNCHANGED <<stored, consumed, server, loads, moves>>

-----------------------------------------------------------------------------
(* login and createAdministrator, whose form is disabled while busy, and   *)
(* logout                                                                  *)

Login(c, t, remember) ==
  /\ op[c].at = "idle" /\ tab[t].open
  /\ tab[t].active # None /\ tab[t].session = 0 /\ ~tab[t].busy
  /\ Goto(c, [Idle EXCEPT !.at = "login", !.tab = t, !.client = tab[t].api,
                          !.persistent = remember])
  /\ tab' = [tab EXCEPT ![t].busy = TRUE]
  /\ UNCHANGED <<browser, server, loads, moves>>

LoginServed(c) ==
  /\ op[c].at = "login"
  /\ Len(pairs) < MaxPairs
  /\ pairs' = Append(pairs, [issuer |-> op[c].client, session |-> Len(pairs) + 1,
                             state |-> "current", profile |-> None])
  /\ Goto(c, [op[c] EXCEPT !.at = "signedIn", !.pair = Len(pairs')])
  /\ UNCHANGED <<browser, tab, presented, loads, moves>>

LoginRefused(c) ==
  /\ op[c].at = "login"
  /\ Ends(c)
  /\ UNCHANGED <<browser, server, loads, moves>>

\* The session goes to whichever profile is active by now.
SignedIn(c) ==
  /\ op[c].at = "signedIn"
  /\ ApplySession(c, tab[op[c].tab].active)
  /\ UNCHANGED <<stored, consumed, server, loads, moves>>

Logout(c, t) ==
  /\ op[c].at = "idle" /\ tab[t].open /\ tab[t].session # 0
  /\ Goto(c, [Idle EXCEPT !.at = "logout", !.tab = t, !.client = tab[t].api,
                          !.pair = tab[t].session])
  /\ UNCHANGED <<browser, tab, server, loads, moves>>

\* Whether or not the server heard of it, the tab forgets the session.
LoggedOut(c) ==
  LET t == op[c].tab
  IN /\ op[c].at = "logout"
     /\ \/ /\ pairs[op[c].pair].issuer = op[c].client
           /\ pairs' = Revoked(op[c].pair)
        \/ UNCHANGED pairs
     /\ IF tab[t].active = None THEN UNCHANGED <<local, own>>
        ELSE ClearRefreshToken(t, tab[t].active)
     /\ tab' = [tab EXCEPT ![t].session = 0]
     /\ Goto(c, Idle)
     /\ UNCHANGED <<stored, consumed, presented, loads, moves>>

-----------------------------------------------------------------------------

Continue(c) ==
  \/ RestoreSession(c) \/ Subscribe(c) \/ Enter(c) \/ Served(c)
  \/ Succeed(c) \/ Fail(c) \/ JoinCompletedRefresh(c) \/ JoinFails(c)
  \/ Reject(c) \/ Restored(c) \/ LoginServed(c) \/ LoginRefused(c)
  \/ SignedIn(c) \/ LoggedOut(c)

Begin(c) ==
  \E t \in Tabs :
    \/ OpenPage(c, t) \/ Logout(c, t)
    \/ \E remember \in BOOLEAN : Login(c, t, remember)
    \/ \E p \in Profiles :
         \/ SelectProfile(c, t, p)
         \/ \E e \in Endpoints : SaveProfile(c, t, p, e)

Next ==
  \/ \E c \in Calls : Continue(c) \/ GiveUp(c) \/ Unsent(c) \/ Begin(c)
  \/ \E t \in Tabs, p \in Profiles : DeleteProfile(t, p)

Spec == Init /\ [][Next]_vars

-----------------------------------------------------------------------------
(* Properties *)

\* No refresh token reaches a server twice, whichever tabs hold it, whatever
\* is reloaded, duplicated or lost: the scope is marked before it is sent.
PresentedOnce == \A n \in 1 .. MaxPairs : presented[n] <= 1

\* A tab whose session was restored shows the profile it was restored for,
\* although the profile may change while refreshSession waits, and the session
\* may outlive the choice of a profile.
SignedInWhereAsked ==
  \A t \in Tabs : tab[t].session # 0 =>
    pairs[tab[t].session].profile \in {None, tab[t].active}
=============================================================================
