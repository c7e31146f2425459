------------------------------- MODULE Sessions -------------------------------
(***************************************************************************)
(* Sessions: AuthManager's login, the SessionStore behind it, and its two    *)
(* kinds of users, the command line, which has one context, and the workers, *)
(* which keep one session for each connection of a client.                   *)
(*                                                                         *)
(* The store is a map behind a reader-writer lock, so insert, validate,      *)
(* refresh and remove are one action each.  A login is several: the query    *)
(* for the officer, the insertion, and for the command line the validation   *)
(* of the token it has just been given.  The clock runs between them, by any *)
(* amount.  What the store writes to the database is not modelled: there is  *)
(* no table "sessions" in the schema, and the result is ignored.             *)
(***************************************************************************)
EXTENDS Integers, FiniteSets

CONSTANTS
    CLI,           \* the command line
    Connections,   \* connections of clients
    Officers,      \* officers in the database
    Nobody,        \* no officer: officer_id is -1, or not authenticated
    Rank,          \* current_rank of each officer
    FirstOfficer,  \* the officer whose officer_id is 1
    Fallback,      \* JF_TEST_AUTH_FALLBACK is set
    Lifetime,      \* 8 hours, in steps of the clock
    MaxTime,       \* bound: the clock
    MaxTokens      \* bound: tokens that are generated

(* The enumerators of OfficerRank, in order                                  *)
Ranks == <<"CONSTABLE", "HEAD_CONSTABLE", "ASI", "SI", "INSPECTOR", "DSP", "SP", "SSP",
           "DIG", "ADDL_IG", "IGP">>
Ordinal(r) == (CHOOSE i \in DOMAIN Ranks : Ranks[i] = r) - 1

(* The ranks that login can read, and their places in validateRank           *)
Position_FromOne == [CONSTABLE |-> 1, INSPECTOR |-> 2, SI |-> 3, DSP |-> 4]
Position == [CONSTABLE |-> 0, INSPECTOR |-> 1, SI |-> 2, DSP |-> 3]

Users   == {CLI} \cup Connections
NoToken == 0
Tokens  == 1..MaxTokens

ASSUME SessionsAssumption ==
    /\ CLI \notin Connections /\ IsFiniteSet(Connections)
    /\ Nobody \notin Officers /\ FirstOfficer \in Officers
    /\ \A o \in Officers : \E i \in DOMAIN Ranks : Rank[o] = Ranks[i]
    /\ Fallback \in BOOLEAN
    /\ Lifetime \in Nat \ {0} /\ MaxTime \in Nat /\ MaxTokens \in Nat

VARIABLES
    now,      \* time(nullptr)
    store,    \* session_map: the sessions, no two with the same token
    minted,   \* tokens generated so far
    doing,    \* where each user is: idle, query, insert, validate, command, request
    fresh,    \* the session a login is about to insert
    held,     \* m_context of the command line, session of a connection
    dropped,  \* history: tokens of connections that ended without a LOGOUT
    running   \* m_running of the command line

sessionVars == <<now, store, minted, doing, fresh, held, dropped, running>>

Guest == [officer |-> Nobody, token |-> NoToken, rank |-> "CONSTABLE"]

SessionsInit ==
    /\ now = 0
    /\ store = {}
    /\ minted = 0
    /\ doing = [u \in Users |-> "idle"]
    /\ fresh = {}
    /\ held = [u \in Users |-> Guest]
    /\ dropped = {}
    /\ running = TRUE

Idle(u)     == doing[u] = "idle" /\ (u = CLI => running)
LoggedIn(u) == held[u].officer # Nobody /\ held[u].token # NoToken
Go(u, l)    == doing' = [doing EXCEPT ![u] = l]

Tick ==
    /\ \E t \in now + 1..MaxTime : now' = t
    /\ UNCHANGED <<store, minted, doing, fresh, held, dropped, running>>

-----------------------------------------------------------------------------
(* The store                                                                 *)

Expired(s) == now >= s.expiresAt  \* the idle check is commented out
Valid(token) == \E s \in store : s.token = token /\ ~Expired(s)

Inserted_ByOfficer(s) == {e \in store : e.officer # s.officer} \cup {s}
Inserted(s) == store \cup {s}

Without_Kept(token) == store
Without(token) == {s \in store : s.token # token}

-----------------------------------------------------------------------------
(* login                                                                     *)

(* Everything that is turned down without a step: no credentials or rejected  *)
(* ones, a malformed frame, a second login, a command or a request of a       *)
(* guest, and the commands that need no login.                                *)
Refuse(u) == Idle(u) /\ UNCHANGED sessionVars

Login(u) ==
    /\ Idle(u) /\ ~LoggedIn(u)
    /\ Go(u, "query")
    /\ UNCHANGED <<now, store, minted, fresh, held, dropped, running>>

Session(token, o, r) ==
    [token |-> token, officer |-> o, rank |-> r, createdAt |-> now, expiresAt |-> now + Lifetime]

Mint(u, o, r) ==
    /\ minted < MaxTokens
    /\ minted' = minted + 1
    /\ fresh' = fresh \cup {<<u, Session(minted', o, r)>>}
    /\ Go(u, "insert")
    /\ UNCHANGED <<now, store, held, dropped, running>>

(* The row of an officer whose rank is one of the four; the officer's status   *)
(* is not looked at.                                                           *)
FindOfficer(u, o) ==
    /\ doing[u] = "query"
    /\ Rank[o] \in DOMAIN Position
    /\ Mint(u, o, Rank[o])

(* The query fails, and JF_TEST_AUTH_FALLBACK has the credentials.             *)
FallBack(u) ==
    /\ doing[u] = "query" /\ Fallback
    /\ Mint(u, FirstOfficer, "SI")

(* No such officer, another rank, no token, or the query fails.                *)
LoginFails(u) ==
    /\ doing[u] = "query"
    /\ Go(u, "idle")
    /\ UNCHANGED <<now, store, minted, fresh, held, dropped, running>>

Holding(s) == [officer |-> s.officer, token |-> s.token, rank |-> s.rank]

Insert(u) ==
    /\ doing[u] = "insert"
    /\ \E e \in fresh :
          /\ e[1] = u
          /\ fresh' = fresh \ {e}
          /\ store' = Inserted(e[2])
          /\ IF u = CLI
             THEN Go(u, "validate") /\ held' = [held EXCEPT ![u].token = e[2].token]
             ELSE Go(u, "idle") /\ held' = [held EXCEPT ![u] = Holding(e[2])]
    /\ UNCHANGED <<now, minted, dropped, running>>

-----------------------------------------------------------------------------
(* The command line.  The token of a login that is not validated is forgotten. *)
(* So is the one of a session that has expired: the context is invalidated,     *)
(* and then there is nothing to log out any more.                               *)

AcceptLogin ==
    /\ doing[CLI] = "validate"
    /\ \E s \in store : s.token = held[CLI].token /\ ~Expired(s)
                        /\ held' = [held EXCEPT ![CLI] = Holding(s)]
    /\ Go(CLI, "idle")
    /\ UNCHANGED <<now, store, minted, fresh, dropped, running>>

RejectLogin ==
    /\ doing[CLI] = "validate" /\ ~Valid(held[CLI].token)
    /\ Go(CLI, "idle")
    /\ held' = [held EXCEPT ![CLI] = Guest]
    /\ UNCHANGED <<now, store, minted, fresh, dropped, running>>

CLILogout ==
    /\ Idle(CLI) /\ LoggedIn(CLI)
    /\ store' = Without(held[CLI].token)
    /\ held' = [held EXCEPT ![CLI] = Guest]
    /\ UNCHANGED <<now, minted, doing, fresh, dropped, running>>

RequireLogin ==
    /\ Idle(CLI) /\ LoggedIn(CLI)
    /\ IF Valid(held[CLI].token)
       THEN Go(CLI, "command") /\ UNCHANGED held
       ELSE held' = [held EXCEPT ![CLI].officer = Nobody] /\ UNCHANGED doing
    /\ UNCHANGED <<now, store, minted, fresh, dropped, running>>

(* The commands that need a login.  Two of them read cases (module CaseFiles,  *)
(* ListCases and GetCase), the others only print.                              *)
CaseCommand ==
    /\ doing[CLI] = "command"
    /\ Go(CLI, "idle")
    /\ UNCHANGED <<now, store, minted, fresh, held, dropped, running>>

Placeholder ==
    /\ doing[CLI] = "command"
    /\ Go(CLI, "idle")
    /\ UNCHANGED <<now, store, minted, fresh, held, dropped, running>>

Exit ==  \* exit, quit, or the end of the input
    /\ Idle(CLI)
    /\ running' = FALSE
    /\ UNCHANGED <<now, store, minted, doing, fresh, held, dropped>>

-----------------------------------------------------------------------------
(* The workers.  A query is validated, waits for a slot and is executed, and   *)
(* then the session is refreshed, which does not move its end.                 *)

ClientRequest(c) ==
    /\ Idle(c) /\ LoggedIn(c) /\ Valid(held[c].token)
    /\ Go(c, "request")
    /\ UNCHANGED <<now, store, minted, fresh, held, dropped, running>>

Refresh(c) ==
    /\ doing[c] = "request"
    /\ Go(c, "idle")
    /\ UNCHANGED <<now, store, minted, fresh, held, dropped, running>>

ClientLogout(c) ==
    /\ Idle(c) /\ LoggedIn(c)
    /\ store' = Without(held[c].token)
    /\ held' = [held EXCEPT ![c] = Guest]
    /\ UNCHANGED <<now, minted, doing, fresh, dropped, running>>

(* The client closes the connection, a read fails, or a query is refused       *)
(* because the session has expired.  The worker takes the connection off the    *)
(* registry and leaves the session in the store.                               *)
Disconnect(c) ==
    /\ doing[c] \in {"idle", "request"} /\ LoggedIn(c)
    /\ dropped' = dropped \cup {held[c].token}
    /\ held' = [held EXCEPT ![c] = Guest]
    /\ Go(c, "idle")
    /\ UNCHANGED <<now, store, minted, fresh, running>>

Common(u) ==
    \/ Refuse(u) \/ Login(u) \/ LoginFails(u) \/ FallBack(u) \/ Insert(u)
    \/ \E o \in Officers : FindOfficer(u, o)

Command == AcceptLogin \/ RejectLogin \/ CLILogout \/ RequireLogin \/ CaseCommand
           \/ Placeholder \/ Exit

Serve(c) == ClientRequest(c) \/ Refresh(c) \/ ClientLogout(c) \/ Disconnect(c)

SessionsNext ==
    \/ Tick
    \/ \E u \in Users : Common(u)
    \/ Command
    \/ \E c \in Connections : Serve(c)

SessionsSpec == SessionsInit /\ [][SessionsNext]_sessionVars

-----------------------------------------------------------------------------
(* validateRank of AuthManager, with a rank that is required as an enumerator  *)
(* (that is how every caller passes it), and validateRank of AuthFacade         *)
PassesManager(s, required) ==
    s.rank \in DOMAIN Position /\ Position[s.rank] >= Ordinal(required)
PassesFacade(s, required) == Ordinal(s.rank) >= Ordinal(required)

Known == {Rank[o] : o \in Officers} \cup {"SI"}

(* Types; no two sessions, stored or about to be, share a token, and each of   *)
(* them ends a lifetime after it was created, whatever is refreshed.           *)
SessionsTypeOK ==
    /\ now \in 0..MaxTime
    /\ minted \in 0..MaxTokens
    /\ LET all == store \cup {e[2] : e \in fresh} IN
          /\ \A s \in all :
                /\ s.token \in 1..minted /\ s.officer \in Officers
                /\ s.rank \in Known \cap DOMAIN Position
                /\ s.createdAt \in 0..now /\ s.expiresAt = s.createdAt + Lifetime
          /\ \A s, e \in all : s.token = e.token => s = e
    /\ \A u \in Users : Cardinality({e \in fresh : e[1] = u}) = IF doing[u] = "insert" THEN 1 ELSE 0
    /\ doing \in [Users -> {"idle", "query", "insert", "validate", "command", "request"}]
    /\ held \in [Users -> [officer : Officers \cup {Nobody}, token : {NoToken} \cup Tokens,
                           rank : Known \cup {"CONSTABLE"}]]
    /\ dropped \subseteq 1..minted
    /\ running \in BOOLEAN

(* Nobody but its owner can end a session that has not expired, also when the  *)
(* same officer has several: whoever is shown as logged in, at the command     *)
(* line or on a connection, has that very session in the store, with that      *)
(* officer and rank.                                                           *)
HeldIsStored ==
    \A u \in Users : LoggedIn(u) => \E s \in store : Holding(s) = held[u]

(* A session that is valid has somebody who can log it out: the command line,   *)
(* also while it is still validating it, or an open connection.  Otherwise it   *)
(* is one whose connection was closed without a LOGOUT: nothing removes that    *)
(* one, and its token stays valid until the end of its lifetime.  Expired ones   *)
(* stay in the map for good.                                                    *)
ValidHasAnOwner ==
    \A s \in store : ~Expired(s) =>
       \/ s.token \in dropped
       \/ \E u \in Users : held[u].token = s.token

(* The rank in a session is compared as a place in a list of four with an       *)
(* ordinal among eleven.  It never lets through an officer whose rank is too     *)
(* low; but it lets nobody through for INSPECTOR, which is what warrants, bails  *)
(* and forensic requests ask for.                                               *)
RankCheckNeverLenient ==
    \A s \in store :
       /\ \A i \in DOMAIN Ranks : PassesManager(s, Ranks[i]) => PassesFacade(s, Ranks[i])
       /\ ~PassesManager(s, "INSPECTOR")
=============================================================================
