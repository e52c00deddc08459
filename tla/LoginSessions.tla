--------------------------- MODULE LoginSessions ---------------------------
(***************************************************************************)
(* What the login gate promises, without sockets, tasks, stamps, counts or *)
(* files: which displays are remembered and which connections are in a     *)
(* session of which display.  A session starts with a password (a display  *)
(* never seen before) or with a remembered login, and a login is forgotten *)
(* in three ways only: revoked, lapsed while no session of it is open, or  *)
(* by a restart, which wipes everything (another password) or returns to   *)
(* what was last kept.  A write that fails keeps what was kept before.     *)
(***************************************************************************)
CONSTANTS Conn, Display, None

VARIABLES session, remembered, kept, issued

sessionVars == <<session, remembered, kept, issued>>

Fresh == Display \ issued

\* From now on logins are remembered; the write of them may have failed.
Remember(logins) == remembered' = logins /\ kept' \in {logins, kept}

\* The logins in ids, but for some that have no session in sess.
Lapsing(ids, sess) ==
    \E gone \in SUBSET {d \in ids : \A c \in Conn : sess[c] # d} : Remember(ids \ gone)

SessionsInit ==
    /\ session = [c \in Conn |-> None]
    /\ remembered = {} /\ kept = {}
    /\ issued = {}

Pair(c, d) ==
    /\ session[c] = None /\ d \in Fresh
    /\ session' = [session EXCEPT ![c] = d]
    /\ Remember(remembered \cup {d})
    /\ issued' = issued \cup {d}

Return(c, d) ==
    /\ session[c] = None /\ d \in remembered
    /\ session' = [session EXCEPT ![c] = d]
    /\ Remember(remembered)
    /\ UNCHANGED issued

Leave(c) ==
    /\ session[c] # None
    /\ session' = [session EXCEPT ![c] = None]
    /\ Lapsing(remembered, session')
    /\ UNCHANGED issued

Revoke(d) ==
    /\ d \in remembered
    /\ Lapsing(remembered \ {d}, session)
    /\ UNCHANGED <<session, issued>>

Lapse ==
    /\ Lapsing(remembered, session)
    /\ UNCHANGED <<session, issued>>

Restart ==
    /\ session' = [c \in Conn |-> None]
    /\ remembered' \in {kept, {}}
    /\ kept' \in {remembered', kept}
    /\ UNCHANGED issued

SessionsNext ==
    \/ \E c \in Conn, d \in Display : Pair(c, d) \/ Return(c, d)
    \/ \E c \in Conn : Leave(c)
    \/ \E d \in Display : Revoke(d)
    \/ Lapse
    \/ Restart

SessionsSpec == SessionsInit /\ [][SessionsNext]_sessionVars
=============================================================================
