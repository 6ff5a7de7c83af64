------------------------------ MODULE Accounts ------------------------------
(***************************************************************************)
(* Users, workspaces, sessions and password resets: the statements of       *)
(* internal/store/store.go and accounts.go and the handlers of              *)
(* api/handlers_auth.go that issue them.  A statement is atomic, the two     *)
(* INSERTs of a sign-up are a transaction; requests interleave between       *)
(* statements, and any statement may fail or lose its answer.                *)
(*                                                                         *)
(* A password, a session and a reset link are named by the request that      *)
(* made them.  Sign-ups ask for the same workspace name: the n-th slug is n.  *)
(***************************************************************************)
EXTENDS Naturals, FiniteSets

CONSTANTS
  Emails,
  Calls,     \* the requests to /v1/auth/...
  Founder,   \* the call that made what the database holds at the start
  None

ASSUME AccountsAssumption ==
  /\ Founder \notin Calls
  /\ None \notin Calls \cup {Founder} \cup Nat

VARIABLES
  password,   \* users.password_hash; None if the e-mail address has no account
  slug,       \* the slug of the account's workspace; None without an account
  sessions,   \* the rows of sessions
  links,      \* the rows of password_resets
  used,       \* those with a used_at
  dead,       \* those whose expires_at has passed
  step,       \* where each call is
  user,       \* the e-mail address it is about
  wants,      \* a sign-up: the slug it found free
  link,       \* a reset: the link it presents
  before      \* a reset: the user's sessions when it changed the password

Makers == Calls \cup {Founder}

accountRows == <<password, slug>>
linkRows    == <<links, used, dead>>
callVars    == <<step, user, wants, link, before>>
accountsVars == <<accountRows, sessions, linkRows, callVars>>

Registered(e) == password[e] # None
SlugsTaken    == {slug[e] : e \in {e \in Emails : Registered(e)}}
SessionsOf(e) == {s \in sessions : user[s] = e}

AccountsTypeOK ==
  /\ password \in [Emails -> Makers \cup {None}]
  /\ slug \in [Emails -> Nat \cup {None}]
  /\ sessions \subseteq Makers
  /\ links \subseteq Makers
  /\ used \subseteq links
  /\ dead \subseteq links
  /\ step \in [Calls -> {"idle", "slug", "insert", "welcome", "open", "in", "joined",
                         "sent", "password", "mark", "revoke", "reset", "out",
                         "refused", "failed", "unmarked", "cut"}]
  /\ user \in [Makers -> Emails \cup {None}]
  /\ wants \in [Calls -> Nat]
  /\ link \in [Calls -> Makers \cup {None}]
  /\ before \in [Calls -> SUBSET Makers]

\* The database is empty, or holds an account with a session and a reset link.
AccountsInit ==
  /\ \/ /\ password = [e \in Emails |-> None]
        /\ slug = [e \in Emails |-> None]
        /\ user = [m \in Makers |-> None]
        /\ sessions = {} /\ links = {}
     \/ \E f \in Emails :
          /\ password = [e \in Emails |-> IF e = f THEN Founder ELSE None]
          /\ slug = [e \in Emails |-> IF e = f THEN 0 ELSE None]
          /\ user = [m \in Makers |-> IF m = Founder THEN f ELSE None]
          /\ sessions = {Founder} /\ links = {Founder}
  /\ used = {} /\ dead = {}
  /\ step = [c \in Calls |-> "idle"]
  /\ wants = [c \in Calls |-> 0]
  /\ link = [c \in Calls |-> None]
  /\ before = [c \in Calls |-> {}]

Goto(c, s) == step' = [step EXCEPT ![c] = s]

\* The call c is about the account of e.
Begin(c, e, s) ==
  /\ step[c] = "idle"
  /\ user' = [user EXCEPT ![c] = e]
  /\ Goto(c, s)

-----------------------------------------------------------------------------
(* handleSignup: Signup, then CreateSession *)

\* SELECT COUNT(*) ... WHERE email.
BeginSignup(c, e) ==
  /\ Begin(c, e, IF Registered(e) THEN "refused" ELSE "slug")
  /\ UNCHANGED <<accountRows, sessions, linkRows, wants, link, before>>

\* uniqueSlug stops at the first slug that is free when it asks, or at one whose SELECT
\* fails, for it ignores the error.  Workspaces are never deleted, so the slugs it found
\* taken still are.
UniqueSlug(c) ==
  /\ step[c] = "slug"
  /\ \E n \in 0..Cardinality(SlugsTaken) :
       /\ 0..(n - 1) \subseteq SlugsTaken
       /\ wants' = [wants EXCEPT ![c] = n]
  /\ Goto(c, "insert")
  /\ UNCHANGED <<accountRows, sessions, linkRows, user, link, before>>

\* The UNIQUE columns of users and workspaces.
MayInsertSlug(c) == wants[c] \notin SlugsTaken          \* fault: relies on the COUNT
MayInsert(c)     == ~Registered(user[c]) /\ wants[c] \notin SlugsTaken

InsertAccount(c) ==
  /\ step[c] = "insert"
  /\ IF MayInsert(c)
     THEN /\ password' = [password EXCEPT ![user[c]] = c]
          /\ slug' = [slug EXCEPT ![user[c]] = wants[c]]
          /\ Goto(c, "welcome")
     ELSE Goto(c, "failed") /\ UNCHANGED accountRows
  /\ UNCHANGED <<sessions, linkRows, user, wants, link, before>>

-----------------------------------------------------------------------------
(* handleLogin: Login, then CreateSession; handleLogout *)

\* The account exists and the password is right; otherwise nothing happens.
Login(c, e) ==
  /\ Registered(e)
  /\ Begin(c, e, "open")
  /\ UNCHANGED <<accountRows, sessions, linkRows, wants, link, before>>

CreateSession(c) ==
  /\ step[c] \in {"welcome", "open"}
  /\ sessions' = sessions \cup {c}
  /\ Goto(c, IF step[c] = "open" THEN "in" ELSE "joined")
  /\ UNCHANGED <<accountRows, linkRows, user, wants, link, before>>

\* With all=true the user's sessions go first, then the one presented.  Both DELETEs may
\* fail, and are not asked whether they did.
Logout(c, s) ==
  /\ s \in sessions
  /\ Begin(c, user[s], "out")
  /\ \E gone \in {{}, {s}, SessionsOf(user[s])} : sessions' = sessions \ gone
  /\ UNCHANGED <<accountRows, linkRows, wants, link, before>>

\* The session's 30 days are over; UserBySession deletes the row when it meets it.
ExpireSession(s) ==
  /\ s \in sessions
  /\ sessions' = sessions \ {s}
  /\ UNCHANGED <<accountRows, linkRows, callVars>>

-----------------------------------------------------------------------------
(* handleForgotPassword, handleResetPassword *)

\* Users are never deleted, so the account found by UserByEmail is there for the INSERT.
\* Whether the e-mail then goes out changes the answer only.
Forgot(c, e) ==
  /\ Registered(e)
  /\ links' = links \cup {c}
  /\ Begin(c, e, "sent")
  /\ UNCHANGED <<accountRows, sessions, used, dead, wants, link, before>>

Lapses(l) ==
  /\ l \in links \ dead
  /\ dead' = dead \cup {l}
  /\ UNCHANGED <<accountRows, sessions, links, used, callVars>>

LinkUnexpired(l) == l \in links \ dead                   \* fault: forgets used_at
LinkGood(l)      == l \in links \ (used \cup dead)

\* ResetPassword: the SELECT and the tests on what it returned.
CheckLink(c, l) ==
  /\ l \in links
  /\ Begin(c, user[l], IF LinkGood(l) THEN "password" ELSE "refused")
  /\ link' = [link EXCEPT ![c] = l]
  /\ UNCHANGED <<accountRows, sessions, linkRows, wants, before>>

SetPassword(c) ==
  /\ step[c] = "password"
  /\ password' = [password EXCEPT ![user[c]] = c]
  /\ before' = [before EXCEPT ![c] = SessionsOf(user[c])]
  /\ Goto(c, "mark")
  /\ UNCHANGED <<slug, sessions, linkRows, user, wants, link>>

MarkUsed(c) ==
  /\ step[c] = "mark"
  /\ used' = used \cup {link[c]}
  /\ Goto(c, "revoke")
  /\ UNCHANGED <<accountRows, sessions, links, dead, user, wants, link, before>>

RevokedNone(c) == {}                     \* fault: the sessions live on
Revoked(c)    == SessionsOf(user[c])

RevokeSessions(c) ==
  /\ step[c] = "revoke"
  /\ sessions' = sessions \ Revoked(c)
  /\ Goto(c, "reset")
  /\ UNCHANGED <<accountRows, linkRows, user, wants, link, before>>

-----------------------------------------------------------------------------
\* The next statement does not run, or the answer to the last one is lost, or the process
\* stops: what was written stays.
AbandonCall(c) ==
  /\ step[c] \in {"slug", "insert", "welcome", "open", "password", "mark", "revoke"}
  /\ Goto(c, CASE step[c] = "mark" -> "unmarked"
               [] step[c] = "revoke" -> "cut"
               [] OTHER -> "failed")
  /\ UNCHANGED <<accountRows, sessions, linkRows, user, wants, link, before>>

AccountsNext ==
  \/ \E c \in Calls, e \in Emails : BeginSignup(c, e) \/ Login(c, e) \/ Forgot(c, e)
  \/ \E c \in Calls :
       \/ UniqueSlug(c) \/ InsertAccount(c) \/ CreateSession(c)
       \/ SetPassword(c) \/ MarkUsed(c) \/ RevokeSessions(c) \/ AbandonCall(c)
  \/ \E c \in Calls, m \in Makers : Logout(c, m) \/ CheckLink(c, m)
  \/ \E m \in Makers : ExpireSession(m) \/ Lapses(m)

AccountsSpec == AccountsInit /\ [][AccountsNext]_accountsVars

-----------------------------------------------------------------------------
(* Properties *)

\* Of sign-ups that overlap, no two are told that they own an e-mail address, and no two
\* accounts share a workspace: the COUNTs of Signup and uniqueSlug are stale by the time
\* of the INSERTs, which must fail then.
SignupsKeptApart ==
  /\ \A c, d \in Calls :
       c # d /\ {step[c], step[d]} \subseteq {"welcome", "joined"} => user[c] # user[d]
  /\ \A e, f \in Emails :
       e # f /\ Registered(e) /\ Registered(f) => slug[e] # slug[f]

\* Once a reset has been answered, no session lives that the user had when the password
\* was changed, whatever other calls did meanwhile (ResetPassword "revokes all of the
\* user's sessions", in a statement of its own).
ResetEndsSessions ==
  \A c \in Calls : step[c] = "reset" => sessions \cap before[c] = {}

Presenting(l, steps) == {c \in Calls : link[c] = l /\ step[c] \in steps}

\* What TokenUse sees of the links: one is granted when its call knows that used_at is set.
LinkRules ==
  INSTANCE TokenUse WITH
    Tokens <- Makers,
    Requests <- Calls,
    Limit <- [l \in Makers |-> 1],
    admitted <- [l \in Makers |-> Presenting(l, {"password", "mark"})],
    granted <- [l \in Makers |-> Presenting(l, {"revoke", "reset", "cut"})]

\* A reset lets no call change a password that reads the link's row after used_at was set
\* ("this reset link has already been used").  Calls that read it before that may: those
\* that overlap, and any that follow one whose MarkUsed failed.
MarkedLinksAreRefused == LinkRules!Spec

\* A link changes a password once ("single-use", accounts.go:32 and schema.go:146): the
\* calls that have got past SetPassword with it are one at most.
LinksWorkOnce ==
  \A l \in Makers :
    Cardinality(Presenting(l, {"mark", "unmarked", "revoke", "reset", "cut"})) <= 1
=============================================================================
