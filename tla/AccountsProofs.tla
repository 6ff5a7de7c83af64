--------------------------- MODULE AccountsProofs ---------------------------
(***************************************************************************)
(* Proofs about Accounts, for any number of e-mail addresses and requests:   *)
(* what overlapping sign-ups and resets leave behind, and that reset links   *)
(* implement TokenUse.                                                       *)
(***************************************************************************)
EXTENDS Accounts, FiniteSetTheorems, TLAPS

\* A call knows its account and its link from the step that found them on.
CallInv(c) ==
  /\ step[c] # "idle" => user[c] \in Emails
  /\ step[c] = "idle" => before[c] = {}
  /\ step[c] \in {"welcome", "joined", "password"} => Registered(user[c])
  /\ step[c] \in {"password", "mark", "revoke", "reset", "cut"} => link[c] \in links
  /\ step[c] \in {"revoke", "reset", "cut"} => link[c] \in used

\* The call that made a row has done so: it will not change its user, nor make it again.
RowsInv ==
  /\ \A l \in links : /\ user[l] \in Emails /\ Registered(user[l])
                      /\ l \in Calls => step[l] # "idle"
  /\ \A s \in sessions : user[s] \in Emails /\ (s \in Calls => step[s] \in {"in", "joined"})

\* The sessions that a reset is to end are its user's, and old.
BeforeInv ==
  \A c \in Calls : \A s \in before[c] :
    user[s] = user[c] /\ (s \in Calls => step[s] \in {"in", "joined"})

CallsInv == \A c \in Calls : CallInv(c)

AccountsInv ==
  AccountsTypeOK /\ CallsInv /\ RowsInv /\ BeforeInv /\ SignupsKeptApart /\ ResetEndsSessions

LEMMA AccountsInitInv == AccountsInit => AccountsInv
<1> SUFFICES ASSUME AccountsInit PROVE AccountsInv
  OBVIOUS
<1> USE AccountsAssumption DEF AccountsInit, Makers
<1>1. AccountsTypeOK
  BY DEF AccountsTypeOK
<1>2. CallsInv /\ RowsInv /\ BeforeInv
  BY DEF CallsInv, CallInv, RowsInv, BeforeInv, Registered
<1>3. SignupsKeptApart /\ ResetEndsSessions
  BY DEF SignupsKeptApart, ResetEndsSessions, Registered
<1> QED BY <1>1, <1>2, <1>3 DEF AccountsInv

-----------------------------------------------------------------------------

\* A call begins: it finds no account, or logs in or out, or asks for a link.
LEMMA BeginStep ==
  ASSUME AccountsInv, NEW c \in Calls, NEW e \in Emails, NEW s, Begin(c, e, s),
         s \in {"slug", "open", "sent", "out", "refused"},
         UNCHANGED <<accountRows, used, dead, wants, link, before>>,
         sessions' \subseteq sessions, links' = links \/ (links' = links \cup {c} /\ Registered(e))
  PROVE  AccountsInv'
<1> USE AccountsAssumption DEF AccountsInv, Begin, Goto, accountRows, Makers
<1>1. AccountsTypeOK'
  BY DEF AccountsTypeOK
<1>2. /\ step[c] = "idle" /\ user'[c] = e /\ step'[c] = s
      /\ \A m \in Makers \ {c} : user'[m] = user[m]
      /\ \A d \in Calls \ {c} : step'[d] = step[d]
  BY DEF AccountsTypeOK
<1>3. \A m \in sessions \cup links : m # c
  BY <1>2 DEF RowsInv
<1>4. CallsInv'
  BY <1>2 DEF CallsInv, CallInv, AccountsTypeOK, Registered
<1>5. RowsInv'
  BY <1>2, <1>3 DEF RowsInv, AccountsTypeOK, Registered
<1>6. BeforeInv'
  BY <1>2 DEF BeforeInv, CallsInv, CallInv, AccountsTypeOK
<1>7. SignupsKeptApart'
  BY <1>2 DEF SignupsKeptApart, Registered
<1>8. ResetEndsSessions'
  BY <1>2 DEF ResetEndsSessions
<1> QED BY <1>1, <1>4, <1>5, <1>6, <1>7, <1>8

LEMMA InsertStep ==
  ASSUME AccountsInv, NEW c \in Calls, InsertAccount(c), MayInsert(c)
  PROVE  AccountsInv'
<1> DEFINE e == user[c]
<1> USE AccountsAssumption DEF AccountsInv, linkRows
<1>1. /\ step[c] = "insert" /\ e \in Emails /\ ~Registered(e) /\ wants[c] \notin SlugsTaken
      /\ step' = [step EXCEPT ![c] = "welcome"] /\ c \in Makers
      /\ password' = [password EXCEPT ![e] = c] /\ slug' = [slug EXCEPT ![e] = wants[c]]
      /\ UNCHANGED <<sessions, links, used, dead, user, wants, link, before>>
  BY DEF InsertAccount, MayInsert, CallsInv, CallInv, Goto, Makers
<1>2. AccountsTypeOK'
  BY <1>1 DEF AccountsTypeOK
<1>3. \A f \in Emails : Registered(f)' <=> Registered(f) \/ f = e
  BY <1>1 DEF Registered, AccountsTypeOK, Makers
<1>4. step'[c] = "welcome" /\ \A d \in Calls \ {c} : step'[d] = step[d]
  BY <1>1 DEF AccountsTypeOK
<1>5. CallsInv'
  BY <1>1, <1>3, <1>4 DEF CallsInv, CallInv
<1>6. RowsInv'
  BY <1>1, <1>3, <1>4 DEF RowsInv
<1>7. BeforeInv' /\ ResetEndsSessions'
  BY <1>1, <1>4 DEF BeforeInv, ResetEndsSessions
<1>8. SignupsKeptApart'
  <2>1. \A d \in Calls \ {c} : step[d] \in {"welcome", "joined"} => user[d] # e
    BY <1>1 DEF CallsInv, CallInv
  <2>2. \A f \in Emails \ {e} : /\ slug'[f] = slug[f]
                                /\ Registered(f) => slug[f] # wants[c]
    BY <1>1 DEF SlugsTaken, AccountsTypeOK
  <2>3. slug'[e] = wants[c]
    BY <1>1 DEF AccountsTypeOK
  <2>4. ASSUME NEW f \in Emails, NEW g \in Emails, f # g, Registered(f)', Registered(g)'
        PROVE slug'[f] # slug'[g]
    BY <1>3, <2>2, <2>3, <2>4 DEF SignupsKeptApart
  <2>5. ASSUME NEW d \in Calls, NEW b \in Calls, d # b,
               {step'[d], step'[b]} \subseteq {"welcome", "joined"}
        PROVE user'[d] # user'[b]
    BY <1>1, <1>4, <2>1, <2>5 DEF SignupsKeptApart
  <2> QED BY <2>4, <2>5 DEF SignupsKeptApart
<1> QED BY <1>2, <1>5, <1>6, <1>7, <1>8

LEMMA CreateSessionStep ==
  ASSUME AccountsInv, NEW c \in Calls, CreateSession(c)
  PROVE  AccountsInv'
<1> USE AccountsAssumption DEF AccountsInv
<1>1. /\ step[c] \in {"welcome", "open"} /\ c \in Makers
      /\ sessions' = sessions \cup {c} /\ user[c] \in Emails
      /\ UNCHANGED <<password, slug, links, used, dead, user, wants, link, before>>
  BY DEF CreateSession, Goto, accountRows, linkRows, Makers, CallsInv, CallInv
<1>2. /\ step'[c] = IF step[c] = "open" THEN "in" ELSE "joined"
      /\ \A d \in Calls \ {c} : step'[d] = step[d]
  BY DEF CreateSession, Goto, AccountsTypeOK
<1>3. AccountsTypeOK'
  BY <1>1 DEF AccountsTypeOK, CreateSession, Goto
<1>4. CallsInv' /\ RowsInv'
  BY <1>1, <1>2 DEF CallsInv, CallInv, RowsInv, Registered
<1>5. \A d \in Calls : c \notin before[d]
  BY <1>1 DEF BeforeInv
<1>6. BeforeInv' /\ ResetEndsSessions'
  BY <1>1, <1>2, <1>5 DEF BeforeInv, ResetEndsSessions
<1>7. SignupsKeptApart'
  BY <1>1, <1>2 DEF SignupsKeptApart, Registered
<1> QED BY <1>3, <1>4, <1>6, <1>7

LEMMA SetPasswordStep ==
  ASSUME AccountsInv, NEW c \in Calls, SetPassword(c)
  PROVE  AccountsInv'
<1> USE AccountsAssumption DEF AccountsInv
<1>1. /\ step[c] = "password" /\ c \in Makers /\ user[c] \in Emails /\ Registered(user[c])
      /\ password' = [password EXCEPT ![user[c]] = c]
      /\ before' = [before EXCEPT ![c] = SessionsOf(user[c])]
      /\ step' = [step EXCEPT ![c] = "mark"]
      /\ UNCHANGED <<slug, sessions, links, used, dead, user, wants, link>>
  BY DEF SetPassword, Goto, linkRows, Makers, CallsInv, CallInv
<1>2. AccountsTypeOK'
  BY <1>1 DEF AccountsTypeOK, SessionsOf
<1>3. \A f \in Emails : Registered(f)' <=> Registered(f)
  BY <1>1 DEF Registered, AccountsTypeOK, Makers
<1>4. /\ step'[c] = "mark" /\ before'[c] = SessionsOf(user[c])
      /\ \A d \in Calls \ {c} : step'[d] = step[d] /\ before'[d] = before[d]
  BY <1>1 DEF AccountsTypeOK
<1>5. CallsInv' /\ RowsInv'
  BY <1>1, <1>3, <1>4 DEF CallsInv, CallInv, RowsInv
<1>6. BeforeInv'
  BY <1>1, <1>4 DEF BeforeInv, RowsInv, SessionsOf
<1>7. ResetEndsSessions'
  BY <1>1, <1>4 DEF ResetEndsSessions
<1>8. SignupsKeptApart'
  BY <1>1, <1>3, <1>4 DEF SignupsKeptApart
<1> QED BY <1>2, <1>5, <1>6, <1>7, <1>8

LEMMA RevokeStep ==
  ASSUME AccountsInv, NEW c \in Calls, RevokeSessions(c)
  PROVE  AccountsInv'
<1> USE AccountsAssumption DEF AccountsInv
<1>1. /\ step[c] = "revoke" /\ sessions' = sessions \ SessionsOf(user[c])
      /\ step' = [step EXCEPT ![c] = "reset"]
      /\ UNCHANGED <<password, slug, links, used, dead, user, wants, link, before>>
  BY DEF RevokeSessions, Revoked, Goto, accountRows, linkRows
<1>2. AccountsTypeOK'
  BY <1>1 DEF AccountsTypeOK
<1>3. step'[c] = "reset" /\ \A d \in Calls \ {c} : step'[d] = step[d]
  BY <1>1 DEF AccountsTypeOK
<1>4. CallsInv' /\ RowsInv' /\ BeforeInv' /\ SignupsKeptApart'
  BY <1>1, <1>3
     DEF CallsInv, CallInv, RowsInv, BeforeInv, SignupsKeptApart, Registered
<1>5. ResetEndsSessions'
  BY <1>1, <1>3 DEF BeforeInv, ResetEndsSessions, SessionsOf
<1> QED BY <1>2, <1>4, <1>5

\* The steps that move one call and write no more than used_at.
LEMMA QuietStep ==
  ASSUME AccountsInv, UNCHANGED <<password, slug, links, user, link, before>>,
         UNCHANGED <<sessions, dead>>, used \subseteq used', used' \subseteq links,
         wants' \in [Calls -> Nat], NEW c \in Calls, NEW s, step' = [step EXCEPT ![c] = s],
         \/ step[c] \in {"slug", "insert", "welcome", "open", "password", "mark"}
            /\ s \in {"insert", "failed", "unmarked"}
         \/ step[c] = "mark" /\ s = "revoke" /\ link[c] \in used'
         \/ step[c] = "revoke" /\ s = "cut"
  PROVE  AccountsInv'
<1> USE AccountsAssumption DEF AccountsInv
<1>1. AccountsTypeOK'
  BY DEF AccountsTypeOK
<1>2. \A d \in Calls : step'[d] = step[d] \/ (d = c /\ step'[d] = s)
  BY DEF AccountsTypeOK
<1>3. CallsInv'
  BY <1>2 DEF CallsInv, CallInv, Registered
<1>4. RowsInv' /\ BeforeInv'
  BY <1>2 DEF RowsInv, BeforeInv, Registered
<1>5. SignupsKeptApart' /\ ResetEndsSessions'
  BY <1>2 DEF SignupsKeptApart, ResetEndsSessions, Registered
<1> QED BY <1>1, <1>3, <1>4, <1>5

LEMMA UnmovedStep ==
  ASSUME AccountsInv, UNCHANGED <<password, slug, links, user, link, before, step, used>>,
         sessions' \subseteq sessions, dead' \subseteq links, wants' = wants
  PROVE  AccountsInv'
BY DEF AccountsInv, AccountsTypeOK, CallsInv, CallInv, RowsInv, BeforeInv, SignupsKeptApart,
       ResetEndsSessions, Registered

LEMMA CheckLinkStep ==
  ASSUME AccountsInv, NEW c \in Calls, NEW l \in Makers, CheckLink(c, l)
  PROVE  AccountsInv'
<1> DEFINE s == IF LinkGood(l) THEN "password" ELSE "refused"
<1> USE AccountsAssumption DEF AccountsInv
<1>1. /\ l \in links /\ step[c] = "idle" /\ c \in Makers
      /\ user' = [user EXCEPT ![c] = user[l]] /\ user[l] \in Emails /\ Registered(user[l])
      /\ step' = [step EXCEPT ![c] = s] /\ link' = [link EXCEPT ![c] = l]
      /\ UNCHANGED <<password, slug, sessions, links, used, dead, wants, before>>
  BY DEF CheckLink, Begin, Goto, accountRows, linkRows, Makers, RowsInv
<1> HIDE DEF s
<1>2. s \in {"password", "refused"}
  BY DEF s
<1>3. AccountsTypeOK'
  BY <1>1, <1>2 DEF AccountsTypeOK
<1>4. /\ step'[c] = s /\ user'[c] = user[l] /\ link'[c] = l
      /\ \A m \in Makers \ {c} : user'[m] = user[m]
      /\ \A d \in Calls \ {c} : step'[d] = step[d] /\ link'[d] = link[d]
  BY <1>1 DEF AccountsTypeOK
<1>5. \A m \in sessions \cup links : m # c
  BY <1>1 DEF RowsInv
<1>6. \A d \in Calls \ {c} : d \in Makers
  BY DEF Makers
<1>7. CallsInv'
  BY <1>1, <1>2, <1>4, <1>6 DEF CallsInv, CallInv, Registered
<1>8. RowsInv'
  BY <1>1, <1>4, <1>5 DEF RowsInv, Registered, AccountsTypeOK
<1>9. BeforeInv'
  BY <1>1, <1>4, <1>6 DEF BeforeInv, CallsInv, CallInv, AccountsTypeOK
<1>10. SignupsKeptApart' /\ ResetEndsSessions'
  BY <1>1, <1>2, <1>4, <1>6 DEF SignupsKeptApart, ResetEndsSessions, Registered
<1> QED BY <1>3, <1>7, <1>8, <1>9, <1>10

LEMMA AccountsStepInv ==
  ASSUME AccountsInv, [AccountsNext]_accountsVars
  PROVE  AccountsInv'
<1> USE DEF accountRows, linkRows
<1>0. AccountsTypeOK
  BY DEF AccountsInv
<1>1. ASSUME NEW c \in Calls, NEW e \in Emails, BeginSignup(c, e) \/ Login(c, e) \/ Forgot(c, e)
      PROVE AccountsInv'
  <2>1. CASE BeginSignup(c, e)
    BY <2>1, BeginStep DEF BeginSignup
  <2>2. CASE Login(c, e)
    BY <2>2, BeginStep DEF Login
  <2>3. CASE Forgot(c, e)
    BY <2>3, BeginStep DEF Forgot
  <2> QED BY <1>1, <2>1, <2>2, <2>3
<1>2. ASSUME NEW c \in Calls, UniqueSlug(c) PROVE AccountsInv'
  <2>1. wants' \in [Calls -> Nat]
    BY <1>0, <1>2 DEF UniqueSlug, AccountsTypeOK
  <2> QED BY <1>0, <1>2, <2>1, QuietStep DEF UniqueSlug, Goto, AccountsTypeOK
<1>3. ASSUME NEW c \in Calls, InsertAccount(c) PROVE AccountsInv'
  <2>1. CASE MayInsert(c)
    BY <1>3, <2>1, InsertStep
  <2>2. CASE ~MayInsert(c)
    BY <1>0, <1>3, <2>2, QuietStep DEF InsertAccount, Goto, AccountsTypeOK
  <2> QED BY <2>1, <2>2
<1>4. ASSUME NEW c \in Calls, MarkUsed(c) PROVE AccountsInv'
  <2>1. link[c] \in links
    BY <1>4 DEF MarkUsed, AccountsInv, CallsInv, CallInv
  <2> QED BY <1>0, <1>4, <2>1, QuietStep DEF MarkUsed, Goto, AccountsTypeOK
<1>5. ASSUME NEW c \in Calls, AbandonCall(c) PROVE AccountsInv'
  BY <1>0, <1>5, QuietStep DEF AbandonCall, Goto, AccountsTypeOK
<1>6. ASSUME NEW c \in Calls, NEW m \in Makers, Logout(c, m) PROVE AccountsInv'
  <2>1. user[m] \in Emails
    BY <1>6 DEF Logout, AccountsInv, RowsInv
  <2> QED BY <1>6, <2>1, BeginStep DEF Logout
<1>7. ASSUME NEW m \in Makers, ExpireSession(m) \/ Lapses(m) PROVE AccountsInv'
  <2>1. /\ UNCHANGED <<password, slug, links, user, link, before, step, used>>
        /\ sessions' \subseteq sessions /\ dead' \subseteq links /\ wants' = wants
    BY <1>0, <1>7 DEF ExpireSession, Lapses, callVars, AccountsTypeOK
  <2> QED BY <1>0, <2>1, UnmovedStep
<1>8. CASE UNCHANGED accountsVars
  <2>1. /\ UNCHANGED <<password, slug, links, user, link, before, step, used>>
        /\ sessions' \subseteq sessions /\ dead' \subseteq links /\ wants' = wants
    BY <1>0, <1>8 DEF accountsVars, callVars, AccountsTypeOK
  <2> QED BY <1>0, <2>1, UnmovedStep
<1> QED BY <1>1, <1>2, <1>3, <1>4, <1>5, <1>6, <1>7, <1>8, CreateSessionStep, SetPasswordStep,
           RevokeStep, CheckLinkStep
        DEF AccountsNext

\* The inductive invariant of accounts, sessions, links and requests.
THEOREM AccountsInvariance == AccountsSpec => []AccountsInv
BY AccountsInitInv, AccountsStepInv, PTL DEF AccountsSpec

\* Types are kept.
THEOREM AccountsTypesKept == AccountsSpec => []AccountsTypeOK
<1>1. AccountsInv => AccountsTypeOK
  BY DEF AccountsInv
<1> QED BY <1>1, AccountsInvariance, PTL

\* Overlapping sign-ups own different addresses, accounts different workspaces.
THEOREM SignupsAreApart == AccountsSpec => []SignupsKeptApart
<1>1. AccountsInv => SignupsKeptApart
  BY DEF AccountsInv
<1> QED BY <1>1, AccountsInvariance, PTL

\* An answered reset has ended the sessions there were, however many calls overlap.
THEOREM ResetsEndSessions == AccountsSpec => []ResetEndsSessions
<1>1. AccountsInv => ResetEndsSessions
  BY DEF AccountsInv
<1> QED BY <1>1, AccountsInvariance, PTL

-----------------------------------------------------------------------------
(* Refinement: finding a link good admits, marking it used grants. *)

Links    == [l \in Makers |-> 1]
Admitted == [l \in Makers |-> Presenting(l, {"password", "mark"})]
Granted  == [l \in Makers |-> Presenting(l, {"revoke", "reset", "cut"})]

LEMMA AccountsRefineInit == AccountsInit => LinkRules!Init
BY DEF AccountsInit, LinkRules!Init, Presenting

\* A call that neither was nor is in a set, and whose link stays, moves nothing.
LEMMA SameSets ==
  ASSUME NEW c \in Calls, NEW steps,
         \A d \in Calls \ {c} : step'[d] = step[d] /\ link'[d] = link[d],
         \/ step[c] \notin steps /\ step'[c] \notin steps
         \/ step[c] \in steps /\ step'[c] \in steps /\ link'[c] = link[c]
  PROVE  \A l \in Makers : Presenting(l, steps)' = Presenting(l, steps)
BY DEF Presenting

LEMMA AccountsRefineStep ==
  ASSUME AccountsInv, [AccountsNext]_accountsVars
  PROVE  [LinkRules!Next]_(LinkRules!tokenVars)
<1> USE DEF AccountsInv
<1>0. AccountsTypeOK
  OBVIOUS
<1>1. ASSUME NEW c \in Calls, NEW l \in Makers, CheckLink(c, l), LinkGood(l)
      PROVE LinkRules!Admit(c, l)
  <2>1. /\ step[c] = "idle" /\ step'[c] = "password" /\ link'[c] = l
        /\ \A d \in Calls \ {c} : step'[d] = step[d] /\ link'[d] = link[d]
    BY <1>0, <1>1 DEF CheckLink, Begin, Goto, AccountsTypeOK
  <2>2. Granted' = Granted
    BY <2>1, SameSets DEF Granted
  <2>3. Granted[l] = {}
    BY <1>1 DEF Granted, Presenting, LinkGood, CallsInv, CallInv
  <2>4. Admitted' = [Admitted EXCEPT ![l] = @ \cup {c}]
    <3>1. Presenting(l, {"password", "mark"})' = Presenting(l, {"password", "mark"}) \cup {c}
      BY <2>1 DEF Presenting
    <3>2. \A m \in Makers \ {l} :
            Presenting(m, {"password", "mark"})' = Presenting(m, {"password", "mark"})
      BY <2>1 DEF Presenting
    <3> QED BY <3>1, <3>2 DEF Admitted
  <2>5. LinkRules!Cardinality(Granted[l]) < Links[l]
    <3>1. LinkRules!Cardinality({}) = Cardinality({})
      BY DEF LinkRules!Cardinality, Cardinality
    <3> QED BY <2>3, <3>1, FS_EmptySet DEF Links
  <2> QED BY <2>2, <2>3, <2>4, <2>5 DEF LinkRules!Admit, Admitted, Granted, Links
<1>2. ASSUME NEW c \in Calls, MarkUsed(c) PROVE LinkRules!Grant(c, link[c]) /\ link[c] \in Makers
  <2>1. /\ step[c] = "mark" /\ step'[c] = "revoke" /\ link' = link
        /\ \A d \in Calls \ {c} : step'[d] = step[d]
    BY <1>0, <1>2 DEF MarkUsed, Goto, AccountsTypeOK
  <2>2. link[c] \in Makers
    BY <1>0, <2>1 DEF CallsInv, CallInv, AccountsTypeOK
  <2>3. /\ c \in Admitted[link[c]]
        /\ Admitted' = [Admitted EXCEPT ![link[c]] = @ \ {c}]
        /\ Granted' = [Granted EXCEPT ![link[c]] = @ \cup {c}]
    BY <2>1, <2>2, ZenonT(30) DEF Admitted, Granted, Presenting
  <2> QED BY <2>2, <2>3 DEF LinkRules!Grant, Admitted, Granted
<1>3. ASSUME NEW c \in Calls, AbandonCall(c), step[c] \in {"password", "mark"}
      PROVE LinkRules!Abandon(c, link[c]) /\ link[c] \in Makers
  <2>1. /\ step'[c] \in {"failed", "unmarked"} /\ link' = link
        /\ \A d \in Calls \ {c} : step'[d] = step[d]
    BY <1>0, <1>3 DEF AbandonCall, Goto, AccountsTypeOK, callVars
  <2>2. link[c] \in Makers
    BY <1>0, <1>3 DEF CallsInv, CallInv, AccountsTypeOK
  <2>3. /\ c \in Admitted[link[c]]
        /\ Admitted' = [Admitted EXCEPT ![link[c]] = @ \ {c}]
        /\ Granted' = Granted
    BY <1>3, <2>1, <2>2 DEF Admitted, Granted, Presenting
  <2> QED BY <2>2, <2>3 DEF LinkRules!Abandon, Admitted, Granted
\* Every other step of a call leaves it in the set it is in, or out of both.
<1>4. ASSUME NEW c \in Calls,
             \A d \in Calls \ {c} : step'[d] = step[d] /\ link'[d] = link[d],
             \/ /\ step[c] \notin {"password", "mark", "revoke", "reset", "cut"}
                /\ step'[c] \notin {"password", "mark", "revoke", "reset", "cut"}
             \/ step[c] = "password" /\ step'[c] = "mark" /\ link'[c] = link[c]
             \/ step[c] = "revoke" /\ step'[c] \in {"reset", "cut"} /\ link'[c] = link[c]
      PROVE UNCHANGED LinkRules!tokenVars
  <2>1. Admitted' = Admitted
    BY <1>4, SameSets DEF Admitted
  <2>2. Granted' = Granted
    BY <1>4, SameSets DEF Granted
  <2> QED BY <2>1, <2>2 DEF LinkRules!tokenVars, Admitted, Granted
<1>5. ASSUME step' = step, link' = link PROVE UNCHANGED LinkRules!tokenVars
  BY <1>5 DEF LinkRules!tokenVars, Presenting
<1> USE DEF AccountsTypeOK, Begin, Goto, callVars
<1>6. ASSUME NEW c \in Calls, NEW e \in Emails, BeginSignup(c, e) \/ Login(c, e) \/ Forgot(c, e)
      PROVE UNCHANGED LinkRules!tokenVars
  BY <1>4, <1>6 DEF BeginSignup, Login, Forgot
<1>7. ASSUME NEW c \in Calls, UniqueSlug(c) \/ InsertAccount(c) \/ CreateSession(c)
      PROVE UNCHANGED LinkRules!tokenVars
  BY <1>4, <1>7 DEF UniqueSlug, InsertAccount, CreateSession
<1>8. ASSUME NEW c \in Calls, SetPassword(c) \/ RevokeSessions(c)
      PROVE UNCHANGED LinkRules!tokenVars
  BY <1>4, <1>8 DEF SetPassword, RevokeSessions
<1>9. ASSUME NEW c \in Calls, AbandonCall(c), step[c] \notin {"password", "mark"}
      PROVE UNCHANGED LinkRules!tokenVars
  BY <1>4, <1>9 DEF AbandonCall
<1>10. ASSUME NEW c \in Calls, NEW m \in Makers,
              Logout(c, m) \/ (CheckLink(c, m) /\ ~LinkGood(m))
       PROVE UNCHANGED LinkRules!tokenVars
  BY <1>4, <1>10 DEF Logout, CheckLink
<1>11. ASSUME NEW m \in Makers, ExpireSession(m) \/ Lapses(m)
       PROVE UNCHANGED LinkRules!tokenVars
  <2>1. step' = step /\ link' = link
    BY <1>11 DEF ExpireSession, Lapses
  <2> QED BY <1>5, <2>1
<1>12. CASE UNCHANGED accountsVars
  BY <1>5, <1>12 DEF accountsVars
<1> QED BY <1>1, <1>2, <1>3, <1>6, <1>7, <1>8, <1>9, <1>10, <1>11, <1>12
        DEF AccountsNext, LinkRules!Next

\* Reset links implement TokenUse, for any number of links and requests.
THEOREM ResetLinkImplementation == AccountsSpec => MarkedLinksAreRefused
BY AccountsRefineInit, AccountsRefineStep, AccountsInvariance, PTL
DEF AccountsSpec, MarkedLinksAreRefused, LinkRules!Spec

-----------------------------------------------------------------------------
(* What TokenUse promises in numbers (TokenUseProofs), said of the calls. *)

Uses ==
  INSTANCE TokenUseProofs WITH
    Tokens <- Makers,
    Requests <- Calls,
    Limit <- [l \in Makers |-> 1],
    admitted <- [l \in Makers |-> Presenting(l, {"password", "mark"})],
    granted <- [l \in Makers |-> Presenting(l, {"revoke", "reset", "cut"})]

\* LinkRules and Uses instantiate the same module and say the same.
LEMMA SameLinkRules == LinkRules!Spec => Uses!Spec
<1>1. LinkRules!Init => Uses!Init
  BY DEF LinkRules!Init, Uses!Init
<1>2. ASSUME NEW c \in Calls, NEW l \in Makers, LinkRules!Admit(c, l) PROVE Uses!Admit(c, l)
  <2>1. LinkRules!Cardinality(Granted[l]) = Uses!Cardinality(Granted[l])
    BY DEF LinkRules!Cardinality, Uses!Cardinality
  <2> QED BY <1>2, <2>1 DEF LinkRules!Admit, Uses!Admit, Granted
<1>3. ASSUME NEW c \in Calls, NEW l \in Makers,
             LinkRules!Grant(c, l) \/ LinkRules!Abandon(c, l)
      PROVE  Uses!Grant(c, l) \/ Uses!Abandon(c, l)
  BY <1>3 DEF LinkRules!Grant, Uses!Grant, LinkRules!Abandon, Uses!Abandon
<1>4. [LinkRules!Next]_(LinkRules!tokenVars) => [Uses!Next]_(Uses!tokenVars)
  BY <1>2, <1>3 DEF LinkRules!Next, Uses!Next, LinkRules!tokenVars, Uses!tokenVars
<1> QED BY <1>1, <1>4, PTL DEF LinkRules!Spec, Uses!Spec

\* Never more than k resets with one link are between reading it and marking it used.
ResetsOverlap(k) == \A l \in Makers : Cardinality(Presenting(l, {"password", "mark"})) <= k

MarkedWithin(k) == \A l \in Makers : Cardinality(Presenting(l, {"revoke", "reset", "cut"})) <= k

\* At most k resets with one link mark it while no more than k of them overlap: presented
\* one at a time it is marked once.  Those whose marking fails are not counted: they have
\* changed the password all the same, and left the link good for the next (LinksWorkOnce).
THEOREM LinkUsesBounded ==
  ASSUME NEW k \in Nat \ {0}
  PROVE  AccountsSpec /\ []ResetsOverlap(k) => []MarkedWithin(k)
<1>1. Links \in [Makers -> Nat]
  BY DEF Links
<1>2. Uses!Spec /\ []Uses!OverlapWithin(k) => []Uses!GrantedWithin(k)
  BY <1>1, Uses!GrantsBounded DEF Links
<1>3. ResetsOverlap(k) => Uses!OverlapWithin(k)
  <2> SUFFICES ASSUME ResetsOverlap(k), NEW l \in Makers
               PROVE  Uses!Cardinality(Admitted[l]) <= k
    BY DEF Uses!OverlapWithin, Admitted
  <2>1. Uses!Cardinality(Admitted[l]) = Cardinality(Admitted[l])
    BY DEF Uses!Cardinality, Cardinality
  <2> QED BY <2>1 DEF ResetsOverlap, Admitted
<1>4. Uses!GrantedWithin(k) => MarkedWithin(k)
  <2> SUFFICES ASSUME Uses!GrantedWithin(k), NEW l \in Makers
               PROVE  Cardinality(Granted[l]) <= k
    BY DEF MarkedWithin, Granted
  <2>1. Uses!Cardinality(Granted[l]) = Cardinality(Granted[l])
    BY DEF Uses!Cardinality, Cardinality
  <2>2. Uses!Cardinality(Granted[l]) <= Links[l] + k - 1
    BY DEF Uses!GrantedWithin, Granted, Links
  <2>3. Links[l] + k - 1 = k
    BY DEF Links
  <2> QED BY <2>1, <2>2, <2>3
<1> QED BY <1>2, <1>3, <1>4, SameLinkRules, ResetLinkImplementation, PTL
        DEF MarkedLinksAreRefused
=============================================================================
