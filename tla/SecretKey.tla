------------------------------ MODULE SecretKey ------------------------------
(***************************************************************************)
(* The key that encrypts provider credentials, internal/auth/secret.go, over *)
(* restarts of the process: loadOrCreateKey reads it from the environment or *)
(* from secret.key, or draws one and tries to save it.  What a credential    *)
(* needs of it is that the same key is there when it is read back.           *)
(***************************************************************************)
EXTENDS Naturals, FiniteSets

CONSTANTS
  Keys,        \* the keys rand.Read may draw; one is never drawn twice
  Providers,   \* the rows of provider_credentials
  EnvKey,      \* what MATRIXCLOUD_SECRET_KEY stands for when it is set
  NoKey

ASSUME SecretAssumption == EnvKey \notin Keys /\ NoKey \notin Keys \cup {EnvKey}

VARIABLES
  env,      \* the key in the environment, which the operator does not change
  file,     \* secret.key: absent, torn by a crash, or a key
  key,      \* the key of the running process; NoKey when none runs
  drawn,    \* the keys drawn so far
  saved,    \* the keys that were at some time whole on disk
  sealed,   \* the key each credential is encrypted with
  misread   \* a read of a good secret.key has failed

secretVars == <<env, file, key, drawn, saved, sealed, misread>>

SecretTypeOK ==
  /\ env \in {EnvKey, NoKey}
  /\ file \in Keys \cup {"absent", "torn"}
  /\ key \in Keys \cup {EnvKey, NoKey}
  /\ drawn \subseteq Keys
  /\ saved \subseteq drawn
  /\ sealed \in [Providers -> Keys \cup {EnvKey, NoKey}]
  /\ misread \in BOOLEAN

SecretInit ==
  /\ env \in {EnvKey, NoKey}
  /\ file = "absent"
  /\ key = NoKey
  /\ drawn = {}
  /\ saved = {}
  /\ sealed = [p \in Providers |-> NoKey]
  /\ misread = FALSE

-----------------------------------------------------------------------------
(* loadOrCreateKey *)

UseEnvironment ==
  /\ key = NoKey
  /\ env # NoKey
  /\ key' = env
  /\ UNCHANGED <<env, file, drawn, saved, sealed, misread>>

\* A file that does not hold 32 bytes in hex is passed over.
UseFile ==
  /\ key = NoKey /\ env = NoKey
  /\ file \in Keys
  /\ key' = file
  /\ UNCHANGED <<env, file, drawn, saved, sealed, misread>>

\* There is no good file, or it cannot be read, which counts as no file.
NeverReads == UNCHANGED misread                \* fault: draws a key at every start
FindsNoKey == \/ file \notin Keys /\ UNCHANGED misread
              \/ file \in Keys /\ misread' = TRUE

\* The file may be written, or not (its error is ignored), or the process may stop in
\* the middle of os.WriteFile, which truncates first.
CreateKey(k) ==
  /\ key = NoKey /\ env = NoKey
  /\ FindsNoKey
  /\ k \notin drawn
  /\ drawn' = drawn \cup {k}
  /\ \/ file' = k /\ saved' = saved \cup {k} /\ key' = k
     \/ file' = file /\ saved' = saved /\ key' = k
     \/ file' = "torn" /\ saved' = saved /\ key' = NoKey
  /\ UNCHANGED <<env, sealed>>

-----------------------------------------------------------------------------
\* The upsert keeps one row per provider, with the ciphertext of the latest secret.
SetProviderCredential(p) ==
  /\ key # NoKey
  /\ sealed' = [sealed EXCEPT ![p] = key]
  /\ UNCHANGED <<env, file, key, drawn, saved, misread>>

Stop ==
  /\ key # NoKey
  /\ key' = NoKey
  /\ UNCHANGED <<env, file, drawn, saved, sealed, misread>>

SecretNext ==
  \/ UseEnvironment
  \/ UseFile
  \/ \E k \in Keys : CreateKey(k)
  \/ \E p \in Providers : SetProviderCredential(p)
  \/ Stop

SecretSpec == SecretInit /\ [][SecretNext]_secretVars

-----------------------------------------------------------------------------
(* Properties *)

\* ProviderSecret decrypts with the key of the process it runs in.
Readable(p) == sealed[p] = key

\* A credential encrypted under the environment's key, or under a key that reached
\* secret.key whole, can be read by every later process, through any number of crashes
\* and failed writes ("generated once and persisted", secret.go:18) - until a read of
\* the good file fails: a new key is then drawn and written over it.
CredentialsStayReadable ==
  key # NoKey /\ ~misread =>
    \A p \in Providers : sealed[p] \in saved \cup {EnvKey} => Readable(p)
=============================================================================
