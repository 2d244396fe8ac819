------------------------------- MODULE Secrets -------------------------------
(* The SMTP password: the one secret that is stored encrypted, under a key   *)
(* of the environment whose id travels with the ciphertext.                  *)
(*                                                                           *)
(* PUT /settings/smtp may leave the password out, and then keeps the one     *)
(* that is stored; it locks the row of system_settings, when there is one.   *)
(* Nothing ever encrypts a stored password again under another key.          *)
EXTENDS Naturals, FiniteSets

CONSTANTS
  Writers,     \* PUT /settings/smtp that may be open at the same time
  MaxKeys      \* bound: keys ever configured, with ids 1..MaxKeys

ASSUME SecretsAssumption == MaxKeys \in Nat \ {0}

VARIABLES
  smtp,        \* the row of system_settings: is it there, and the key id of
               \* its ciphertext, in a set
  env,         \* ENCRYPTION_KEY_CURRENT and, in a set, ENCRYPTION_KEY_PREVIOUS
  put,         \* local state of the open requests
  collided     \* history: two requests were open before there was a row

secretVars == <<smtp, env, put, collided>>

KeyIds == 1..MaxKeys
Setting == [there: BOOLEAN, key: {{}} \cup {{k} : k \in KeyIds}]
NoSetting == [there |-> FALSE, key |-> {}]
Unbegun == [open |-> FALSE, password |-> "omitted", stored |-> NoSetting]

SecretsTypeOK ==
  /\ smtp \in Setting
  /\ env \in [current: KeyIds, previous: {{}} \cup {{k} : k \in KeyIds}]
  /\ put \in [Writers -> [open: BOOLEAN, password: {"omitted", "null", "given"},
                          stored: Setting]]
  /\ collided \in BOOLEAN

SecretsInit ==
  /\ smtp = NoSetting
  /\ env = [current |-> 1, previous |-> {}]
  /\ put = [w \in Writers |-> Unbegun]
  /\ collided = FALSE

Putting == {w \in Writers : put[w].open}

\* Mutation: the row is read without FOR UPDATE.
NoLock == TRUE

\* SELECT ... FOR UPDATE waits for another request only if there is a row.
RowFree == ~smtp.there \/ Putting = {}

PutRead(w, password) ==
  /\ ~put[w].open /\ RowFree
  /\ put' = [put EXCEPT ![w] = [open |-> TRUE, password |-> password, stored |-> smtp]]
  /\ collided' = (collided \/ (Putting # {} /\ ~smtp.there))
  /\ UNCHANGED <<smtp, env>>

NewPassword(w) ==
  CASE put[w].password = "omitted" -> put[w].stored.key
    [] put[w].password = "null"    -> {}
    [] put[w].password = "given"   -> {env.current}

\* INSERT ... ON CONFLICT DO UPDATE, and commit.
PutCommit(w) ==
  /\ put[w].open
  /\ smtp' = [there |-> TRUE, key |-> NewPassword(w)]
  /\ put' = [put EXCEPT ![w] = Unbegun]
  /\ UNCHANGED <<env, collided>>

PutFails(w) ==
  /\ put[w].open
  /\ put' = [put EXCEPT ![w] = Unbegun]
  /\ UNCHANGED <<smtp, env, collided>>

\* The server starts again with a new key and the one before as the previous
\* one, as createSecretStore takes them.
Rotate ==
  /\ Putting = {} /\ env.current < MaxKeys
  /\ env' = [current |-> env.current + 1, previous |-> {env.current}]
  /\ UNCHANGED <<smtp, put, collided>>

\* .env.example: empty when not rotating.
EndRotation ==
  /\ Putting = {} /\ env.previous # {}
  /\ env' = [env EXCEPT !.previous = {}]
  /\ UNCHANGED <<smtp, put, collided>>

\* decrypt() finds a key of the id that travels with the ciphertext.
Readable == smtp.key \subseteq {env.current} \cup env.previous

-----------------------------------------------------------------------------

\* Leaving the password out keeps the stored one, unless two first requests
\* were made at once.
OmittedKeepsAlone ==
  [][\A w \in Writers :
       /\ put[w].open /\ put[w].password = "omitted" /\ ~collided
       /\ smtp' # smtp /\ ~put'[w].open /\ smtp'.there
       => smtp'.key = smtp.key]_secretVars

=============================================================================
