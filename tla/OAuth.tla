------------------------------- MODULE OAuth --------------------------------
(***************************************************************************)
(* The tokens of mayutils.environment.oauth: processes that load one from  *)
(* the keyring, use, refresh or replace it (google_oauth) and save it, with*)
(* an encryption key that each has or has not.  The keyring and the login  *)
(* are external.                                                           *)
(***************************************************************************)
EXTENDS Integers, Python

CONSTANTS
  Process,
  Key,       \* the encryption keys of OAUTH_ENCRYPTION_KEY
  MaxTokens  \* bound: the tokens that are issued

\* A token; and what is stored of one: the key that it is encrypted with, or None
Token == [serial : Nat, refreshable : BOOLEAN]
Stored == [token : Token, key : Key \cup {None}]

ASSUME OAuthAssumption == None \notin Key \cup Token \cup Stored /\ MaxTokens \in Nat

VARIABLES
  keyring,   \* what is stored for the service and user: a token and its key, or None
  expired,   \* the tokens that are no longer valid
  issued,    \* how many tokens there are
  step,      \* where each process is in a call
  held       \* its local variables

oauthVars == <<keyring, expired, issued, step, held>>

Nothing == [key |-> None, seen |-> None, token |-> None]

-----------------------------------------------------------------------------
\* generate_fernet_key
GenerateFernetKey(key) == key \in Key

\* get_encryption_key: the key, or None when the variable is not set
GetEncryptionKey(key) == key = None \/ GenerateFernetKey(key)

\* encrypt_token, in plain text without a key
EncryptToken(token, key) == [token |-> token, key |-> key]

\* decrypt_token: without a key what is stored is taken for plain text; None stands
\* for InvalidToken, of what was not encrypted with the key
DecryptToken(stored, key) ==
  IF key = None THEN stored ELSE IF stored.key = key THEN EncryptToken(stored.token, None) ELSE None

\* default_parse_token, json.loads: what is still encrypted is a ValueError
ParseToken(text) == IF text.key = None THEN text.token ELSE None

OAuthInit ==
  /\ keyring = None
  /\ expired = {}
  /\ issued = 0
  /\ step = [p \in Process |-> "idle"]
  /\ held = [p \in Process |-> Nothing]

To(p, s, h) == step' = [step EXCEPT ![p] = s] /\ held' = [held EXCEPT ![p] = h]

-----------------------------------------------------------------------------
\* oauth_wrapper: load_token and parse_token, a ValueError being no token
LoadToken(p, key) ==
  LET text == DecryptToken(keyring, key)
      h == [key |-> key, seen |-> keyring, token |-> None]
  IN
  /\ step[p] = "idle"
  /\ GetEncryptionKey(key)
  /\ IF keyring = None THEN To(p, "authorise", h)
     ELSE IF text = None THEN To(p, "delete", h)
     ELSE To(p, "authorise", [h EXCEPT !.token = ParseToken(text)])
  /\ UNCHANGED <<keyring, expired, issued>>

\* load_token deletes what it cannot decrypt; one that is gone by now raises
DeletePassword(p) ==
  /\ step[p] = "delete"
  /\ IF keyring = None THEN To(p, "idle", Nothing) ELSE To(p, "authorise", held[p])
  /\ keyring' = None
  /\ UNCHANGED <<expired, issued>>

\* google_oauth: a token is read only with its refresh token (from_authorized_user_info
\* raises for another, valid or not); a valid one is returned, an expired one
\* refreshed, and without a token the user logs in
Valid(p) == held[p].token # None /\ held[p].token.serial \notin expired
Unreadable(p) == held[p].token # None /\ ~held[p].token.refreshable
Refreshes(p) == held[p].token # None /\ ~Valid(p)

Issue(p, s, refreshable) ==
  /\ issued < MaxTokens
  /\ issued' = issued + 1
  /\ To(p, s, [held[p] EXCEPT !.token = [serial |-> issued + 1, refreshable |-> refreshable]])

\* Mutant of GoogleOAuth: only a token that is still valid spares the user the login.
GoogleOAuthUnrefreshed(p) ==
  /\ step[p] = "authorise"
  /\ \/ Unreadable(p) /\ To(p, "idle", Nothing) /\ UNCHANGED issued
     \/ ~Unreadable(p) /\ Valid(p) /\ To(p, "save", held[p]) /\ UNCHANGED issued
     \/ ~Unreadable(p) /\ ~Valid(p) /\ To(p, "login", held[p]) /\ UNCHANGED issued
  /\ UNCHANGED <<keyring, expired>>

GoogleOAuth(p) ==
  /\ step[p] = "authorise"
  /\ \/ Unreadable(p) /\ To(p, "idle", Nothing) /\ UNCHANGED issued
     \/ ~Unreadable(p) /\ Valid(p) /\ To(p, "save", held[p]) /\ UNCHANGED issued
     \/ ~Unreadable(p) /\ Refreshes(p) /\ Issue(p, "save", TRUE)
     \/ held[p].token = None /\ To(p, "login", held[p]) /\ UNCHANGED issued
  /\ UNCHANGED <<keyring, expired>>

\* google_oauth: the user logs in
Login(p) ==
  /\ step[p] = "login"
  /\ \E refreshable \in BOOLEAN : Issue(p, "save", refreshable)
  /\ UNCHANGED <<keyring, expired>>

\* save_token, with default_store_token or to_json
SaveToken(p) ==
  /\ step[p] = "save"
  /\ keyring' = EncryptToken(held[p].token, held[p].key)
  /\ To(p, "idle", Nothing)
  /\ UNCHANGED <<expired, issued>>

\* reset_service_oauth, which raises for a token that is not there
ResetServiceOAuth(p) ==
  /\ step[p] = "idle"
  /\ keyring # None
  /\ keyring' = None
  /\ UNCHANGED <<expired, issued, step, held>>

\* The refresh or the login fails, or the process ends.
Gone(p) ==
  /\ step[p] # "idle"
  /\ To(p, "idle", Nothing)
  /\ UNCHANGED <<keyring, expired, issued>>

Expire ==
  /\ \E serial \in 1 .. issued : expired' = expired \cup {serial}
  /\ UNCHANGED <<keyring, issued, step, held>>

OAuthNext ==
  \/ \E p \in Process :
       \/ \E key \in Key \cup {None} : LoadToken(p, key)
       \/ DeletePassword(p) \/ GoogleOAuth(p) \/ Login(p) \/ SaveToken(p)
       \/ ResetServiceOAuth(p) \/ Gone(p)
  \/ Expire

OAuthSpec == OAuthInit /\ [][OAuthNext]_oauthVars

-----------------------------------------------------------------------------
(* "Resetting token as failed to decrypt or parse" (oauth, load_token): a  *)
(* call deletes what is stored only if what it read was not stored under   *)
(* its own key, and it asks the user to log in only if it read nothing or  *)
(* what was not stored under its key, whoever else loads, saves, resets or *)
(* crashes meanwhile: a token that was read with its key is refreshed as   *)
(* long as it can be.  What is deleted may be another that was saved since *)
(* the read.  That what cannot be parsed is deleted, as the docstring      *)
(* says, is not claimed: load_token parses nothing, and without a key what *)
(* another key encrypted stays until the login replaces it.  And a token   *)
(* that came without a refresh token is neither used nor removed: every    *)
(* call raises until reset_service_oauth.                                  *)
TokensLast ==
  \A p \in Process :
    /\ step[p] = "delete" => held[p].seen.key # held[p].key
    /\ step[p] = "login" /\ held[p].seen # None => held[p].seen.key # held[p].key
=============================================================================
