------------------------------- MODULE SignIn -------------------------------
(***************************************************************************)
(* Sign-in with an OpenID provider: the requests of browsers and API       *)
(* clients on server threads, the tokens a thread hands to the response    *)
(* through THREAD_LOCAL_DATA, the refresh tokens and PKCE verifiers in the *)
(* database and the cached signing keys (authentication_service.py,        *)
(* authentication_controller.py).  The provider is external: it rotates    *)
(* keys and, if Rotates, honours a refresh token once.                     *)
(***************************************************************************)
EXTENDS Integers, FiniteSets

CONSTANTS
    Persons,      \* who signs in, each from one browser
    Threads,      \* server threads
    NoToken,
    Rotates,      \* BOOLEAN: does the provider replace refresh tokens?
    MaxRefresh,   \* bound: refresh tokens issued
    MaxKeys,      \* bound: signing keys
    MaxServed     \* bound: requests

VARIABLES
    cookie,    \* the access_token cookie of each browser
    known,     \* users in the database
    verifier,  \* pkce_code_verifier rows, by browser (one login at a time)
    refresh,   \* refresh_token rows: the token of each user, 0 without
    thread,    \* what each thread is doing
    tld,       \* THREAD_LOCAL_DATA: [access, out]
    cache,     \* JSON_WEB_KEYSET_CACHE
    keys,      \* external: the keys the provider publishes
    honoured,  \* external: the refresh tokens the provider honours
    issued,    \* external: refresh tokens issued so far
    ended,     \* external: whose session ended at the provider
    served     \* requests so far

Tokens == [user : Persons, key : 0..MaxKeys, age : {"fresh", "expired"}, valid : BOOLEAN]
ThreadState == [pc : {"idle", "renew", "exchange", "store", "respond"},
                browser : Persons \cup {NoToken}, token : Tokens \cup {NoToken},
                read : 0..MaxRefresh, got : 0..MaxRefresh,
                result : {"none", "ok", "refused", "undecodable"}]
LocalData == [access : Tokens \cup {NoToken}, out : BOOLEAN]

ASSUME SignInConstants ==
    /\ Rotates \in BOOLEAN /\ MaxRefresh \in Nat /\ MaxKeys \in Nat \ {0} /\ MaxServed \in Nat
    /\ NoToken \notin Tokens /\ NoToken \notin Persons

siVars == <<cookie, known, verifier, refresh, thread, tld, cache, keys, honoured, issued, ended, served>>
provider == <<keys, honoured, issued, ended>>

Token(p, k, a, v) == [user |-> p, key |-> k, age |-> a, valid |-> v]
Internal == 0      \* SPIFF_GENERATED_JWT_KEY_ID
CleanData == [access |-> NoToken, out |-> FALSE]
Rest == [pc |-> "idle", browser |-> NoToken, token |-> NoToken, read |-> 0, got |-> 0,
         result |-> "none"]
Newest == CHOOSE k \in keys : \A j \in keys : j <= k

SignInInit ==
    /\ cookie = [p \in Persons |-> NoToken] /\ known = {} /\ verifier = {}
    /\ refresh = [p \in Persons |-> 0]
    /\ thread = [th \in Threads |-> Rest] /\ tld = [th \in Threads |-> CleanData]
    /\ cache = {} /\ keys = {1} /\ honoured = {} /\ issued = 0 /\ ended = {} /\ served = 0

-----------------------------------------------------------------------------
(* External: time and the provider *)

Expire(p) ==
    /\ cookie[p] # NoToken /\ cookie[p].key # Internal /\ cookie[p].age = "fresh"
    /\ cookie' = [cookie EXCEPT ![p].age = "expired"]
    /\ UNCHANGED <<served, known, verifier, refresh, thread, tld, cache>> /\ UNCHANGED provider

RotateKey ==
    /\ Newest < MaxKeys
    /\ keys' \in {keys \cup {Newest + 1}, {Newest + 1}}
    /\ UNCHANGED <<served, cookie, known, verifier, refresh, thread, tld, cache, honoured, issued, ended>>

EndSession(p) ==
    /\ p \notin ended /\ ended' = ended \cup {p}
    /\ honoured' = {h \in honoured : h[1] # p}
    /\ UNCHANGED <<served, cookie, known, verifier, refresh, thread, tld, cache, keys, issued>>

(* A new refresh token, in place of the one used, if any. *)
Issue(p, used) ==
    /\ issued < MaxRefresh
    /\ issued' = issued + 1
    /\ honoured' = (IF used # 0 /\ Rotates THEN honoured \ {<<p, used>>} ELSE honoured) \cup {<<p, issued + 1>>}
    /\ UNCHANGED <<keys, ended>>

-----------------------------------------------------------------------------
(* Decoding and validating a token *)

(* Faulty variant: the keys are fetched once. *)
KeysFetchedOnce(k) == IF cache = {} THEN keys ELSE cache

(* The cached keys, fetched again when the key is not among them. *)
jwks_public_key_for_key_id(k) == IF k \in cache THEN cache ELSE keys

(* Does the token decode, with these keys?  Our own are checked by secret. *)
parse_jwt_token(token, ks) == token.key = Internal \/ token.key \in ks

(* Issuer, use, audience, client and time of issue in one. *)
validate_decoded_token(token) ==
    IF ~token.valid THEN "invalid" ELSE IF token.age = "expired" THEN "expired" ELSE "valid"

-----------------------------------------------------------------------------
(* Requests *)

Serve(th, b, pc, token, read, result) ==
    /\ served < MaxServed /\ served' = served + 1
    /\ thread' = [thread EXCEPT ![th] = [pc |-> pc, browser |-> b, token |-> token, read |-> read, got |-> 0,
                                         result |-> result]]

clear_auth_tokens_from_thread_local_data(th) == tld' = [tld EXCEPT ![th] = CleanData]
set_user_has_logged_out(th) == tld' = [tld EXCEPT ![th] = [access |-> NoToken, out |-> TRUE]]

(* What a client may send: its cookie, or a token got elsewhere. *)
Presented(b) ==
    {cookie[b], Token(b, Newest, "fresh", TRUE), Token(b, Newest, "fresh", FALSE)} \ {NoToken}

(* verify_token: data left in the thread is cleared first. *)
verify_token(th, b, token) ==
    LET ks      == jwks_public_key_for_key_id(token.key)
        verdict == validate_decoded_token(token)
        read    == refresh[b]
    IN  /\ thread[th].pc = "idle"
        /\ cache' = IF token.key = Internal THEN cache ELSE ks
        /\ CASE ~parse_jwt_token(token, ks) ->
                  Serve(th, b, "respond", token, 0, "undecodable") /\ set_user_has_logged_out(th)
             [] token.key = Internal ->
                  Serve(th, b, "respond", token, 0, "ok") /\ clear_auth_tokens_from_thread_local_data(th)
             [] parse_jwt_token(token, ks) /\ token.key # Internal /\ verdict = "expired" /\ b \in known /\ read # 0 ->
                  Serve(th, b, "renew", token, read, "none") /\ clear_auth_tokens_from_thread_local_data(th)
             [] parse_jwt_token(token, ks) /\ token.key # Internal /\ verdict = "valid" /\ b \in known ->
                  Serve(th, b, "respond", token, 0, "ok") /\ clear_auth_tokens_from_thread_local_data(th)
             [] OTHER ->
                  Serve(th, b, "respond", token, 0, "refused") /\ set_user_has_logged_out(th)
        /\ UNCHANGED <<cookie, known, verifier, refresh>> /\ UNCHANGED provider

(* A public page asked for without a token: a new user, by our own token. *)
check_if_request_is_public(th, b) ==
    /\ thread[th].pc = "idle"
    /\ Serve(th, b, "respond", NoToken, 0, "ok")
    /\ tld' = [tld EXCEPT ![th] = [access |-> Token(b, Internal, "fresh", TRUE), out |-> FALSE]]
    /\ UNCHANGED <<cookie, known, verifier, refresh, cache>> /\ UNCHANGED provider

(* An endpoint without authentication: the thread's data is left alone. *)
should_disable_auth_for_request(th, b) ==
    /\ thread[th].pc = "idle"
    /\ Serve(th, b, "respond", NoToken, 0, "ok")
    /\ UNCHANGED <<cookie, known, verifier, refresh, tld, cache>> /\ UNCHANGED provider

login(th, b) ==
    /\ thread[th].pc = "idle"
    /\ verifier' = verifier \cup {b}
    /\ Serve(th, b, "respond", NoToken, 0, "ok")
    /\ UNCHANGED <<cookie, known, refresh, tld, cache>> /\ UNCHANGED provider

(* Back from the provider: the verifier is consumed before the code is     *)
(* exchanged.                                                              *)
login_return(th, b) ==
    /\ thread[th].pc = "idle"
    /\ Serve(th, b, IF b \in verifier THEN "exchange" ELSE "respond", NoToken, 0,
             IF b \in verifier THEN "none" ELSE "refused")
    /\ verifier' = verifier \ {b}
    /\ UNCHANGED <<cookie, known, refresh, tld, cache>> /\ UNCHANGED provider

delete_expired_pkce_code_verifiers(b) ==
    /\ b \in verifier /\ verifier' = verifier \ {b}
    /\ UNCHANGED <<served, cookie, known, refresh, thread, tld, cache>> /\ UNCHANGED provider

(* The provider answers the code with tokens. *)
get_auth_token_object(th) ==
    LET b == thread[th].browser IN
    /\ thread[th].pc = "exchange"
    /\ Issue(b, 0)
    /\ thread' = [thread EXCEPT ![th].pc = "store", ![th].got = issued + 1, ![th].token = Token(b, Newest, "fresh", TRUE)]
    /\ known' = known \cup {b} /\ cache' = jwks_public_key_for_key_id(Newest)
    /\ UNCHANGED <<served, cookie, verifier, refresh, tld>>

(* An expired token and a refresh token: the provider is asked; a token it *)
(* does not honour logs the user out.                                      *)
get_auth_token_from_refresh_token(th) ==
    LET r == thread[th] IN
    /\ r.pc = "renew"
    /\ IF <<r.browser, r.read>> \in honoured
       THEN /\ Issue(r.browser, r.read)
            /\ thread' = [thread EXCEPT ![th].pc = "store", ![th].got = issued + 1,
                                        ![th].token = Token(r.browser, Newest, "fresh", TRUE)]
            /\ UNCHANGED tld
       ELSE /\ thread' = [thread EXCEPT ![th].pc = "respond", ![th].result = "refused"]
            /\ set_user_has_logged_out(th) /\ UNCHANGED provider
    /\ UNCHANGED <<served, cookie, known, verifier, refresh, cache>>

(* Faulty variant: the replaced refresh token is not stored. *)
StoreNothing(th) ==
    /\ thread[th].pc = "store"
    /\ refresh' = [refresh EXCEPT ![thread[th].browser] = IF @ = 0 THEN thread[th].got ELSE @]
    /\ tld' = [tld EXCEPT ![th] = [@ EXCEPT !.access = thread[th].token]]
    /\ thread' = [thread EXCEPT ![th].pc = "respond", ![th].result = "ok"]
    /\ UNCHANGED <<served, cookie, known, verifier, cache>> /\ UNCHANGED provider

store_refresh_token(th) ==
    /\ thread[th].pc = "store"
    /\ refresh' = [refresh EXCEPT ![thread[th].browser] = thread[th].got]
    /\ tld' = [tld EXCEPT ![th] = [@ EXCEPT !.access = thread[th].token]]
    /\ thread' = [thread EXCEPT ![th].pc = "respond", ![th].result = "ok"]
    /\ UNCHANGED <<served, cookie, known, verifier, cache>> /\ UNCHANGED provider

(* An API client announces itself with an access token. *)
login_with_access_token(th, b, token) ==
    LET ks == jwks_public_key_for_key_id(token.key)
        ok == parse_jwt_token(token, ks) /\ validate_decoded_token(token) = "valid"
    IN  /\ thread[th].pc = "idle" /\ token.key # Internal
        /\ cache' = ks
        /\ known' = IF ok THEN known \cup {b} ELSE known
        /\ Serve(th, b, "respond", token, 0, IF ok THEN "ok" ELSE "refused")
        /\ UNCHANGED <<cookie, verifier, refresh, tld>> /\ UNCHANGED provider

logout(th, b) ==
    /\ thread[th].pc = "idle"
    /\ Serve(th, b, "respond", NoToken, 0, "ok")
    /\ tld' = [tld EXCEPT ![th].out = TRUE]
    /\ UNCHANGED <<cookie, known, verifier, refresh, cache>> /\ UNCHANGED provider

(* Faulty variant: the thread's data is not cleared after a response. *)
RespondKeepsTokens(th) ==
    /\ thread[th].pc = "respond"
    /\ cookie' = [cookie EXCEPT ![thread[th].browser] =
           IF tld[th].out THEN NoToken ELSE IF tld[th].access # NoToken THEN tld[th].access ELSE @]
    /\ thread' = [thread EXCEPT ![th] = Rest]
    /\ UNCHANGED <<served, known, verifier, refresh, tld, cache>> /\ UNCHANGED provider

(* After every request, also one that raised. *)
set_new_access_token_in_cookie(th) ==
    /\ thread[th].pc = "respond"
    /\ cookie' = [cookie EXCEPT ![thread[th].browser] =
           IF tld[th].out THEN NoToken ELSE IF tld[th].access # NoToken THEN tld[th].access ELSE @]
    /\ clear_auth_tokens_from_thread_local_data(th)
    /\ thread' = [thread EXCEPT ![th] = Rest]
    /\ UNCHANGED <<served, known, verifier, refresh, cache>> /\ UNCHANGED provider

SignInNext ==
    \/ RotateKey
    \/ \E p \in Persons : Expire(p) \/ EndSession(p) \/ delete_expired_pkce_code_verifiers(p)
    \/ \E th \in Threads, b \in Persons :
        \/ \E token \in Presented(b) : verify_token(th, b, token) \/ login_with_access_token(th, b, token)
        \/ check_if_request_is_public(th, b) \/ should_disable_auth_for_request(th, b)
        \/ login(th, b) \/ login_return(th, b) \/ logout(th, b)
    \/ \E th \in Threads :
        \/ get_auth_token_object(th) \/ get_auth_token_from_refresh_token(th)
        \/ store_refresh_token(th) \/ set_new_access_token_in_cookie(th)

SignInSpec == SignInInit /\ [][SignInNext]_siVars

-----------------------------------------------------------------------------
(* Properties *)

SignInTypeOK ==
    /\ cookie \in [Persons -> Tokens \cup {NoToken}]
    /\ known \subseteq Persons /\ verifier \subseteq Persons /\ ended \subseteq Persons
    /\ refresh \in [Persons -> 0..MaxRefresh]
    /\ thread \in [Threads -> ThreadState] /\ tld \in [Threads -> LocalData]
    /\ cache \subseteq 1..MaxKeys /\ keys \subseteq 1..MaxKeys
    /\ honoured \subseteq Persons \X (1..MaxRefresh)
    /\ issued \in 0..MaxRefresh /\ served \in 0..MaxServed

(* Threads serve one browser after the other: a response sets no cookie    *)
(* that a request of somebody else left in the thread's data.              *)
TokensStayWithTheirRequest ==
    \A th \in Threads :
        thread[th].pc = "respond" /\ tld[th].access # NoToken => tld[th].access.user = thread[th].browser

(* While a user's session lasts, the refresh token in the database is one  *)
(* the provider honours once all requests are answered, however requests   *)
(* with the same expired token raced for it.                               *)
StoredRefreshHonoured ==
    (\A th \in Threads : thread[th].pc = "idle") =>
        \A p \in Persons \ ended : refresh[p] # 0 => <<p, refresh[p]>> \in honoured

(* A rotation of the provider's keys refuses nobody: a token is called     *)
(* undecodable only when its key is not published any more.                *)
PublishedKeysDecode ==
    \A th \in Threads : thread[th].result = "undecodable" => thread[th].token.key \notin keys

(* All of it: nobody gets a token of somebody else's request, nobody loses *)
(* a session to a race for the refresh token or to a rotation of keys.     *)
SignInSound == SignInTypeOK /\ TokensStayWithTheirRequest /\ StoredRefreshHonoured /\ PublishedKeysDecode
=============================================================================
