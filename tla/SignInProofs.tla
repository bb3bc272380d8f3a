---------------------------- MODULE SignInProofs ----------------------------
(***************************************************************************)
(* What SignIn guarantees for any number of browsers, threads, refresh     *)
(* tokens and signing keys.  The invariant follows a thread from request   *)
(* to response (ThreadInv), the refresh tokens that threads have read or   *)
(* been given and not yet stored (RefreshInv), and the age of the keys     *)
(* that tokens are signed with (KeysInv).                                  *)
(*                                                                         *)
(* And what AccessControl guarantees of the permissions of whoever signed  *)
(* in, for any people, groups and files.  What the two matchings of paths  *)
(* answer is a matter of the rows alone; what a refresh leaves behind is   *)
(* followed by AccessInv, whose core is Converging.                        *)
(***************************************************************************)
EXTENDS SignIn, AccessControl, SequenceTheorems, WellFoundedInduction, TLAPS

(* What a thread's local data holds at each point of a request. *)
ThreadOK(r, d) ==
    /\ r.pc = "idle" => r = Rest
    /\ r.pc # "idle" => r.browser \in Persons
    /\ r.pc # "respond" => d = CleanData /\ r.result = "none"
    /\ r.pc = "store" => r.token \in Tokens /\ r.token.user = r.browser
    /\ d.access # NoToken => d.access.user = r.browser
ThreadInv == \A th \in Threads : ThreadOK(thread[th], tld[th])

(* A refresh token that a thread got is its own until it is stored: nobody *)
(* else has it in hand or has read it, so nobody can use it up.            *)
Pending(th) == thread[th].pc = "store"
Own(th) ==
    LET r == thread[th] IN
    /\ \A p \in Persons : r.got # refresh[p]
    /\ \A o \in Threads \ {th} : Pending(o) => thread[o].got # r.got
    /\ \A o \in Threads : thread[o].pc = "renew" => thread[o].read # r.got
(* A stored token the provider does not honour any more was used by a      *)
(* thread that is about to store another one.                              *)
Covered(p) == \/ refresh[p] = 0 \/ p \in ended \/ <<p, refresh[p]>> \in honoured
              \/ \E th \in Threads : Pending(th) /\ thread[th].browser = p
RefreshInv ==
    /\ \A p \in Persons : refresh[p] <= issued /\ Covered(p)
    /\ \A th \in Threads : thread[th].pc = "renew" => thread[th].read <= issued /\ thread[th].read # 0
    /\ \A th \in Threads : Pending(th) =>
           /\ thread[th].got <= issued
           /\ thread[th].browser \notin ended => <<thread[th].browser, thread[th].got>> \in honoured
           /\ Own(th)

(* No token is signed with a key that is still to come. *)
HasNewest(ks) == \E k \in ks : \A j \in ks : j <= k
NotNewer(t) == t = NoToken \/ \E k \in keys : t.key <= k
KeysInv ==
    /\ HasNewest(keys)
    /\ \A p \in Persons : NotNewer(cookie[p])
    /\ \A th \in Threads : NotNewer(thread[th].token) /\ NotNewer(tld[th].access)
    /\ \A th \in Threads : thread[th].result = "undecodable" => thread[th].token # NoToken
    /\ PublishedKeysDecode

IInv == SignInTypeOK /\ ThreadInv /\ RefreshInv /\ KeysInv

-----------------------------------------------------------------------------
(* The newest key *)

LEMMA NewestIs ==
    ASSUME KeysInv
    PROVE  Newest \in keys /\ \A j \in keys : j <= Newest
  <1>1. PICK k \in keys : \A j \in keys : j <= k
    BY DEF KeysInv, HasNewest
  <1>. QED
    BY <1>1, Zenon DEF Newest

(* The tokens a browser may present, and those the provider issues. *)
LEMMA IssuedToken ==
    ASSUME SignInTypeOK, KeysInv, NEW b \in Persons, NEW v \in BOOLEAN
    PROVE  /\ Token(b, Newest, "fresh", v) \in Tokens
           /\ Token(b, Newest, "fresh", v).user = b
           /\ NotNewer(Token(b, Newest, "fresh", v))
           /\ Newest \in 1..MaxKeys
  <1>1. Newest \in keys /\ Newest \in 1..MaxKeys
    BY NewestIs DEF SignInTypeOK
  <1>2. Newest \in 0..MaxKeys /\ Newest <= Newest
    BY <1>1, SignInConstants
  <1>. QED
    BY <1>1, <1>2, SignInConstants DEF Token, Tokens, NotNewer

LEMMA PresentedToken ==
    ASSUME SignInTypeOK, KeysInv, NEW b \in Persons, NEW token \in Presented(b)
    PROVE  token \in Tokens /\ NotNewer(token) /\ token # NoToken
  <1>1. token = cookie[b] /\ token # NoToken => token \in Tokens /\ NotNewer(token)
    BY DEF SignInTypeOK, KeysInv
  <1>. QED
    BY <1>1, IssuedToken DEF Presented

(* The thread's data when there is no new token to send. *)
LoggedOut == [access |-> NoToken, out |-> TRUE]
LEMMA DataTypes ==
    /\ CleanData \in LocalData
    /\ LoggedOut \in LocalData
    /\ CleanData.access = NoToken /\ LoggedOut.access = NoToken
    /\ [CleanData EXCEPT !.out = TRUE] = LoggedOut
  <1>1. ASSUME NEW f, NEW t
        PROVE  [[access |-> NoToken, out |-> f] EXCEPT !.out = t] = [access |-> NoToken, out |-> t]
    OBVIOUS
  <1>2. [CleanData EXCEPT !.out = TRUE] = LoggedOut
    BY <1>1 DEF CleanData, LoggedOut
  <1>. QED
    BY <1>2 DEF CleanData, LoggedOut, LocalData

-----------------------------------------------------------------------------
(* A thread takes a request.  All of them begin with Serve. *)

(* The refresh tokens: a renewal begins with the token that is stored. *)
LEMMA ServeRefresh ==
    ASSUME SignInTypeOK, RefreshInv, NEW th \in Threads, thread[th].pc = "idle", NEW b \in Persons,
           thread'[th].pc \in {"renew", "exchange", "respond"}, thread'[th].browser = b,
           thread'[th].pc = "renew" => thread'[th].read = refresh[b] /\ refresh[b] # 0,
           \A o \in Threads \ {th} : thread'[o] = thread[o],
           UNCHANGED <<refresh, honoured, issued, ended>>
    PROVE  RefreshInv'
  <1>1. \A o \in Threads : Pending(o)' => Pending(o) /\ o # th /\ thread'[o] = thread[o]
    BY DEF Pending
  <1>2. \A o \in Threads : Pending(o) => Pending(o)' /\ thread'[o] = thread[o]
    BY DEF Pending
  <1>3. \A p \in Persons : refresh'[p] <= issued' /\ Covered(p)'
    BY <1>2 DEF RefreshInv, Covered
  <1>4. \A o \in Threads : thread'[o].pc = "renew" => thread'[o].read <= issued' /\ thread'[o].read # 0
    BY DEF RefreshInv
  <1>5. ASSUME NEW o \in Threads, Pending(o)' PROVE Own(o)'
    <2>1. Own(o) /\ Pending(o) /\ o # th /\ thread'[o] = thread[o]
      BY <1>1, <1>5 DEF RefreshInv
    <2>2. \A x \in Threads \ {o} : Pending(x)' => thread'[x].got # thread'[o].got
      BY <1>1, <2>1 DEF Own
    <2>3. \A x \in Threads : thread'[x].pc = "renew" => thread'[x].read # thread'[o].got
      BY <2>1 DEF Own
    <2>. QED
      BY <2>1, <2>2, <2>3 DEF Own
  <1>. QED
    BY <1>1, <1>3, <1>4, <1>5 DEF RefreshInv

(* The thread's data and the keys, whatever the request is. *)
LEMMA ServeThread ==
    ASSUME SignInTypeOK, ThreadInv, KeysInv, NEW th \in Threads, thread[th].pc = "idle",
           ThreadOK(thread'[th], tld'[th]),
           NotNewer(thread'[th].token), NotNewer(tld'[th].access),
           thread'[th].result = "undecodable" =>
               thread'[th].token # NoToken /\ thread'[th].token.key \notin keys,
           \A o \in Threads \ {th} : thread'[o] = thread[o] /\ tld'[o] = tld[o],
           UNCHANGED <<cookie, keys>>
    PROVE  ThreadInv' /\ KeysInv'
  <1>1. ThreadInv'
    BY DEF ThreadInv
  <1>2. \A t : NotNewer(t)' <=> NotNewer(t)
    BY DEF NotNewer
  <1>3. KeysInv'
    BY <1>2 DEF KeysInv, HasNewest, PublishedKeysDecode, NotNewer
  <1>. QED
    BY <1>1, <1>3

-----------------------------------------------------------------------------
(* The requests *)

LEMMA VerifyInv ==
    ASSUME IInv, NEW th \in Threads, NEW b \in Persons, NEW token \in Presented(b),
           verify_token(th, b, token)
    PROVE  IInv'
  <1>. DEFINE ks == jwks_public_key_for_key_id(token.key)
  <1>0. SignInTypeOK /\ ThreadInv /\ RefreshInv /\ KeysInv
    BY DEF IInv
  <1>1. token \in Tokens /\ NotNewer(token) /\ token # NoToken
    BY <1>0, PresentedToken
  <1>2. ~parse_jwt_token(token, ks) => token.key \notin keys
    BY DEF parse_jwt_token, jwks_public_key_for_key_id
  <1>3. cache' \subseteq 1..MaxKeys
    BY <1>0 DEF verify_token, jwks_public_key_for_key_id, SignInTypeOK
  <1>4. /\ thread[th].pc = "idle"
        /\ UNCHANGED <<cookie, known, verifier, refresh, keys, honoured, issued, ended>>
    BY DEF verify_token, provider
  <1>5. \/ /\ Serve(th, b, "respond", token, 0, "undecodable") /\ set_user_has_logged_out(th)
           /\ token.key \notin keys
        \/ Serve(th, b, "respond", token, 0, "ok") /\ clear_auth_tokens_from_thread_local_data(th)
        \/ /\ Serve(th, b, "renew", token, refresh[b], "none") /\ refresh[b] # 0
           /\ clear_auth_tokens_from_thread_local_data(th)
        \/ Serve(th, b, "respond", token, 0, "refused") /\ set_user_has_logged_out(th)
    BY <1>2 DEF verify_token
  <1>6. PICK d \in {CleanData, LoggedOut} :
           /\ tld' = [tld EXCEPT ![th] = d]
           /\ thread'[th].pc # "respond" => d = CleanData
    <2>1. thread'[th].pc = "respond" \/ clear_auth_tokens_from_thread_local_data(th)
      BY <1>0, <1>5 DEF Serve, SignInTypeOK
    <2>. QED
      BY <1>5, <2>1, Zenon DEF set_user_has_logged_out, clear_auth_tokens_from_thread_local_data, LoggedOut
  <1>7. /\ refresh[b] \in 0..MaxRefresh /\ 0 \in 0..MaxRefresh
        /\ tld'[th].access = NoToken
        /\ tld' \in [Threads -> LocalData]
        /\ \A o \in Threads \ {th} : tld'[o] = tld[o]
        /\ thread'[th].pc # "respond" => tld'[th] = CleanData
    <2>1. d \in LocalData /\ d.access = NoToken
      BY <1>6, DataTypes
    <2>2. /\ tld' \in [Threads -> LocalData] /\ tld'[th] = d
          /\ \A o \in Threads \ {th} : tld'[o] = tld[o]
      BY <1>0, <1>6, <2>1 DEF SignInTypeOK
    <2>. QED
      BY <1>0, <1>6, <2>1, <2>2, SignInConstants DEF SignInTypeOK
  <1>8. PICK pc \in {"renew", "respond"}, read \in 0..MaxRefresh,
             result \in {"none", "ok", "refused", "undecodable"} :
           /\ Serve(th, b, pc, token, read, result)
           /\ pc = "renew" => read = refresh[b] /\ refresh[b] # 0 /\ result = "none"
           /\ result = "undecodable" => token.key \notin keys
    BY <1>5, <1>7
  <1>9. /\ served' \in 0..MaxServed
        /\ thread' \in [Threads -> ThreadState]
        /\ thread'[th] = [pc |-> pc, browser |-> b, token |-> token, read |-> read, got |-> 0,
                          result |-> result]
        /\ \A o \in Threads \ {th} : thread'[o] = thread[o]
    BY <1>0, <1>1, <1>8, SignInConstants DEF SignInTypeOK, ThreadState, Serve
  <1>10. SignInTypeOK'
    BY <1>0, <1>3, <1>4, <1>7, <1>9 DEF SignInTypeOK
  <1>11. RefreshInv'
    BY <1>0, <1>4, <1>8, <1>9, ServeRefresh
  <1>12. ThreadOK(thread'[th], tld'[th])
    BY <1>7, <1>8, <1>9 DEF ThreadOK
  <1>13. ThreadInv' /\ KeysInv'
    <2>1. NotNewer(tld'[th].access)
      BY <1>7 DEF NotNewer
    <2>. QED
      BY <1>0, <1>1, <1>4, <1>7, <1>8, <1>9, <1>12, <2>1, ServeThread
  <1>. QED
    BY <1>10, <1>11, <1>13 DEF IInv

(* The other requests end in a response of their own thread at once, or go *)
(* on to the exchange of a code.                                           *)
LEMMA RequestInv ==
    ASSUME IInv, NEW th \in Threads, NEW b \in Persons, NEW token \in Tokens \cup {NoToken},
           NotNewer(token), NEW pc \in {"exchange", "respond"},
           NEW result \in {"none", "ok", "refused"}, pc = "exchange" => result = "none",
           thread[th].pc = "idle", Serve(th, b, pc, token, 0, result),
           tld' \in [Threads -> LocalData],
           \A o \in Threads \ {th} : tld'[o] = tld[o],
           tld'[th] = CleanData \/ pc = "respond",
           tld'[th].access = NoToken \/ tld'[th].access.user = b,
           NotNewer(tld'[th].access),
           known' \subseteq Persons, verifier' \subseteq Persons, cache' \subseteq 1..MaxKeys,
           UNCHANGED <<cookie, refresh, keys, honoured, issued, ended>>
    PROVE  IInv'
  <1>0. SignInTypeOK /\ ThreadInv /\ RefreshInv /\ KeysInv /\ 0 \in 0..MaxRefresh
    BY SignInConstants DEF IInv
  <1>1. /\ served' \in 0..MaxServed
        /\ thread' \in [Threads -> ThreadState]
        /\ thread'[th] = [pc |-> pc, browser |-> b, token |-> token, read |-> 0, got |-> 0,
                          result |-> result]
        /\ \A o \in Threads \ {th} : thread'[o] = thread[o]
    BY <1>0, SignInConstants DEF SignInTypeOK, ThreadState, Serve
  <1>2. SignInTypeOK'
    BY <1>0, <1>1 DEF SignInTypeOK
  <1>3. RefreshInv'
    BY <1>0, <1>1, ServeRefresh
  <1>4. ThreadOK(thread'[th], tld'[th])
    BY <1>1 DEF ThreadOK
  <1>5. ThreadInv' /\ KeysInv'
    BY <1>0, <1>1, <1>4, ServeThread
  <1>. QED
    BY <1>2, <1>3, <1>5 DEF IInv

LEMMA OtherRequests ==
    ASSUME IInv, NEW th \in Threads, NEW b \in Persons,
           \/ check_if_request_is_public(th, b) \/ should_disable_auth_for_request(th, b)
           \/ login(th, b) \/ login_return(th, b) \/ logout(th, b)
           \/ \E token \in Presented(b) : login_with_access_token(th, b, token)
    PROVE  IInv'
  <1>0. SignInTypeOK /\ ThreadInv /\ KeysInv
    BY DEF IInv
  <1>1. thread[th].pc = "idle" /\ tld[th] = CleanData /\ NotNewer(NoToken) /\ NotNewer(tld[th].access)
    <2>1. thread[th].pc = "idle"
      BY DEF check_if_request_is_public, should_disable_auth_for_request, login, login_return,
           logout, login_with_access_token
    <2>2. tld[th] = CleanData
      BY <1>0, <2>1 DEF ThreadInv, ThreadOK
    <2>. QED
      BY <2>1, <2>2 DEF NotNewer, CleanData
  <1>. DEFINE own == Token(b, Internal, "fresh", TRUE)
  <1>2. CASE check_if_request_is_public(th, b)
    <2>1. own \in Tokens /\ own.user = b
      BY SignInConstants DEF Tokens, Token, Internal
    <2>2. NotNewer(own)
      <3>1. Newest \in keys /\ Newest \in 1..MaxKeys
        BY <1>0, NewestIs DEF SignInTypeOK
      <3>2. own.key = 0 /\ 0 <= Newest
        BY <3>1, SignInConstants DEF Token, Internal
      <3>. QED
        BY <3>1, <3>2 DEF NotNewer
    <2>. HIDE DEF own
    <2>3. /\ tld' = [tld EXCEPT ![th] = [access |-> own, out |-> FALSE]]
          /\ Serve(th, b, "respond", NoToken, 0, "ok")
          /\ UNCHANGED <<cookie, known, verifier, refresh, cache, keys, honoured, issued, ended>>
      BY <1>2 DEF check_if_request_is_public, own, provider
    <2>4. /\ tld' \in [Threads -> LocalData]
          /\ \A o \in Threads \ {th} : tld'[o] = tld[o]
          /\ tld'[th].access = own
      <3>1. PICK d : d = [access |-> own, out |-> FALSE]
        OBVIOUS
      <3>2. d \in LocalData /\ d.access = own
        BY <2>1, <3>1 DEF LocalData
      <3>3. tld' = [tld EXCEPT ![th] = d]
        BY <2>3, <3>1
      <3>. QED
        BY <1>0, <3>2, <3>3 DEF SignInTypeOK
    <2>. QED
      BY <1>0, <1>1, <2>1, <2>2, <2>3, <2>4, RequestInv DEF SignInTypeOK
  <1>3. CASE should_disable_auth_for_request(th, b) \/ login(th, b) \/ login_return(th, b)
    <2>1. PICK pc \in {"exchange", "respond"}, result \in {"none", "ok", "refused"} :
            Serve(th, b, pc, NoToken, 0, result) /\ (pc = "exchange" => result = "none")
      BY <1>3 DEF should_disable_auth_for_request, login, login_return
    <2>2. /\ verifier' \subseteq Persons
          /\ UNCHANGED <<cookie, known, refresh, tld, cache, keys, honoured, issued, ended>>
      BY <1>0, <1>3 DEF should_disable_auth_for_request, login, login_return, SignInTypeOK, provider
    <2>3. /\ tld[th].access = NoToken /\ tld'[th] = CleanData /\ tld' \in [Threads -> LocalData]
          /\ known' \subseteq Persons /\ cache' \subseteq 1..MaxKeys
      BY <1>0, <1>1, <2>2 DEF CleanData, SignInTypeOK
    <2>. QED
      BY <1>1, <2>1, <2>2, <2>3, RequestInv
  <1>4. CASE logout(th, b)
    <2>1. /\ tld' = [tld EXCEPT ![th].out = TRUE]
          /\ Serve(th, b, "respond", NoToken, 0, "ok")
          /\ UNCHANGED <<cookie, known, verifier, refresh, cache, keys, honoured, issued, ended>>
      BY <1>4 DEF logout, provider
    <2>2. /\ tld' \in [Threads -> LocalData]
          /\ \A o \in Threads \ {th} : tld'[o] = tld[o]
          /\ tld'[th].access = NoToken
      <3>1. [tld[th] EXCEPT !.out = TRUE] = LoggedOut
        BY <1>1, DataTypes
      <3>2. tld' = [tld EXCEPT ![th] = LoggedOut]
        BY <1>0, <2>1, <3>1 DEF SignInTypeOK
      <3>. QED
        BY <1>0, <3>2, DataTypes DEF SignInTypeOK
    <2>. QED
      BY <1>0, <1>1, <2>1, <2>2, RequestInv DEF SignInTypeOK
  <1>5. CASE \E token \in Presented(b) : login_with_access_token(th, b, token)
    <2>1. PICK token \in Presented(b) : login_with_access_token(th, b, token)
      BY <1>5
    <2>2. token \in Tokens /\ NotNewer(token)
      BY <1>0, PresentedToken
    <2>3. \E result \in {"ok", "refused"} : Serve(th, b, "respond", token, 0, result)
      BY <2>1 DEF login_with_access_token
    <2>4. /\ known' \subseteq Persons /\ cache' \subseteq 1..MaxKeys
          /\ UNCHANGED <<cookie, verifier, refresh, tld, keys, honoured, issued, ended>>
      BY <1>0, <2>1 DEF login_with_access_token, jwks_public_key_for_key_id, SignInTypeOK, provider
    <2>5. tld[th].access = NoToken
      BY <1>1 DEF CleanData
    <2>. QED
      BY <1>0, <1>1, <2>2, <2>3, <2>4, <2>5, RequestInv DEF SignInTypeOK
  <1>. QED
    BY <1>2, <1>3, <1>4, <1>5

-----------------------------------------------------------------------------
(* Time and the provider *)

LEMMA ExpireInv == ASSUME IInv, NEW p \in Persons, Expire(p) PROVE IInv'
  <1>0. SignInTypeOK /\ ThreadInv /\ RefreshInv /\ KeysInv
    BY DEF IInv
  <1>1. cookie[p] \in Tokens /\ cookie' = [cookie EXCEPT ![p] = [cookie[p] EXCEPT !.age = "expired"]]
    BY <1>0 DEF Expire, SignInTypeOK
  <1>2. PICK t : t = [cookie[p] EXCEPT !.age = "expired"]
    OBVIOUS
  <1>3. t \in Tokens /\ t.key = cookie[p].key
    BY <1>1, <1>2 DEF Tokens
  <1>4. cookie' = [cookie EXCEPT ![p] = t]
    BY <1>1, <1>2
  <1>5. UNCHANGED <<served, known, verifier, refresh, thread, tld, cache, keys, honoured, issued, ended>>
    BY DEF Expire, provider
  <1>6. SignInTypeOK'
    BY <1>0, <1>3, <1>4, <1>5 DEF SignInTypeOK
  <1>7. ThreadInv' /\ RefreshInv'
    BY <1>0, <1>5 DEF ThreadInv, RefreshInv, Covered, Pending, Own
  <1>8. NotNewer(t)
    <2>1. cookie[p] # NoToken
      BY DEF Expire
    <2>. QED
      BY <1>0, <1>3, <2>1 DEF KeysInv, NotNewer
  <1>9. KeysInv'
    <2>1. \A q \in Persons : NotNewer(cookie'[q])
      BY <1>0, <1>4, <1>8 DEF SignInTypeOK, KeysInv
    <2>. QED
      BY <1>0, <1>5, <2>1 DEF KeysInv, HasNewest, NotNewer, PublishedKeysDecode
  <1>. QED
    BY <1>6, <1>7, <1>9 DEF IInv

LEMMA RotateKeyInv == ASSUME IInv, RotateKey PROVE IInv'
  <1>0. SignInTypeOK /\ ThreadInv /\ RefreshInv /\ KeysInv
    BY DEF IInv
  <1>1. Newest \in keys /\ \A j \in keys : j <= Newest
    BY <1>0, NewestIs
  <1>2. PICK n : n = Newest
    OBVIOUS
  <1>3. /\ n \in 1..MaxKeys /\ n + 1 \in 1..MaxKeys /\ n < n + 1 /\ keys \subseteq 1..MaxKeys
        /\ n + 1 \in keys' /\ keys' \subseteq keys \cup {n + 1}
        /\ \A j \in keys : j <= n
        /\ UNCHANGED <<served, cookie, known, verifier, refresh, thread, tld, cache, honoured, issued, ended>>
    BY <1>0, <1>1, <1>2, SignInConstants DEF SignInTypeOK, RotateKey
  <1>4. SignInTypeOK'
    BY <1>0, <1>3 DEF SignInTypeOK
  <1>5. ThreadInv' /\ RefreshInv'
    BY <1>0, <1>3 DEF ThreadInv, RefreshInv, Covered, Pending, Own
  <1>6. HasNewest(keys)'
    BY <1>3 DEF HasNewest
  <1>7. ASSUME NEW t \in Tokens \cup {NoToken}, NotNewer(t)
        PROVE  NotNewer(t)' /\ (t # NoToken => t.key # n + 1)
    <2>1. CASE t # NoToken
      <3>1. PICK k \in keys : t.key <= k
        BY <1>7, <2>1 DEF NotNewer
      <3>2. t.key \in 0..MaxKeys
        BY <2>1 DEF Tokens
      <3>3. t.key <= n /\ t.key <= n + 1 /\ t.key # n + 1
        BY <1>3, <3>1, <3>2
      <3>. QED
        BY <1>3, <3>3 DEF NotNewer
    <2>. QED
      BY <2>1 DEF NotNewer
  <1>8. \A p \in Persons : NotNewer(cookie[p])'
    BY <1>0, <1>3, <1>7 DEF KeysInv, SignInTypeOK
  <1>9. ASSUME NEW th \in Threads
        PROVE  /\ NotNewer(thread[th].token)' /\ NotNewer(tld[th].access)'
               /\ thread'[th].result = "undecodable" =>
                      thread'[th].token # NoToken /\ thread'[th].token.key \notin keys'
    <2>1. thread[th].token \in Tokens \cup {NoToken} /\ tld[th].access \in Tokens \cup {NoToken}
      BY <1>0 DEF SignInTypeOK, ThreadState, LocalData
    <2>2. NotNewer(thread[th].token)' /\ (thread[th].token # NoToken => thread[th].token.key # n + 1)
      BY <1>0, <1>3, <1>7, <2>1 DEF KeysInv
    <2>3. NotNewer(tld[th].access)'
      BY <1>0, <1>3, <1>7, <2>1 DEF KeysInv
    <2>. QED
      BY <1>0, <1>3, <2>2, <2>3 DEF KeysInv, PublishedKeysDecode
  <1>10. KeysInv'
    BY <1>6, <1>8, <1>9 DEF KeysInv, PublishedKeysDecode
  <1>. QED
    BY <1>4, <1>5, <1>10 DEF IInv

LEMMA EndSessionInv ==
    ASSUME IInv, NEW p \in Persons, EndSession(p) \/ delete_expired_pkce_code_verifiers(p)
    PROVE  IInv'
  <1>0. SignInTypeOK /\ ThreadInv /\ RefreshInv /\ KeysInv
    BY DEF IInv
  <1>1. /\ UNCHANGED <<served, cookie, known, refresh, thread, tld, cache, keys, issued>>
        /\ verifier' \subseteq Persons
        /\ ended' \subseteq Persons /\ ended \subseteq ended'
        /\ honoured' \subseteq honoured
        /\ \A h \in honoured : h[1] \notin ended' => h \in honoured'
    BY <1>0 DEF SignInTypeOK, EndSession, delete_expired_pkce_code_verifiers, provider
  <1>2. SignInTypeOK'
    BY <1>0, <1>1 DEF SignInTypeOK
  <1>3. ThreadInv' /\ KeysInv'
    BY <1>0, <1>1 DEF ThreadInv, KeysInv, HasNewest, NotNewer, PublishedKeysDecode
  <1>4. \A q, n : q \notin ended' /\ <<q, n>> \in honoured => <<q, n>> \in honoured'
    BY <1>1
  <1>5. \A q \in Persons : refresh'[q] <= issued' /\ Covered(q)'
    BY <1>0, <1>1, <1>4 DEF RefreshInv, Covered, Pending
  <1>6. \A th \in Threads : Pending(th)' =>
           /\ thread'[th].got <= issued'
           /\ thread'[th].browser \notin ended' => <<thread'[th].browser, thread'[th].got>> \in honoured'
           /\ Own(th)'
    BY <1>0, <1>1, <1>4 DEF RefreshInv, Pending, Own
  <1>7. RefreshInv'
    BY <1>0, <1>1, <1>5, <1>6 DEF RefreshInv
  <1>. QED
    BY <1>2, <1>3, <1>7 DEF IInv

-----------------------------------------------------------------------------
(* A thread goes on with its request *)

(* The provider gives a thread a new refresh token, and may take back the  *)
(* one the thread showed.  Nobody else's token is touched.                 *)
LEMMA IssueRefresh ==
    ASSUME SignInTypeOK, RefreshInv, NEW th \in Threads, NEW b \in Persons, NEW used \in 0..MaxRefresh,
           thread[th].pc \in {"renew", "exchange"}, thread[th].browser = b,
           used # 0 => thread[th].pc = "renew" /\ thread[th].read = used,
           issued' = issued + 1, <<b, issued + 1>> \in honoured',
           \A h \in honoured : h # <<b, used>> => h \in honoured',
           thread'[th].pc = "store", thread'[th].browser = b, thread'[th].got = issued + 1,
           \A o \in Threads \ {th} : thread'[o] = thread[o],
           UNCHANGED <<refresh, ended>>
    PROVE  RefreshInv'
  <1>0. issued \in Nat /\ issued' \in Nat /\ \A p \in Persons : refresh[p] \in Nat
    BY SignInConstants DEF SignInTypeOK
  <1>00. \A o \in Threads : /\ thread[o].got \in Nat /\ thread[o].read \in Nat
                            /\ thread[o].browser \in Persons \cup {NoToken}
    BY SignInConstants DEF SignInTypeOK, ThreadState
  <1>1. Pending(th)' /\ ~Pending(th) /\ \A o \in Threads \ {th} : Pending(o)' <=> Pending(o)
    BY DEF Pending
  <1>2. ASSUME NEW p \in Persons PROVE refresh'[p] <= issued' /\ Covered(p)'
    <2>1. refresh[p] <= issued /\ Covered(p)
      BY DEF RefreshInv
    <2>2. CASE p = b
      BY <1>0, <1>1, <2>1, <2>2 DEF Covered
    <2>3. CASE p # b
      <3>1. <<p, refresh[p]>> \in honoured => <<p, refresh[p]>> \in honoured'
        BY <2>3
      <3>2. \A o \in Threads : Pending(o) /\ thread[o].browser = p => Pending(o)' /\ thread'[o].browser = p
        BY <1>1
      <3>. QED
        BY <1>0, <2>1, <3>1, <3>2 DEF Covered
    <2>. QED
      BY <2>2, <2>3
  <1>3. \A o \in Threads : thread'[o].pc = "renew" => thread'[o].read <= issued' /\ thread'[o].read # 0
    BY <1>0, <1>00 DEF RefreshInv
  <1>4. /\ \A p \in Persons : issued + 1 # refresh[p]
        /\ \A o \in Threads \ {th} : Pending(o) => thread[o].got # issued + 1
        /\ \A o \in Threads : thread[o].pc = "renew" => thread[o].read # issued + 1
    <2>1. /\ \A p \in Persons : refresh[p] <= issued
          /\ \A o \in Threads : Pending(o) => thread[o].got <= issued
          /\ \A o \in Threads : thread[o].pc = "renew" => thread[o].read <= issued
      BY DEF RefreshInv
    <2>. QED
      BY <1>0, <1>00, <2>1
  <1>5. Own(th)'
    BY <1>1, <1>4 DEF Own
  <1>6. ASSUME NEW o \in Threads \ {th}, Pending(o)
        PROVE  /\ Own(o)' /\ thread'[o].got <= issued'
               /\ thread'[o].browser \notin ended' => <<thread'[o].browser, thread'[o].got>> \in honoured'
    <2>1. /\ Own(o) /\ thread[o].got <= issued
          /\ thread[o].browser \notin ended => <<thread[o].browser, thread[o].got>> \in honoured
      BY <1>6 DEF RefreshInv
    <2>2. thread[o].got # used \/ used = 0
      BY <2>1 DEF Own
    <2>3. used = 0 => <<thread[o].browser, thread[o].got>> # <<b, used>> \/ thread[o].got = 0
      OBVIOUS
    <2>4. thread[o].browser \notin ended => thread[o].got # 0
      BY <1>00, <2>1 DEF SignInTypeOK
    <2>5. thread[o].browser \notin ended => <<thread[o].browser, thread[o].got>> \in honoured'
      BY <2>1, <2>2, <2>3, <2>4
    <2>6. Own(o)'
      BY <1>1, <1>4, <1>6, <2>1 DEF Own
    <2>. QED
      BY <1>0, <1>00, <2>1, <2>5, <2>6
  <1>. QED
    BY <1>0, <1>1, <1>2, <1>3, <1>5, <1>6 DEF RefreshInv

(* Both ways of getting tokens from the provider. *)
LEMMA IssueInv ==
    ASSUME IInv, NEW th \in Threads, NEW used \in 0..MaxRefresh,
           thread[th].pc \in {"renew", "exchange"},
           used # 0 => thread[th].pc = "renew" /\ thread[th].read = used,
           Issue(thread[th].browser, used),
           thread' = [thread EXCEPT ![th].pc = "store", ![th].got = issued + 1,
                                    ![th].token = Token(thread[th].browser, Newest, "fresh", TRUE)],
           known' \subseteq Persons, cache' \subseteq 1..MaxKeys,
           UNCHANGED <<served, cookie, verifier, refresh, tld>>
    PROVE  IInv'
  <1>0. SignInTypeOK /\ ThreadInv /\ RefreshInv /\ KeysInv
    BY DEF IInv
  <1>1. PICK b \in Persons : b = thread[th].browser
    BY <1>0 DEF ThreadInv, ThreadOK
  <1>2. PICK t : t = Token(b, Newest, "fresh", TRUE)
    OBVIOUS
  <1>3. t \in Tokens /\ t.user = b /\ NotNewer(t)
    BY <1>0, <1>2, IssuedToken
  <1>4. thread[th] \in ThreadState /\ issued + 1 \in 0..MaxRefresh /\ issued \in Nat
    BY <1>0, SignInConstants DEF SignInTypeOK, Issue
  <1>5. PICK r : r = [thread[th] EXCEPT !.pc = "store", !.got = issued + 1, !.token = t]
    OBVIOUS
  <1>6. /\ r \in ThreadState /\ r.pc = "store" /\ r.got = issued + 1 /\ r.token = t
        /\ r.browser = b /\ r.result = thread[th].result
    BY <1>1, <1>3, <1>4, <1>5 DEF ThreadState
  <1>7. thread' = [thread EXCEPT ![th] = r]
    BY <1>1, <1>2, <1>5
  <1>8. thread' \in [Threads -> ThreadState] /\ thread'[th] = r /\ \A o \in Threads \ {th} : thread'[o] = thread[o]
    BY ZenonT(40), <1>0, <1>6, <1>7 DEF SignInTypeOK
  <1>9. /\ issued' = issued + 1 /\ <<b, issued + 1>> \in honoured'
        /\ \A h \in honoured : h # <<b, used>> => h \in honoured'
        /\ honoured' \subseteq honoured \cup {<<b, issued + 1>>}
        /\ UNCHANGED <<keys, ended>>
    BY <1>1 DEF Issue
  <1>10. SignInTypeOK'
    <2>1. issued + 1 \in 1..MaxRefresh
      BY <1>4
    <2>. QED
      BY <1>0, <1>4, <1>8, <1>9, <2>1 DEF SignInTypeOK
  <1>11. RefreshInv'
    BY <1>0, <1>1, <1>6, <1>8, <1>9, IssueRefresh
  <1>12. ThreadInv'
    <2>1. tld[th] = CleanData /\ thread[th].result = "none"
      BY <1>0 DEF ThreadInv, ThreadOK
    <2>2. ThreadOK(thread'[th], tld'[th])
      BY <1>3, <1>6, <1>8, <2>1, DataTypes DEF ThreadOK
    <2>. QED
      BY <1>0, <1>8, <2>2 DEF ThreadInv
  <1>13. KeysInv'
    <2>1. thread'[th].result # "undecodable"
      BY <1>0, <1>6, <1>8 DEF ThreadInv, ThreadOK
    <2>. QED
      BY <1>0, <1>3, <1>6, <1>8, <1>9, <2>1 DEF KeysInv, HasNewest, NotNewer, PublishedKeysDecode
  <1>. QED
    BY <1>10, <1>11, <1>12, <1>13 DEF IInv

LEMMA AskProviderInv ==
    ASSUME IInv, NEW th \in Threads, get_auth_token_object(th) \/ get_auth_token_from_refresh_token(th)
    PROVE  IInv'
  <1>0. SignInTypeOK /\ ThreadInv /\ RefreshInv /\ KeysInv /\ 0 \in 0..MaxRefresh
    BY SignInConstants DEF IInv
  <1>1. thread[th] \in ThreadState /\ (thread[th].pc # "idle" => thread[th].browser \in Persons)
    BY <1>0 DEF SignInTypeOK, ThreadInv, ThreadOK
  <1>2. CASE get_auth_token_object(th)
    <2>1. known' \subseteq Persons /\ cache' \subseteq 1..MaxKeys
      BY <1>0, <1>1, <1>2 DEF get_auth_token_object, jwks_public_key_for_key_id, SignInTypeOK
    <2>. QED
      BY <1>0, <1>2, <2>1, IssueInv DEF get_auth_token_object
  <1>3. CASE get_auth_token_from_refresh_token(th)
    <2>. DEFINE r == thread[th]
    <2>1. r.pc = "renew" /\ r.read \in 0..MaxRefresh /\ known' \subseteq Persons /\ cache' \subseteq 1..MaxKeys
          /\ UNCHANGED <<served, cookie, known, verifier, refresh, cache>>
      BY <1>0, <1>1, <1>3 DEF get_auth_token_from_refresh_token, SignInTypeOK, ThreadState
    <2>2. CASE <<r.browser, r.read>> \in honoured
      BY <1>3, <2>1, <2>2, IssueInv DEF get_auth_token_from_refresh_token
    <2>3. CASE <<r.browser, r.read>> \notin honoured
      <3>1. PICK q : q = [r EXCEPT !.pc = "respond", !.result = "refused"]
        OBVIOUS
      <3>2. /\ q \in ThreadState /\ q.pc = "respond" /\ q.browser = r.browser
            /\ q.result = "refused" /\ q.token = r.token
        BY <1>1, <3>1 DEF ThreadState
      <3>3. /\ thread' = [thread EXCEPT ![th] = q] /\ tld' = [tld EXCEPT ![th] = LoggedOut]
            /\ UNCHANGED <<keys, honoured, issued, ended>>
        BY <1>3, <2>3, <3>1 DEF get_auth_token_from_refresh_token, set_user_has_logged_out, LoggedOut, provider
      <3>4. /\ thread' \in [Threads -> ThreadState] /\ thread'[th] = q
            /\ tld' \in [Threads -> LocalData] /\ tld'[th] = LoggedOut
            /\ \A o \in Threads \ {th} : thread'[o] = thread[o] /\ tld'[o] = tld[o]
        BY <1>0, <3>2, <3>3, DataTypes DEF SignInTypeOK
      <3>5. SignInTypeOK'
        BY <1>0, <2>1, <3>3, <3>4 DEF SignInTypeOK
      <3>6. ThreadInv'
        <4>1. ThreadOK(thread'[th], tld'[th])
          BY <1>1, <2>1, <3>2, <3>4, DataTypes DEF ThreadOK
        <4>. QED
          BY <1>0, <3>4, <4>1 DEF ThreadInv
      <3>7. KeysInv'
        BY <1>0, <2>1, <3>2, <3>3, <3>4, DataTypes DEF KeysInv, HasNewest, NotNewer, PublishedKeysDecode
      <3>8. RefreshInv'
        <4>1. \A o \in Threads : Pending(o)' <=> Pending(o)
          BY <2>1, <3>2, <3>4 DEF Pending
        <4>2. \A o \in Threads : thread'[o].pc = "renew" => thread'[o] = thread[o]
          BY <3>2, <3>4
        <4>3. \A o \in Threads : Pending(o) => thread'[o] = thread[o]
          BY <2>1, <3>4 DEF Pending
        <4>4. \A p \in Persons : refresh'[p] <= issued' /\ Covered(p)'
          BY <1>0, <2>1, <3>3, <4>1, <4>3 DEF RefreshInv, Covered
        <4>5. \A o \in Threads : Pending(o) => Own(o)'
          BY ZenonT(40), <1>0, <2>1, <4>1, <4>2, <4>3 DEF RefreshInv, Own
        <4>. QED
          BY <1>0, <3>3, <4>1, <4>2, <4>3, <4>4, <4>5 DEF RefreshInv
      <3>. QED
        BY <3>5, <3>6, <3>7, <3>8 DEF IInv
    <2>. QED
      BY <2>2, <2>3
  <1>. QED
    BY <1>2, <1>3

LEMMA StoreInv == ASSUME IInv, NEW th \in Threads, store_refresh_token(th) PROVE IInv'
  <1>. DEFINE r == thread[th]
  <1>0. SignInTypeOK /\ ThreadInv /\ RefreshInv /\ KeysInv
    BY DEF IInv
  <1>1. r \in ThreadState /\ r.pc = "store" /\ Pending(th)
    BY <1>0 DEF SignInTypeOK, store_refresh_token, Pending
  <1>2. r.token \in Tokens /\ r.token.user = r.browser /\ tld[th] = CleanData /\ r.browser \in Persons
    BY <1>0, <1>1 DEF ThreadInv, ThreadOK
  <1>3. PICK q : q = [r EXCEPT !.pc = "respond", !.result = "ok"]
    OBVIOUS
  <1>4. /\ q \in ThreadState /\ q.pc = "respond" /\ q.browser = r.browser
        /\ q.result = "ok" /\ q.token = r.token
    BY <1>1, <1>3 DEF ThreadState
  <1>5. PICK d : d = [access |-> r.token, out |-> FALSE]
    OBVIOUS
  <1>6. d \in LocalData /\ d.access = r.token
    BY <1>2, <1>5 DEF LocalData
  <1>7. [CleanData EXCEPT !.access = r.token] = d
    <2>1. ASSUME NEW a, NEW f
          PROVE  [[access |-> NoToken, out |-> f] EXCEPT !.access = a] = [access |-> a, out |-> f]
      OBVIOUS
    <2>. QED
      BY <1>5, <2>1 DEF CleanData
  <1>8. /\ thread' = [thread EXCEPT ![th] = q] /\ tld' = [tld EXCEPT ![th] = d]
        /\ refresh' = [refresh EXCEPT ![r.browser] = r.got]
        /\ UNCHANGED <<served, cookie, known, verifier, cache, keys, honoured, issued, ended>>
    BY <1>2, <1>3, <1>7 DEF store_refresh_token, provider
  <1>9. /\ thread' \in [Threads -> ThreadState] /\ thread'[th] = q
        /\ tld' \in [Threads -> LocalData] /\ tld'[th] = d
        /\ \A o \in Threads \ {th} : thread'[o] = thread[o] /\ tld'[o] = tld[o]
    BY <1>0, <1>4, <1>6, <1>8 DEF SignInTypeOK
  <1>10. /\ refresh' \in [Persons -> 0..MaxRefresh] /\ refresh'[r.browser] = r.got
         /\ \A p \in Persons \ {r.browser} : refresh'[p] = refresh[p]
    <2>1. r.got \in 0..MaxRefresh
      BY <1>1 DEF ThreadState
    <2>. HIDE DEF r
    <2>. QED
      BY <1>0, <1>2, <1>8, <2>1 DEF SignInTypeOK
  <1>11. SignInTypeOK'
    BY <1>0, <1>8, <1>9, <1>10 DEF SignInTypeOK
  <1>12. ThreadInv'
    <2>1. ThreadOK(thread'[th], tld'[th])
      BY <1>2, <1>4, <1>6, <1>9 DEF ThreadOK
    <2>. QED
      BY <1>0, <1>9, <2>1 DEF ThreadInv
  <1>13. KeysInv'
    BY <1>0, <1>4, <1>6, <1>8, <1>9 DEF KeysInv, HasNewest, NotNewer, PublishedKeysDecode
  <1>14. RefreshInv'
    <2>1. \A o \in Threads : Pending(o)' <=> Pending(o) /\ o # th
      BY <1>4, <1>9 DEF Pending
    <2>2. /\ r.got <= issued /\ Own(th)
          /\ r.browser \notin ended => <<r.browser, r.got>> \in honoured
      BY <1>0, <1>1 DEF RefreshInv
    <2>3. ASSUME NEW p \in Persons PROVE refresh'[p] <= issued' /\ Covered(p)'
      <3>1. CASE p = r.browser
        BY <1>8, <1>10, <2>2, <3>1 DEF Covered
      <3>2. CASE p # r.browser
        <4>1. refresh[p] <= issued /\ Covered(p) /\ refresh'[p] = refresh[p]
          BY <1>0, <1>10, <3>2 DEF RefreshInv
        <4>2. \A o \in Threads : Pending(o) /\ thread[o].browser = p => Pending(o)' /\ thread'[o].browser = p
          BY <1>9, <2>1, <3>2
        <4>. QED
          BY <1>8, <4>1, <4>2 DEF Covered
      <3>. QED
        BY <3>1, <3>2
    <2>4. ASSUME NEW o \in Threads, Pending(o)' PROVE Own(o)'
      <3>1. Own(o) /\ o # th /\ thread'[o] = thread[o] /\ Pending(o)
        BY <1>0, <1>9, <2>1, <2>4 DEF RefreshInv
      <3>2. \A p \in Persons : thread[o].got # refresh'[p]
        <4>1. thread[o].got # r.got
          BY <2>2, <3>1 DEF Own
        <4>. QED
          BY <1>10, <3>1, <4>1 DEF Own
      <3>3. \A x \in Threads : thread'[x].pc = "renew" => thread'[x] = thread[x]
        BY <1>4, <1>9
      <3>4. \A x \in Threads \ {o} : Pending(x)' => thread'[x].got # thread[o].got
        BY <1>9, <2>1, <3>1 DEF Own
      <3>. QED
        BY <3>1, <3>2, <3>3, <3>4 DEF Own
    <2>5. \A o \in Threads : thread'[o].pc = "renew" => thread'[o].read <= issued' /\ thread'[o].read # 0
      BY <1>0, <1>4, <1>8, <1>9 DEF RefreshInv
    <2>. QED
      BY <1>0, <1>8, <1>9, <2>1, <2>3, <2>4, <2>5 DEF RefreshInv
  <1>. QED
    BY <1>11, <1>12, <1>13, <1>14 DEF IInv

LEMMA RespondInv == ASSUME IInv, NEW th \in Threads, set_new_access_token_in_cookie(th) PROVE IInv'
  <1>0. SignInTypeOK /\ ThreadInv /\ RefreshInv /\ KeysInv
    BY DEF IInv
  <1>1. thread[th].pc = "respond" /\ thread[th].browser \in Persons /\ tld[th].access \in Tokens \cup {NoToken}
    BY <1>0 DEF set_new_access_token_in_cookie, ThreadInv, ThreadOK, SignInTypeOK, LocalData
  <1>2. Rest \in ThreadState /\ Rest.pc = "idle" /\ Rest.token = NoToken /\ Rest.result = "none"
    BY SignInConstants DEF Rest, ThreadState
  <1>3. PICK c \in Tokens \cup {NoToken} :
           /\ c \in {NoToken, tld[th].access, cookie[thread[th].browser]}
           /\ cookie' = [cookie EXCEPT ![thread[th].browser] = c]
    BY <1>0, <1>1 DEF set_new_access_token_in_cookie, SignInTypeOK
  <1>4. /\ thread' = [thread EXCEPT ![th] = Rest] /\ tld' = [tld EXCEPT ![th] = CleanData]
        /\ UNCHANGED <<served, known, verifier, refresh, cache, keys, honoured, issued, ended>>
    BY DEF set_new_access_token_in_cookie, clear_auth_tokens_from_thread_local_data, provider
  <1>5. /\ thread' \in [Threads -> ThreadState] /\ thread'[th] = Rest
        /\ tld' \in [Threads -> LocalData] /\ tld'[th] = CleanData
        /\ \A o \in Threads \ {th} : thread'[o] = thread[o] /\ tld'[o] = tld[o]
    BY <1>0, <1>2, <1>4, DataTypes DEF SignInTypeOK
  <1>6. cookie' \in [Persons -> Tokens \cup {NoToken}]
    BY <1>0, <1>3 DEF SignInTypeOK
  <1>7. SignInTypeOK'
    BY <1>0, <1>4, <1>5, <1>6 DEF SignInTypeOK
  <1>8. ThreadInv'
    <2>1. ThreadOK(thread'[th], tld'[th])
      BY <1>2, <1>5, DataTypes DEF ThreadOK
    <2>. QED
      BY <1>0, <1>5, <2>1 DEF ThreadInv
  <1>9. KeysInv'
    <2>1. \A t : NotNewer(t)' <=> NotNewer(t)
      BY <1>4 DEF NotNewer
    <2>2. NotNewer(c) /\ NotNewer(NoToken)
      BY <1>0, <1>1, <1>3 DEF KeysInv, NotNewer
    <2>3. \A p \in Persons : NotNewer(cookie'[p])
      BY <1>0, <1>1, <1>3, <2>2 DEF KeysInv, SignInTypeOK
    <2>4. \A o \in Threads : NotNewer(thread'[o].token) /\ NotNewer(tld'[o].access)
      BY <1>0, <1>2, <1>5, <2>2, DataTypes DEF KeysInv
    <2>. QED
      BY <1>0, <1>2, <1>4, <1>5, <2>1, <2>3, <2>4 DEF KeysInv, HasNewest, PublishedKeysDecode
  <1>10. RefreshInv'
    <2>1. \A o \in Threads : Pending(o)' <=> Pending(o)
      BY <1>1, <1>2, <1>5 DEF Pending
    <2>2. \A o \in Threads : thread'[o].pc = "renew" => thread'[o] = thread[o]
      BY <1>2, <1>5
    <2>3. \A o \in Threads : Pending(o) => thread'[o] = thread[o]
      BY <1>1, <1>5 DEF Pending
    <2>4. \A p \in Persons : refresh'[p] <= issued' /\ Covered(p)'
      BY <1>0, <1>4, <2>1, <2>3 DEF RefreshInv, Covered
    <2>5. \A o \in Threads : Pending(o) => Own(o)'
      BY ZenonT(40), <1>0, <1>4, <2>1, <2>2, <2>3 DEF RefreshInv, Own
    <2>. QED
      BY <1>0, <1>4, <2>1, <2>2, <2>3, <2>4, <2>5 DEF RefreshInv
  <1>. QED
    BY <1>7, <1>8, <1>9, <1>10 DEF IInv

-----------------------------------------------------------------------------
(* The invariant and the results *)

LEMMA InitInv == SignInInit => IInv
  <1>. SUFFICES ASSUME SignInInit PROVE IInv
    OBVIOUS
  <1>1. Rest \in ThreadState /\ Rest.pc = "idle" /\ Rest.token = NoToken /\ Rest.result = "none"
    BY SignInConstants DEF Rest, ThreadState
  <1>2. SignInTypeOK
    BY <1>1, SignInConstants, DataTypes DEF SignInInit, SignInTypeOK
  <1>3. ThreadInv
    BY <1>1, DataTypes DEF SignInInit, ThreadInv, ThreadOK
  <1>4. RefreshInv
    BY <1>1 DEF SignInInit, RefreshInv, Covered, Pending
  <1>5. KeysInv
    BY <1>1, DataTypes DEF SignInInit, KeysInv, HasNewest, NotNewer, PublishedKeysDecode
  <1>. QED
    BY <1>2, <1>3, <1>4, <1>5 DEF IInv

LEMMA NextInv == ASSUME IInv, [SignInNext]_siVars PROVE IInv'
  <1>1. CASE UNCHANGED siVars
    BY <1>1 DEF siVars, IInv, SignInTypeOK, ThreadInv, RefreshInv, Covered, Pending, Own, KeysInv, HasNewest,
         NotNewer, PublishedKeysDecode
  <1>. QED
    BY <1>1, ExpireInv, RotateKeyInv, EndSessionInv, VerifyInv, OtherRequests, AskProviderInv, StoreInv,
       RespondInv DEF SignInNext

(* The invariant in every behaviour: everything below rests on it. *)
THEOREM Invariant == SignInSpec => []IInv
  BY InitInv, NextInv, PTL DEF SignInSpec

(* Nobody's token ends up in somebody else's cookie, no session is lost to *)
(* a race for the refresh token, and no published key fails to decode: for *)
(* any number of browsers and threads, whether or not the provider rotates *)
(* refresh tokens.                                                         *)
THEOREM SignInIsSound == SignInSpec => []SignInSound
  <1>1. IInv => SignInSound
    <2>. SUFFICES ASSUME IInv PROVE SignInSound
      OBVIOUS
    <2>1. SignInTypeOK /\ TokensStayWithTheirRequest /\ PublishedKeysDecode
      BY DEF IInv, ThreadInv, ThreadOK, KeysInv, TokensStayWithTheirRequest
    <2>2. StoredRefreshHonoured
      BY DEF IInv, RefreshInv, Covered, Pending, StoredRefreshHonoured
    <2>. QED
      BY <2>1, <2>2 DEF SignInSound
  <1>. QED
    BY <1>1, Invariant, PTL

-----------------------------------------------------------------------------
(* Permissions: paths, targets and what they reach *)

(* Of paths, element by element. *)
LEMMA PrefixIs ==
    ASSUME NEW s \in Seq(Words), NEW t \in Seq(Words)
    PROVE  IsPrefix(s, t) <=> Len(s) <= Len(t) /\ \A i \in 1..Len(s) : s[i] = t[i]
<1>1. Len(s) \in Nat /\ Len(t) \in Nat
    OBVIOUS
<1>2. CASE ~(Len(s) <= Len(t))
    BY <1>2 DEF IsPrefix
<1>3. CASE Len(s) <= Len(t)
    <2>1. SubSeq(s, 1, Len(s)) \in Seq(Words) /\ Len(SubSeq(s, 1, Len(s))) = Len(s)
          /\ \A i \in 1..Len(s) : SubSeq(s, 1, Len(s))[i] = s[i]
        BY <1>1
    <2>2. SubSeq(t, 1, Len(s)) \in Seq(Words) /\ Len(SubSeq(t, 1, Len(s))) = Len(s)
          /\ \A i \in 1..Len(s) : SubSeq(t, 1, Len(s))[i] = t[i]
        BY <1>1, <1>3
    <2>3. SubSeq(s, 1, Len(s)) = SubSeq(t, 1, Len(s)) <=> \A i \in 1..Len(s) : s[i] = t[i]
        BY <2>1, <2>2, SeqEqual
    <2> QED BY <1>3, <2>3 DEF IsPrefix
<1> QED BY <1>2, <1>3

(* A path cut short. *)
LEMMA CutIs ==
    ASSUME NEW s \in Seq(Words), NEW n \in 0..Len(s)
    PROVE  /\ SubSeq(s, 1, n) \in Seq(Words) /\ Len(SubSeq(s, 1, n)) = n
           /\ \A i \in 1..n : SubSeq(s, 1, n)[i] = s[i]
OBVIOUS

(* A path without its last word. *)
LEMMA FrontIs ==
    ASSUME NEW s \in Seq(Words), s # <<>>
    PROVE  /\ Len(s) \in Nat \ {0}
           /\ Front(s) \in Seq(Words) /\ Len(Front(s)) = Len(s) - 1
           /\ \A i \in 1..(Len(s) - 1) : Front(s)[i] = s[i]
<1>1. Len(s) \in Nat \ {0}
    OBVIOUS
<1>2. Len(s) - 1 \in 0..Len(s)
    BY <1>1
<1> QED BY <1>1, <1>2, CutIs DEF Front

(* Equal paths. *)
LEMMA SamePath ==
    ASSUME NEW s \in Seq(Words), NEW t \in Seq(Words)
    PROVE  s = t <=> Len(s) = Len(t) /\ \A i \in 1..Len(s) : s[i] = t[i]
BY SeqEqual

Delimited(t) == Len(t) > 1 /\ t[Len(t) - 1] \in {"/", ":"}
(* What a target reaches: itself, what is below a wildcard, and what the   *)
(* wildcard is put on.                                                     *)
Reaches(t, x) ==
    \/ x = t
    \/ Wildcard(t) /\ IsPrefix(Front(t), x)
    \/ Wildcard(t) /\ Delimited(t) /\ x = SubSeq(t, 1, Len(t) - 2)

Targets == {t \in Seq(Words) : t # <<>> /\ WellFormed(t)}

(* What has_permission does in SQL: some target of the permission reaches  *)
(* the path, and every one that does permits it.                           *)
LEMMA ServerMatches ==
    ASSUME NEW rs, \A r \in rs : r.target \in Targets, NEW p, NEW x \in Seq(Words)
    PROVE  has_permission(rs, p, x) <=>
              /\ \E r \in rs : r.perm = p /\ Reaches(r.target, x)
              /\ \A r \in rs : r.perm = p /\ Reaches(r.target, x) => r.grant = "permit"
<1> DEFINE like(t) == IF Wildcard(t) THEN IsPrefix(Front(t), x) ELSE x = t
           bare(t) == IF Wildcard(t) /\ Len(t) > 1 /\ t[Len(t) - 1] \in {"/", ":"}
                      THEN SubSeq(t, 1, Len(t) - 2) ELSE t
           matching == {r \in rs : r.perm = p /\ (like(r.target) \/ bare(r.target) = x)}
<1>1. has_permission(rs, p, x) <=> matching # {} /\ \A r \in matching : r.grant = "permit"
    BY DEF has_permission
<1>2. ASSUME NEW t \in Targets PROVE (like(t) \/ bare(t) = x) <=> Reaches(t, x)
    <2>0. t \in Seq(Words) /\ t # <<>>
        BY DEF Targets
    <2>1. IsPrefix(Front(t), t)
        <3>1. /\ Len(t) \in Nat \ {0}
              /\ Front(t) \in Seq(Words) /\ Len(Front(t)) = Len(t) - 1
              /\ \A i \in 1..(Len(t) - 1) : Front(t)[i] = t[i]
            BY <2>0, FrontIs
        <3>2. Len(Front(t)) <= Len(t) /\ \A i \in 1..Len(Front(t)) : Front(t)[i] = t[i]
            BY <3>1
        <3> QED BY <2>0, <3>1, <3>2, PrefixIs
    <2> QED BY <2>1 DEF Reaches, Delimited
<1> HIDE DEF like, bare
<1>3. \A r \in rs : r \in matching <=> r.perm = p /\ Reaches(r.target, x)
    BY <1>2
<1> QED BY <1>1, <1>3

(* The target without its wildcard, as both lists and checks compute it. *)
LEMMA UnwildIs ==
    ASSUME NEW t \in Targets, Wildcard(t)
    PROVE  Unwild(t) = IF Delimited(t) THEN SubSeq(t, 1, Len(t) - 2) ELSE Front(t)
<1>0. t \in Seq(Words) /\ t # <<>> /\ WellFormed(t)
    BY DEF Targets
<1> DEFINE n == Len(t)
           f == Front(t)
<1>1. n \in Nat \ {0} /\ f \in Seq(Words) /\ Len(f) = n - 1 /\ \A i \in 1..(n - 1) : f[i] = t[i]
    BY <1>0, FrontIs
<1> DEFINE drop(s, c) == IF s # <<>> /\ Last(s) = c THEN Front(s) ELSE s
<1>2. Unwild(t) = drop(drop(f, ":"), "/")
    BY DEF Unwild
<1>3. CASE ~Delimited(t)
    <2>1. f # <<>> => Last(f) \notin {"/", ":"}
        BY <1>1, <1>3 DEF Delimited, Last
    <2> QED BY <2>1, <1>2, <1>3
<1>4. CASE Delimited(t)
    <2>1. f # <<>> /\ Last(f) = t[n - 1] /\ n > 1
        BY <1>1, <1>4 DEF Delimited, Last
    <2>2. Front(f) \in Seq(Words) /\ Len(Front(f)) = n - 2 /\ \A i \in 1..(n - 2) : Front(f)[i] = f[i]
        BY <1>1, <2>1, FrontIs
    <2>3. Front(f) = SubSeq(t, 1, n - 2)
        <3>1. n - 2 \in 0..Len(t)
            BY <1>1, <2>1
        <3>2. SubSeq(t, 1, n - 2) \in Seq(Words) /\ Len(SubSeq(t, 1, n - 2)) = n - 2
              /\ \A i \in 1..(n - 2) : SubSeq(t, 1, n - 2)[i] = t[i]
            BY <1>0, <3>1, CutIs
        <3>3. \A i \in 1..(n - 2) : i \in 1..(n - 1)
            BY <1>1
        <3> HIDE DEF f, n
        <3> QED BY <1>1, <2>2, <3>2, <3>3, SamePath
    <2>4. CASE t[n - 1] = "/"
        BY <1>2, <1>4, <2>1, <2>3, <2>4
    <2>5. CASE t[n - 1] = ":"
        <3>1. ASSUME Front(f) # <<>> PROVE Last(Front(f)) # "/"
            <4>1. n > 2
                BY <2>2, <3>1, <1>1
            <4>2. Last(Front(f)) = t[n - 2]
                BY <2>2, <4>1, <1>1 DEF Last
            <4> QED BY <1>0, <2>5, <4>1, <4>2 DEF WellFormed
        <3>2. drop(drop(f, ":"), "/") = Front(f)
            BY <2>1, <2>5, <3>1
        <3> QED BY <1>2, <1>4, <2>3, <3>2
    <2> QED BY <1>4, <2>4, <2>5 DEF Delimited
<1> QED BY <1>3, <1>4

(* And what target_uri_matches_actual_uri does in Python is the same. *)
LEMMA ClientMatches ==
    ASSUME NEW t \in Targets, NEW x \in Seq(Words)
    PROVE  target_uri_matches_actual_uri(t, x) <=> Reaches(t, x)
<1>1. CASE ~Wildcard(t)
    BY <1>1 DEF target_uri_matches_actual_uri, Reaches
<1>2. CASE Wildcard(t)
    <2>1. target_uri_matches_actual_uri(t, x) <=> x = Unwild(t) \/ IsPrefix(Front(t), x)
        BY <1>2 DEF target_uri_matches_actual_uri, Unwild
    <2>2. t \in Seq(Words) /\ t # <<>>
        BY DEF Targets
    <2>3. /\ Len(t) \in Nat \ {0} /\ Front(t) \in Seq(Words) /\ Len(Front(t)) = Len(t) - 1
          /\ \A i \in 1..(Len(t) - 1) : Front(t)[i] = t[i]
        BY <2>2, FrontIs
    <2>4. IsPrefix(Front(t), t)
        <3>1. Len(Front(t)) <= Len(t) /\ \A i \in 1..Len(Front(t)) : Front(t)[i] = t[i]
            BY <2>3
        <3> QED BY <2>2, <2>3, <3>1, PrefixIs
    <2>5. IsPrefix(Front(t), Front(t))
        <3>1. Len(Front(t)) <= Len(Front(t))
            BY <2>3
        <3> QED BY <2>3, <3>1, PrefixIs
    <2> QED BY <1>2, <2>1, <2>4, <2>5, UnwildIs DEF Reaches
<1> QED BY <1>1, <1>2

-----------------------------------------------------------------------------
(* The entries of a file and their targets *)

Rows == [who : Teams \cup {Service}, perm : Crud, target : Targets, grant : {"permit", "deny"}]

(* The words the code itself puts in paths. *)
LEMMA WordsAre ==
    /\ "/" \in Words /\ ":" \in Words /\ "%" \in Words /\ "process-groups" \in Words
    /\ "process-models" \in Words /\ "process-instance-run" \in Words /\ "logs" \in Words
    /\ "task-data" \in Words /\ "tasks" \in Words /\ "process-instances" \in Words
    /\ "service-accounts" \in Words /\ "secrets" \in Words /\ "random" \in Words
BY AccessConstants

(* What AccessConstants says of one configuration. *)
LEMMA ConfigurationIs ==
    ASSUME NEW c \in Configurations
    PROVE  /\ c.users \subseteq (People \ {Service}) \X Teams /\ c.perms \in Seq(Entries)
           /\ \A i \in DOMAIN c.perms :
                 /\ c.perms[i] \in Entries /\ c.perms[i].target \in Seq(Words) /\ c.perms[i].target # <<>>
                 /\ \/ Named(c.perms[i].target) \/ Macro(c.perms[i].target)
                    \/ c.perms[i].target[1] = "/" /\ WellFormed(c.perms[i].target)
                 /\ c.perms[i].set = "start" => Named(c.perms[i].target)
<1>1. c \in [users : SUBSET ((People \ {Service}) \X Teams), perms : Seq(Entries)]
    BY AccessConstants
<1>2. c.users \subseteq (People \ {Service}) \X Teams /\ c.perms \in Seq(Entries)
    BY <1>1
<1>3. \A i \in DOMAIN c.perms : c.perms[i] \in Entries
    BY <1>2, ElementOfSeq
<1>4. \A i \in DOMAIN c.perms : c.perms[i].target \in Seq(Words)
    BY <1>3 DEF Entries
<1> QED BY <1>2, <1>3, <1>4, AccessConstants

(* Macros make well-formed targets. *)
Segment(seg) ==
    /\ seg \in Seq(Words) /\ Len(seg) > 0 /\ seg[1] # "random"
    /\ seg = <<"%">> \/ \E m \in Nat \ {0, 1, 2} : /\ Len(seg) = m /\ seg[m] = "%" /\ seg[m - 1] \in {":", "/"}
                                               /\ seg[m - 2] # "/"
(* A path with such a segment at its end is well-formed. *)
LEMMA UnderIs ==
    ASSUME NEW path \in Words, NEW seg, Segment(seg),
           path = "process-groups" => seg = <<"%">> \/ seg[Len(seg) - 1] = ":"
    PROVE  Under(path, seg) \in Targets
<1> DEFINE t == Under(path, seg)
           h == <<"/", path, "/">>
<1>1. seg \in Seq(Words) /\ Len(seg) \in Nat \ {0} /\ h \in Seq(Words) /\ Len(h) = 3
      /\ h[1] = "/" /\ h[2] = path /\ h[3] = "/"
    BY WordsAre DEF Segment
<1>2. t = h \o seg
    BY DEF Under
<1> HIDE DEF t, h
<1>3. /\ t \in Seq(Words) /\ Len(t) = 3 + Len(seg) /\ t[1] = "/" /\ t[2] = path /\ t[3] = "/"
      /\ \A i \in 1..Len(seg) : t[3 + i] = seg[i]
    <2>1. /\ h \o seg \in Seq(Words) /\ Len(h \o seg) = Len(h) + Len(seg)
          /\ \A i \in 1..Len(h) + Len(seg) : (h \o seg)[i] = IF i <= Len(h) THEN h[i] ELSE seg[i - Len(h)]
        BY <1>1, ConcatProperties
    <2>2. /\ t \in Seq(Words) /\ Len(t) = 3 + Len(seg)
          /\ \A i \in 1..3 + Len(seg) : t[i] = IF i <= 3 THEN h[i] ELSE seg[i - 3]
        BY <2>1, <1>1, <1>2
    <2>3. t[1] = h[1] /\ t[2] = h[2] /\ t[3] = h[3]
        BY <1>1, <2>2
    <2>4. ASSUME NEW i \in 1..Len(seg) PROVE t[3 + i] = seg[i]
        <3>1. 3 + i \in 1..3 + Len(seg) /\ ~(3 + i <= 3) /\ (3 + i) - 3 = i
            BY <1>1
        <3> QED BY <3>1, <2>2
    <2> QED BY <2>2, <2>3, <2>4, <1>1
<1>4. t # <<>> /\ Last(t) = seg[Len(seg)]
    <2>1. Last(t) = t[3 + Len(seg)]
        BY <1>3 DEF Last
    <2> QED BY <1>1, <1>3, <2>1
<1>5. t[4] # "random"
    <2>1. t[3 + 1] = seg[1]
        BY <1>1, <1>3
    <2> QED BY <2>1 DEF Segment
<1>6. Len(seg) # 1 => /\ Len(seg) > 2 /\ t[Len(t) - 1] = seg[Len(seg) - 1] /\ t[Len(t) - 2] = seg[Len(seg) - 2]
                      /\ seg[Len(seg) - 2] # "/"
    <2> SUFFICES ASSUME Len(seg) # 1
                 PROVE /\ Len(seg) > 2 /\ t[Len(t) - 1] = seg[Len(seg) - 1] /\ t[Len(t) - 2] = seg[Len(seg) - 2]
                       /\ seg[Len(seg) - 2] # "/"
        OBVIOUS
    <2>1. Len(seg) > 2 /\ seg[Len(seg) - 2] # "/"
        BY DEF Segment
    <2>2. Len(seg) - 1 \in 1..Len(seg) /\ Len(seg) - 2 \in 1..Len(seg)
        BY <2>1, <1>1
    <2>3. t[3 + (Len(seg) - 1)] = seg[Len(seg) - 1] /\ t[3 + (Len(seg) - 2)] = seg[Len(seg) - 2]
        BY <2>2, <1>3
    <2>4. 3 + (Len(seg) - 1) = Len(t) - 1 /\ 3 + (Len(seg) - 2) = Len(t) - 2
        BY <1>1, <1>3
    <2> QED BY <2>1, <2>3, <2>4
<1>7. Len(seg) = 1 => t[Len(t) - 1] = "/" /\ Len(t) = 4
    BY <1>3
<1>8. SubSeq(t, 1, 3) = GroupsPath => path = "process-groups"
    <2>1. SubSeq(t, 1, 3)[2] = t[2]
        BY <1>1, <1>3
    <2>2. GroupsPath[2] = "process-groups"
        BY DEF GroupsPath
    <2> QED BY <1>3, <2>1, <2>2
<1>9. path = "process-groups" /\ Len(seg) # 1 => t[Len(t) - 1] = ":"
    BY <1>6
<1>10. Len(t) > 2 /\ t[Len(t) - 1] = ":" => t[Len(t) - 2] # "/"
    BY <1>6, <1>7
<1>11. Len(t) > 4 /\ SubSeq(t, 1, 3) = GroupsPath => t[Len(t) - 1] = ":"
    <2>1. Len(t) > 4 => Len(seg) # 1
        BY <1>1, <1>3
    <2> QED BY <2>1, <1>8, <1>9
<1>12. WellFormed(t)
    BY <1>5, <1>10, <1>11 DEF WellFormed
<1> QED BY <1>3, <1>4, <1>12 DEF t, Targets

(* The identifier of a group or a model, its delimiter and a wildcard make *)
(* such a segment.                                                         *)
LEMMA SegmentIs ==
    ASSUME NEW id \in Seq(Words), id # <<>>, id[1] # "random", Last(id) # "/", NEW d \in {":", "/"}
    PROVE  Segment(id \o <<d, "%">>) /\ Len(id \o <<d, "%">>) > 2
           /\ (id \o <<d, "%">>)[Len(id \o <<d, "%">>) - 1] = d
<1> DEFINE e == <<d, "%">>
           s == id \o e
<1>1. e \in Seq(Words) /\ Len(e) = 2 /\ e[1] = d /\ e[2] = "%" /\ Len(id) \in Nat \ {0}
    BY WordsAre
<1> HIDE DEF e
<1>2. /\ s \in Seq(Words) /\ Len(s) = Len(id) + Len(e)
      /\ \A i \in 1..Len(id) + Len(e) : s[i] = IF i <= Len(id) THEN id[i] ELSE e[i - Len(id)]
    BY <1>1, ConcatProperties
<1> HIDE DEF s
<1>3. Len(s) = Len(id) + 2 /\ s[Len(id) + 1] = d /\ s[Len(id) + 2] = "%" /\ s[1] = id[1]
      /\ s[Len(id)] = id[Len(id)]
    <2>1. s[Len(id) + 1] = e[(Len(id) + 1) - Len(id)] /\ s[Len(id) + 2] = e[(Len(id) + 2) - Len(id)]
        BY <1>1, <1>2
    <2> QED BY <1>1, <1>2, <2>1
<1>4. Len(s) \in Nat \ {0, 1, 2} /\ s[Len(s)] = "%" /\ s[Len(s) - 1] = d /\ s[Len(s) - 2] # "/"
    BY <1>1, <1>3 DEF Last
<1>5. Segment(s)
    BY SMTT(30), <1>1, <1>2, <1>3, <1>4 DEF Segment
<1> QED BY <1>4, <1>5 DEF s, e

(* The targets that the macros name in full. *)
LEMMA FixedTargets ==
    /\ <<"/", "process-groups">> \in Targets /\ <<"/", "tasks", "/", "%">> \in Targets
    /\ <<"/", "process-instance-run", "/", "%">> \in Targets
    /\ <<"/", "process-instances", "/", "%">> \in Targets /\ <<"/", "service-accounts">> \in Targets
    /\ <<"/", "secrets", "/", "%">> \in Targets /\ <<"/", "%">> \in Targets
<1>1. ASSUME NEW w \in Words, w # "%" PROVE <<"/", w>> \in Targets
    BY <1>1, WordsAre DEF Targets, WellFormed, Wildcard, Last
<1>2. ASSUME NEW w \in Words PROVE <<"/", w, "/", "%">> \in Targets
    BY WordsAre DEF Targets, WellFormed, Wildcard, Last
<1>3. <<"/", "%">> \in Targets
    BY WordsAre DEF Targets, WellFormed, Wildcard, Last
<1> QED BY <1>1, <1>2, <1>3, WordsAre

Permissions == Crud \X Targets

(* Macros for a group or a model give permissions on well-formed targets, *)
LEMMA SegmentsGive ==
    ASSUME NEW set \in Crud \cup {"all", "start"}, NEW seg, Segment(seg), NEW uris \in SUBSET Targets
    PROVE  get_permissions_to_assign(set, seg, uris) \subseteq Permissions
<1>1. /\ Under("process-instance-run", seg) \in Targets /\ Under("logs", seg) \in Targets
      /\ Under("task-data", seg) \in Targets
    BY UnderIs, WordsAre
<1>2. "create" \in Crud /\ "read" \in Crud /\ "update" \in Crud
    BY DEF Crud
<1>3. CASE set = "start"
    BY <1>1, <1>2, <1>3 DEF get_permissions_to_assign, Permissions
<1>4. CASE set = "all"
    BY <1>1, <1>2, <1>4 DEF get_permissions_to_assign, Permissions
<1>5. CASE set \in Crud
    <2>1. set # "start" /\ set # "all"
        BY <1>5 DEF Crud
    <2> QED BY <1>5, <2>1 DEF get_permissions_to_assign, Permissions
<1> QED BY <1>3, <1>4, <1>5

(* and so does every entry of a configuration. *)
LEMMA EntriesGive ==
    ASSUME NEW c \in Configurations, NEW i \in DOMAIN c.perms
    PROVE  explode_permissions(c.perms[i].set, c.perms[i].target) \subseteq Permissions
<1> DEFINE set == c.perms[i].set
           t == c.perms[i].target
<1>1. /\ set \in Crud \cup {"all", "start"} /\ t \in Seq(Words) /\ t # <<>>
      /\ Named(t) \/ Macro(t) \/ (t[1] = "/" /\ WellFormed(t))
      /\ set = "start" => Named(t)
    BY ConfigurationIs DEF Entries
<1> HIDE DEF set, t
<1>2. CASE Named(t)
    <2> DEFINE id == Tail(t)
    <2>1. id \in Seq(Words) /\ id # <<>> /\ id[1] # "random" /\ Last(id) # "/"
        <3>1. Len(t) \in Nat /\ Len(t) > 1 /\ t[2] # "random" /\ t[Len(t)] # "/"
            BY <1>1, <1>2 DEF Named, Last
        <3>2. id \in Seq(Words) /\ Len(id) = Len(t) - 1 /\ \A k \in 1..(Len(t) - 1) : id[k] = t[k + 1]
            BY <1>1, <3>1, HeadTailProperties
        <3>3. id[1] = t[2] /\ id[Len(t) - 1] = t[Len(t)]
            BY <3>1, <3>2
        <3> QED BY <3>1, <3>2, <3>3 DEF Last
    <2> HIDE DEF id
    <2>2. Segment(<<"%">>)
        BY WordsAre DEF Segment
    <2>3. CASE t[1] = "PG:"
        <3> DEFINE seg == IF id = <<"ALL">> THEN <<"%">> ELSE id \o <<":", "%">>
        <3>1. Segment(seg) /\ (seg = <<"%">> \/ seg[Len(seg) - 1] = ":")
            BY <2>1, <2>2, SegmentIs
        <3> HIDE DEF seg
        <3>2. Under("process-groups", seg) \in Targets /\ Under("process-models", seg) \in Targets
            BY <3>1, UnderIs, WordsAre
        <3>3. explode_permissions(set, t) =
                get_permissions_to_assign(set, seg, {Under("process-groups", seg), Under("process-models", seg)})
            BY <2>3 DEF explode_permissions, set_process_group_permissions, seg, id
        <3>4. get_permissions_to_assign(
                  set, seg, {Under("process-groups", seg), Under("process-models", seg)}) \subseteq Permissions
            BY <1>1, <3>1, <3>2, SegmentsGive
        <3> QED BY <3>3, <3>4 DEF set, t
    <2>4. CASE t[1] = "PM:"
        <3> DEFINE seg == IF id = <<"ALL">> THEN <<"%">> ELSE id \o <<"/", "%">>
        <3>1. Segment(seg)
            BY <2>1, <2>2, SegmentIs
        <3> HIDE DEF seg
        <3>2. Under("process-models", seg) \in Targets
            BY <3>1, UnderIs, WordsAre
        <3>3. explode_permissions(set, t) = get_permissions_to_assign(set, seg, {Under("process-models", seg)})
            BY <2>4 DEF explode_permissions, set_process_model_permissions, seg, id
        <3>4. get_permissions_to_assign(set, seg, {Under("process-models", seg)}) \subseteq Permissions
            BY <1>1, <3>1, <3>2, SegmentsGive
        <3> QED BY <3>3, <3>4 DEF set, t
    <2> QED BY <1>2, <2>3, <2>4 DEF Named
<1>3. "create" \in Crud /\ "read" \in Crud
    BY DEF Crud
<1>4. CASE Macro(t)
    <2>1. set_basic_permissions \subseteq Permissions
        BY <1>3, FixedTargets DEF set_basic_permissions, Permissions
    <2>2. set_support_permissions \subseteq Permissions
        BY <1>3, <2>1, FixedTargets DEF set_support_permissions, Permissions
    <2>3. set_elevated_permissions \subseteq Permissions
        BY <1>3, <2>2, FixedTargets DEF set_elevated_permissions, Permissions
    <2>4. CASE t[1] = "ALL"
        <3>1. set # "start"
            BY <1>1, <2>4 DEF Named
        <3>2. explode_permissions(set, t) = (IF set = "all" THEN Crud ELSE {set}) \X {<<"/", "%">>}
            BY <2>4 DEF explode_permissions
        <3> QED BY <1>1, <3>1, <3>2, FixedTargets DEF Permissions, set, t
    <2>5. CASE t[1] # "ALL"
        <3>1. explode_permissions(set, t) \in
                {set_basic_permissions, set_support_permissions, set_elevated_permissions}
            BY <1>4, <2>5 DEF explode_permissions, Macro
        <3> QED BY <2>1, <2>2, <2>3, <3>1 DEF set, t
    <2> QED BY <2>4, <2>5
<1>5. CASE t[1] = "/" /\ WellFormed(t)
    <2>1. set # "start"
        BY <1>1, <1>5 DEF Named
    <2>2. t \in Targets
        BY <1>1, <1>5 DEF Targets
    <2>3. explode_permissions(set, t) = (IF set = "all" THEN Crud ELSE {set}) \X {t}
        BY <1>5 DEF explode_permissions
    <2> QED BY <1>1, <2>1, <2>2, <2>3 DEF Permissions, set, t
<1> QED BY <1>1, <1>2, <1>4, <1>5

Grant(e) == IF e.deny THEN "deny" ELSE "permit"
(* The rows of an entry are its team's, and all of them permit or deny. *)
LEMMA RowsAre ==
    ASSUME NEW c \in Configurations, NEW i \in DOMAIN c.perms, NEW r \in RowsOf(c.perms[i])
    PROVE  r \in Rows /\ r.who = c.perms[i].team /\ r.who \in Teams /\ r.grant = Grant(c.perms[i])
<1>1. PICK p \in explode_permissions(c.perms[i].set, c.perms[i].target) :
         r = [who |-> c.perms[i].team, perm |-> p[1], target |-> p[2], grant |-> Grant(c.perms[i])]
    BY DEF RowsOf, Grant
<1>2. p[1] \in Crud /\ p[2] \in Targets
    BY EntriesGive DEF Permissions
<1>3. c.perms[i].team \in Teams
    BY ConfigurationIs DEF Entries
<1> QED BY <1>1, <1>2, <1>3 DEF Rows, Grant

-----------------------------------------------------------------------------
(* What the server answers, and what the frontend is told *)

(* Where the server says yes. *)
LEMMA Permits ==
    ASSUME grants \subseteq Rows, NEW u, NEW p, NEW x \in Seq(Words)
    PROVE  /\ check_permission_for_request(u, p, x) <=> user_has_permission(u, p, x)
           /\ user_has_permission(u, p, x) <=>
              /\ \E r \in all_permission_assignments_for_user(u) : r.perm = p /\ Reaches(r.target, x)
              /\ \A r \in all_permission_assignments_for_user(u) :
                    r.perm = p /\ Reaches(r.target, x) => r.grant = "permit"
<1>1. all_permission_assignments_for_user(u) \subseteq Rows
    BY DEF all_permission_assignments_for_user
<1> DEFINE mine == all_permission_assignments_for_user(u)
<1> HIDE DEF mine
<1>2. \A r \in mine : r.target \in Targets
    BY <1>1 DEF Rows, mine
<1>3. has_permission(mine, p, x) <=>
              /\ \E r \in mine : r.perm = p /\ Reaches(r.target, x)
              /\ \A r \in mine : r.perm = p /\ Reaches(r.target, x) => r.grant = "permit"
    BY <1>2, ServerMatches
<1> QED BY <1>3 DEF check_permission_for_request, user_has_permission, mine

(* And the frontend is told so. *)
LEMMA SameAnswer ==
    ASSUME grants \subseteq Rows, NEW u, NEW p, NEW x \in Seq(Words)
    PROVE  permission_assignments_include(all_permission_assignments_for_user(u), p, x)
              <=> check_permission_for_request(u, p, x)
<1> DEFINE mine == all_permission_assignments_for_user(u)
           found == {r \in mine : r.perm = p /\ target_uri_matches_actual_uri(r.target, x)}
<1>1. \A r \in mine : r.target \in Targets /\ r.grant \in {"permit", "deny"}
    BY DEF all_permission_assignments_for_user, Rows
<1> HIDE DEF mine
<1>2. \A r \in mine : r \in found <=> r.perm = p /\ Reaches(r.target, x)
    BY <1>1, ClientMatches
<1>3. permission_assignments_include(all_permission_assignments_for_user(u), p, x)
         <=> found # {} /\ \A r \in found : r.grant # "deny"
    BY DEF permission_assignments_include, has_permissions_and_all_permissions_permit, mine
<1>4. found \subseteq mine
    OBVIOUS
<1> HIDE DEF found
<1>5. permission_assignments_include(all_permission_assignments_for_user(u), p, x) <=>
              /\ \E r \in mine : r.perm = p /\ Reaches(r.target, x)
              /\ \A r \in mine : r.perm = p /\ Reaches(r.target, x) => r.grant = "permit"
    BY <1>1, <1>2, <1>3, <1>4
<1> QED BY <1>5, Permits DEF mine

(* Below the path of the groups. *)
LEMMA GroupsPathIs ==
    /\ GroupsPath \in Seq(Words) /\ Len(GroupsPath) = 3
    /\ GroupsPath[1] = "/" /\ GroupsPath[2] = "process-groups" /\ GroupsPath[3] = "/"
BY WordsAre DEF GroupsPath

RandomGroup == GroupsPath \o <<"random">>
(* The word that get_process_groups_for_api asks about. *)
LEMMA RandomIs ==
    /\ RandomGroup \in Seq(Words) /\ Len(RandomGroup) = 4 /\ RandomGroup[4] = "random"
    /\ \A i \in 1..3 : RandomGroup[i] = GroupsPath[i]
<1>1. <<"random">> \in Seq(Words) /\ Len(<<"random">>) = 1 /\ <<"random">>[1] = "random"
    BY WordsAre
<1> DEFINE e == <<"random">>
<1> HIDE DEF e
<1>2. /\ GroupsPath \o e \in Seq(Words) /\ Len(GroupsPath \o e) = Len(GroupsPath) + Len(e)
      /\ \A i \in 1..Len(GroupsPath) + Len(e) :
            (GroupsPath \o e)[i] = IF i <= Len(GroupsPath) THEN GroupsPath[i] ELSE e[i - Len(GroupsPath)]
    BY <1>1, GroupsPathIs, ConcatProperties DEF e
<1>3. RandomGroup = GroupsPath \o e
    BY DEF RandomGroup, e
<1>4. /\ RandomGroup \in Seq(Words) /\ Len(RandomGroup) = 4
      /\ \A i \in 1..4 : RandomGroup[i] = IF i <= 3 THEN GroupsPath[i] ELSE e[i - 3]
    BY <1>1, <1>2, <1>3, GroupsPathIs DEF e
<1> QED BY <1>1, <1>4 DEF e

(* Being below that path, word by word. *)
LEMMA BelowIs ==
    ASSUME NEW t \in Seq(Words)
    PROVE  IsPrefix(GroupsPath, t) <=> Len(t) >= 3 /\ SubSeq(t, 1, 3) = GroupsPath
<1>1. SubSeq(GroupsPath, 1, 3) = GroupsPath
    BY GroupsPathIs, CutIs, SamePath
<1> QED BY <1>1, GroupsPathIs DEF IsPrefix

(* No target but one above the groups reaches the random word. *)
LEMMA ReachesRandom ==
    ASSUME NEW t \in Targets
    PROVE  Reaches(t, RandomGroup) <=> Wildcard(t) /\ IsPrefix(Front(t), GroupsPath)
<1>0. t \in Seq(Words) /\ t # <<>> /\ Len(t) \in Nat \ {0} /\ WellFormed(t)
    BY DEF Targets
<1>1. /\ Front(t) \in Seq(Words) /\ Len(Front(t)) = Len(t) - 1
      /\ \A i \in 1..(Len(t) - 1) : Front(t)[i] = t[i]
    BY <1>0, FrontIs
<1>2. ASSUME Len(t) > 3, \A i \in 1..3 : t[i] = GroupsPath[i] PROVE t[4] # "random"
    <2>1. IsPrefix(GroupsPath, t)
        BY <1>0, <1>2, GroupsPathIs, PrefixIs
    <2> QED BY <1>0, <1>2, <2>1, BelowIs DEF WellFormed
<1>3. RandomGroup # t
    BY <1>2, RandomIs
<1>4. IsPrefix(Front(t), RandomGroup) <=> IsPrefix(Front(t), GroupsPath)
    <2>1. ASSUME IsPrefix(Front(t), RandomGroup) PROVE IsPrefix(Front(t), GroupsPath)
        <3>1. Len(t) - 1 <= 4 /\ \A i \in 1..(Len(t) - 1) : t[i] = RandomGroup[i]
            BY SMTT(30), <1>1, <2>1, PrefixIs, RandomIs
        <3>2. Len(t) - 1 # 4
            <4> SUFFICES ASSUME Len(t) - 1 = 4 PROVE FALSE
                OBVIOUS
            <4>1. Len(t) = 5
                BY <1>0
            <4>2. t[4] = RandomGroup[4] /\ \A i \in 1..3 : t[i] = RandomGroup[i]
                BY <4>1, <3>1
            <4>3. t[4] = "random" /\ \A i \in 1..3 : t[i] = GroupsPath[i]
                BY <4>2, RandomIs
            <4> QED BY <4>1, <4>3, <1>2
        <3>3. Len(t) - 1 <= 3 /\ \A i \in 1..(Len(t) - 1) : i \in 1..3 /\ Front(t)[i] = GroupsPath[i]
            BY <1>0, <1>1, <3>1, <3>2, RandomIs
        <3> QED BY <1>0, <1>1, <3>3, PrefixIs, GroupsPathIs
    <2>2. ASSUME IsPrefix(Front(t), GroupsPath) PROVE IsPrefix(Front(t), RandomGroup)
        <3>1. Len(t) - 1 <= 3 /\ \A i \in 1..(Len(t) - 1) : Front(t)[i] = GroupsPath[i]
            BY <1>1, <2>2, PrefixIs, GroupsPathIs
        <3>2. Len(t) - 1 <= 4 /\ \A i \in 1..(Len(t) - 1) : Front(t)[i] = RandomGroup[i]
            BY <1>0, <3>1, RandomIs
        <3> QED BY <1>0, <1>1, <3>2, PrefixIs, RandomIs
    <2> QED BY <2>1, <2>2
<1>5. ASSUME Wildcard(t), Delimited(t), RandomGroup = SubSeq(t, 1, Len(t) - 2) PROVE FALSE
    <2>1. Len(t) - 2 \in 0..Len(t)
        BY <1>0, <1>5 DEF Delimited
    <2>2. Len(t) - 2 = 4 /\ \A i \in 1..4 : RandomGroup[i] = t[i]
        BY <1>0, <1>5, <2>1, CutIs, RandomIs
    <2>3. Len(t) > 3 /\ (\A i \in 1..3 : t[i] = GroupsPath[i]) /\ t[4] = "random"
        BY <1>0, <2>2, RandomIs
    <2> QED BY <1>2, <2>3
<1> QED BY <1>3, <1>4, <1>5 DEF Reaches

InIndex(t, x) ==
    \/ ~Wildcard(t) /\ x = t
    \/ Wildcard(t) /\ Unwild(t) \in uri_ancestor_prefixes(x)

(* A wildcard below the path of the groups. *)
LEMMA WildcardBelow ==
    ASSUME NEW t \in Targets, IsPrefix(GroupsPath, t), Wildcard(t)
    PROVE  /\ t \in Seq(Words) /\ t # <<>> /\ Len(t) \in Nat /\ Len(t) - 2 \in 0..Len(t)
           /\ Delimited(t) /\ Unwild(t) = SubSeq(t, 1, Len(t) - 2)
           /\ Len(t) = 4 \/ (Len(t) > 5 /\ t[Len(t) - 1] = ":")
<1>1. t \in Seq(Words) /\ t # <<>> /\ Len(t) \in Nat /\ WellFormed(t)
    BY DEF Targets
<1>2. Len(t) >= 3 /\ (\A i \in 1..3 : t[i] = GroupsPath[i]) /\ SubSeq(t, 1, 3) = GroupsPath
    BY <1>1, PrefixIs, BelowIs, GroupsPathIs
<1>3. t[3] = "/"
    BY <1>2, GroupsPathIs
<1>4. Len(t) # 3
    BY <1>3 DEF Wildcard, Last
<1>5. Len(t) > 4 => t[Len(t) - 1] = ":" /\ t[Len(t) - 2] # "/"
    BY <1>1, <1>2 DEF WellFormed
<1>6. Len(t) # 5
    <2> SUFFICES ASSUME Len(t) = 5 PROVE FALSE
        OBVIOUS
    <2>1. Len(t) - 2 = 3 /\ Len(t) > 4
        OBVIOUS
    <2> QED BY <2>1, <1>3, <1>5
<1>7. Len(t) = 4 => t[Len(t) - 1] = "/"
    BY <1>3
<1>8. (Len(t) = 4 \/ Len(t) > 5) /\ Len(t) - 2 \in 0..Len(t)
    <2>1. Len(t) \in Nat /\ Len(t) >= 3 /\ Len(t) # 3 /\ Len(t) # 5
        BY <1>1, <1>2, <1>4, <1>6
    <2>2. ASSUME NEW m \in Nat, m >= 3, m # 3, m # 5 PROVE (m = 4 \/ m > 5) /\ m - 2 \in 0..m
        BY <2>2
    <2> QED BY <2>1, <2>2
<1>9. Delimited(t)
    BY <1>5, <1>7, <1>8 DEF Delimited
<1> QED BY <1>1, <1>5, <1>8, <1>9, UnwildIs

(* The index of the groups has what the server reaches, and nothing else. *)
LEMMA IndexReaches ==
    ASSUME NEW t \in Targets, IsPrefix(GroupsPath, t), NEW x \in Seq(Words), InIndex(t, x)
    PROVE  Reaches(t, x)
<1>1. CASE ~Wildcard(t)
    BY <1>1 DEF InIndex, Reaches
<1>2. CASE Wildcard(t)
    <2> DEFINE n == Len(t) - 2
    <2>1. /\ t \in Seq(Words) /\ t # <<>> /\ Len(t) \in Nat /\ n \in 0..Len(t) /\ Delimited(t)
          /\ Unwild(t) = SubSeq(t, 1, n)
          /\ Len(t) = 4 \/ (Len(t) > 5 /\ t[Len(t) - 1] = ":")
        BY <1>2, WildcardBelow
    <2>2. PICK k \in 4..Len(x) : Unwild(t) = SubSeq(x, 1, k) /\ (k = Len(x) \/ x[k + 1] = ":")
        BY <1>2, GroupsPathIs DEF InIndex, uri_ancestor_prefixes
    <2>3. k \in 0..Len(x) /\ Len(x) \in Nat
        OBVIOUS
    <2>4. /\ Len(SubSeq(x, 1, k)) = k /\ \A i \in 1..k : SubSeq(x, 1, k)[i] = x[i]
          /\ Len(SubSeq(t, 1, n)) = n /\ \A i \in 1..n : SubSeq(t, 1, n)[i] = t[i]
        BY <2>1, <2>3, CutIs
    <2> HIDE DEF n
    <2>5. k = n /\ \A i \in 1..k : x[i] = t[i]
        BY <2>1, <2>2, <2>4
    <2>6. CASE k = Len(x)
        <3>1. x = SubSeq(t, 1, n)
            <4>1. SubSeq(x, 1, k) = x
                BY <2>3, <2>6, <2>4, CutIs, SamePath
            <4> QED BY <2>1, <2>2, <4>1
        <3> QED BY <1>2, <2>1, <3>1 DEF Reaches, n
    <2>7. CASE k # Len(x)
        <3>1. /\ Front(t) \in Seq(Words) /\ Len(Front(t)) = Len(t) - 1
              /\ \A i \in 1..(Len(t) - 1) : Front(t)[i] = t[i]
            BY <2>1, FrontIs
        <3>2. Len(t) - 1 = k + 1 /\ k + 1 <= Len(x) /\ Len(t) > 5
            BY <2>1, <2>3, <2>5, <2>7 DEF n
        <3>3. x[k + 1] = ":" /\ t[k + 1] = ":"
            <4>1. t[Len(t) - 1] = ":"
                BY SMTT(30), <2>1, <3>2
            <4>2. t[k + 1] = ":"
                BY <3>2, <4>1
            <4> QED BY <2>2, <2>7, <4>2
        <3>4. \A i \in 1..(k + 1) : i \in 1..k \/ i = k + 1
            BY <2>3
        <3>5. Len(Front(t)) <= Len(x) /\ \A i \in 1..Len(Front(t)) : Front(t)[i] = x[i]
            BY <2>5, <3>1, <3>2, <3>3, <3>4
        <3> QED BY <1>2, <3>1, <3>5, PrefixIs DEF Reaches
    <2> QED BY <2>6, <2>7
<1> QED BY <1>1, <1>2

(* All but the wildcard right below the path of the groups, which the      *)
(* random word stands for.                                                 *)
LEMMA ReachesIndexed ==
    ASSUME NEW t \in Targets, IsPrefix(GroupsPath, t), NEW x \in Seq(Words), Reaches(t, x),
           Wildcard(t) => Len(t) # 4
    PROVE  InIndex(t, x)
<1>1. CASE ~Wildcard(t)
    BY <1>1 DEF InIndex, Reaches
<1>2. CASE Wildcard(t)
    <2> DEFINE n == Len(t) - 2
    <2>1. /\ t \in Seq(Words) /\ t # <<>> /\ Len(t) \in Nat /\ n \in 0..Len(t) /\ Delimited(t)
          /\ Unwild(t) = SubSeq(t, 1, n) /\ Len(t) > 5 /\ t[n + 1] = ":"
        BY <1>2, WildcardBelow
    <2>2. /\ SubSeq(t, 1, n) \in Seq(Words) /\ Len(SubSeq(t, 1, n)) = n
          /\ \A i \in 1..n : SubSeq(t, 1, n)[i] = t[i]
        BY <2>1, CutIs
    <2>3. ASSUME NEW k \in 4..Len(x), Unwild(t) = SubSeq(x, 1, k), k = Len(x) \/ x[k + 1] = ":"
          PROVE  InIndex(t, x)
        BY <1>2, <2>3, GroupsPathIs DEF InIndex, uri_ancestor_prefixes
    <2>4. CASE x = SubSeq(t, 1, n)
        <3>1. Len(x) = n /\ n \in 4..Len(x)
            BY <2>1, <2>2, <2>4
        <3>2. SubSeq(x, 1, n) = x
            BY <3>1, CutIs, SamePath
        <3> QED BY <2>1, <2>3, <2>4, <3>1, <3>2
    <2>5. CASE IsPrefix(Front(t), x)
        <3>1. /\ Front(t) \in Seq(Words) /\ Len(Front(t)) = Len(t) - 1
              /\ \A i \in 1..(Len(t) - 1) : Front(t)[i] = t[i]
            BY <2>1, FrontIs
        <3>2. Len(t) - 1 <= Len(x) /\ \A i \in 1..(Len(t) - 1) : Front(t)[i] = x[i]
            BY <2>5, <3>1, PrefixIs
        <3>3. n + 1 = Len(t) - 1 /\ n \in 0..Len(x) /\ n \in 4..Len(x) /\ n + 1 \in 1..(Len(t) - 1)
            BY <2>1, <3>2
        <3>4. x[n + 1] = ":"
            BY <2>1, <3>1, <3>2, <3>3
        <3>5. /\ SubSeq(x, 1, n) \in Seq(Words) /\ Len(SubSeq(x, 1, n)) = n
              /\ \A i \in 1..n : SubSeq(x, 1, n)[i] = x[i]
            BY <3>3, CutIs
        <3>6. \A i \in 1..n : t[i] = x[i]
            BY SMTT(30), <2>1, <3>1, <3>2, <3>3
        <3> HIDE DEF n
        <3>7. SubSeq(x, 1, n) = SubSeq(t, 1, n)
            BY <2>2, <3>5, <3>6, SamePath
        <3> QED BY <2>1, <2>3, <3>3, <3>4, <3>7
    <2>6. CASE x = t
        <3>1. /\ Len(t) \in Nat \ {0} /\ Front(t) \in Seq(Words) /\ Len(Front(t)) = Len(t) - 1
              /\ \A i \in 1..(Len(t) - 1) : Front(t)[i] = t[i]
            BY <2>1, FrontIs
        <3>2. Len(Front(t)) <= Len(t) /\ \A i \in 1..Len(Front(t)) : Front(t)[i] = t[i]
            BY <3>1
        <3>3. IsPrefix(Front(t), x)
            BY <2>1, <2>6, <3>1, <3>2, PrefixIs
        <3> QED BY <2>5, <3>3
    <2> QED BY <1>2, <2>4, <2>5, <2>6 DEF Reaches
<1> QED BY <1>1, <1>2

(* A group that may be read is listed. *)
LEMMA GroupListed ==
    ASSUME grants \subseteq Rows, NEW u, NEW x \in Seq(Words), IsStrictPrefix(GroupsPath, x),
           user_has_permission(u, "read", x)
    PROVE  get_process_groups_for_api(u, x)
<1> DEFINE mine == all_permission_assignments_for_user(u)
<1>1. \A r \in mine : r \in Rows /\ r.target \in Targets /\ r.target \in Seq(Words) /\ r.target # <<>>
    BY DEF all_permission_assignments_for_user, Rows, Targets
<1>2. /\ \E r \in mine : r.perm = "read" /\ Reaches(r.target, x)
      /\ \A r \in mine : r.perm = "read" /\ Reaches(r.target, x) => r.grant = "permit"
    BY Permits
<1>3. IsPrefix(GroupsPath, x) /\ Len(x) \in Nat /\ Len(x) >= 3 /\ \A i \in 1..3 : GroupsPath[i] = x[i]
    <2>1. IsPrefix(GroupsPath, x) /\ Len(x) \in Nat
        BY DEF IsStrictPrefix
    <2>2. Len(GroupsPath) <= Len(x) /\ \A i \in 1..Len(GroupsPath) : GroupsPath[i] = x[i]
        BY <2>1, GroupsPathIs, PrefixIs
    <2> QED BY <2>1, <2>2, GroupsPathIs
<1> HIDE DEF mine
<1> DEFINE Above(t) == Wildcard(t) /\ IsPrefix(Front(t), GroupsPath)
<1>4. ASSUME NEW t \in Targets, Above(t) PROVE Reaches(t, x)
    <2>1. t \in Seq(Words) /\ t # <<>>
        BY DEF Targets
    <2>2. Front(t) \in Seq(Words) /\ Len(Front(t)) \in Nat
        BY <2>1, FrontIs
    <2>3. Len(Front(t)) <= 3 /\ \A i \in 1..Len(Front(t)) : Front(t)[i] = GroupsPath[i]
        BY <1>4, <2>2, PrefixIs, GroupsPathIs
    <2>4. Len(Front(t)) <= Len(x) /\ \A i \in 1..Len(Front(t)) : Front(t)[i] = x[i]
        BY <1>3, <2>2, <2>3
    <2> QED BY <1>4, <2>2, <2>4, PrefixIs DEF Reaches
<1>5. CASE \E r \in mine : r.perm = "read" /\ Above(r.target)
    <2>1. \E r \in mine : r.perm = "read" /\ Reaches(r.target, RandomGroup)
        BY <1>1, <1>5, ReachesRandom
    <2>2. \A r \in mine : r.perm = "read" /\ Reaches(r.target, RandomGroup) => r.grant = "permit"
        BY <1>1, <1>2, <1>4, ReachesRandom
    <2>3. user_has_permission(u, "read", RandomGroup)
        BY <2>1, <2>2, RandomIs, Permits DEF mine
    <2> QED BY <2>3 DEF get_process_groups_for_api, RandomGroup
<1>6. CASE ~\E r \in mine : r.perm = "read" /\ Above(r.target)
    <2>1. PICK r \in mine : r.perm = "read" /\ Reaches(r.target, x)
        BY <1>2
    <2> DEFINE t == r.target
    <2>2. t \in Targets /\ t \in Seq(Words) /\ t # <<>> /\ r.grant = "permit" /\ ~Above(t)
        BY <1>1, <1>2, <1>6, <2>1
    <2>3. /\ Len(t) \in Nat \ {0} /\ Front(t) \in Seq(Words) /\ Len(Front(t)) = Len(t) - 1
          /\ \A i \in 1..(Len(t) - 1) : Front(t)[i] = t[i]
        BY <2>2, FrontIs
    <2> HIDE DEF t
    <2>4. ASSUME IsPrefix(Front(t), x), Wildcard(t) PROVE IsPrefix(GroupsPath, t) /\ Len(t) # 4
        <3>1. Len(t) - 1 <= Len(x) /\ \A i \in 1..(Len(t) - 1) : t[i] = x[i]
            BY <2>3, <2>4, PrefixIs
        <3>2. Len(t) - 1 > 3
            <4> SUFFICES ASSUME Len(t) - 1 <= 3 PROVE FALSE
                BY <2>3
            <4>1. Len(Front(t)) <= 3 /\ \A i \in 1..Len(Front(t)) : Front(t)[i] = GroupsPath[i]
                BY <1>3, <2>3, <3>1
            <4>2. IsPrefix(Front(t), GroupsPath)
                BY <2>3, <4>1, PrefixIs, GroupsPathIs
            <4> QED BY <2>2, <2>4, <4>2
        <3>3. Len(GroupsPath) <= Len(t) /\ \A i \in 1..Len(GroupsPath) : GroupsPath[i] = t[i]
            BY <1>3, <2>3, <3>1, <3>2, GroupsPathIs
        <3>4. Len(t) # 4
            BY SMTT(30), <2>3, <3>2
        <3> QED BY <2>2, <3>3, <3>4, PrefixIs, GroupsPathIs
    <2>5. ASSUME Delimited(t), Wildcard(t), x = SubSeq(t, 1, Len(t) - 2)
          PROVE  IsPrefix(GroupsPath, t) /\ Len(t) # 4
        <3>1. Len(t) - 2 \in 0..Len(t)
            BY <2>3, <2>5 DEF Delimited
        <3>2. Len(x) = Len(t) - 2 /\ \A i \in 1..Len(x) : x[i] = t[i]
            BY <2>2, <2>5, <3>1, CutIs
        <3>3. Len(GroupsPath) <= Len(t) /\ (\A i \in 1..Len(GroupsPath) : GroupsPath[i] = t[i]) /\ Len(t) # 4
            BY SMTT(30), <1>3, <2>3, <3>2, GroupsPathIs
        <3> QED BY <2>2, <3>3, PrefixIs, GroupsPathIs
    <2>6. ASSUME x = t PROVE IsPrefix(GroupsPath, t)
        BY <1>3, <2>6
    <2>7. IsPrefix(GroupsPath, t) /\ (Wildcard(t) => Len(t) # 4)
        <3>1. ASSUME x = t, Wildcard(t) PROVE IsPrefix(Front(t), x)
            <4>1. Len(Front(t)) <= Len(x) /\ \A i \in 1..Len(Front(t)) : Front(t)[i] = x[i]
                BY <2>3, <3>1
            <4> QED BY <2>3, <4>1, PrefixIs
        <3> QED BY <2>1, <2>4, <2>5, <2>6, <3>1 DEF Reaches, t
    <2>8. InIndex(t, x)
        BY <2>1, <2>2, <2>7, ReachesIndexed DEF t
    <2>9. permission_index_matches_target_uri(process_group_permission_index(u, "permit"), x)
        BY <2>1, <2>2, <2>7, <2>8
        DEF permission_index_matches_target_uri, process_group_permission_index, InIndex, mine, t
    <2>10. ~permission_index_matches_target_uri(process_group_permission_index(u, "deny"), x)
        <3> SUFFICES ASSUME permission_index_matches_target_uri(process_group_permission_index(u, "deny"), x)
                     PROVE FALSE
            OBVIOUS
        <3>1. PICK d \in mine : /\ d.perm = "read" /\ d.grant = "deny" /\ IsPrefix(GroupsPath, d.target)
                                /\ InIndex(d.target, x)
            BY DEF permission_index_matches_target_uri, process_group_permission_index, InIndex, mine
        <3>2. Reaches(d.target, x)
            BY <1>1, <3>1, IndexReaches
        <3> QED BY <1>2, <3>1, <3>2
    <2> QED BY <2>9, <2>10 DEF get_process_groups_for_api, get_process_groups_user_has_permissions_to
<1> QED BY <1>5, <1>6

(* FrontendAgrees, from the rows of the tables alone: it holds whatever    *)
(* imports are under way.                                                  *)
LEMMA FrontendOK == ASSUME grants \subseteq Rows PROVE FrontendAgrees
<1> SUFFICES ASSUME NEW u \in People, NEW x \in Uris, NEW p
             PROVE  LET mine    == all_permission_assignments_for_user(u)
                        allowed == check_permission_for_request(u, p, x)
                    IN  /\ permission_assignments_include(mine, p, x) <=> allowed
                        /\ allowed /\ IsPrefix(Under("process-models", <<>>), x) =>
                              process_model_identifiers_with_permission_for_user(
                                  u, p, <<"/", "process-models">>, x)
                        /\ allowed /\ p = "read" /\ IsStrictPrefix(GroupsPath, x) =>
                              get_process_groups_for_api(u, x)
    BY DEF FrontendAgrees
<1>1. x \in Seq(Words)
    BY AccessConstants
<1>2. permission_assignments_include(all_permission_assignments_for_user(u), p, x)
         <=> check_permission_for_request(u, p, x)
    BY <1>1, SameAnswer
<1>3. check_permission_for_request(u, "read", x) <=> user_has_permission(u, "read", x)
    BY <1>1, Permits
<1> QED BY <1>1, <1>2, <1>3, GroupListed DEF process_model_identifiers_with_permission_for_user

-----------------------------------------------------------------------------
(* Navigation *)

(* SubgroupNavigable: who may read a subgroup is let through to its group. *)
LEMMA NavigableOK == ASSUME grants \subseteq Rows PROVE SubgroupNavigable
<1> DEFINE path == <<"/", "process-groups", "/">>
<1>0. path = GroupsPath
    BY DEF GroupsPath
<1> HIDE DEF path
<1> SUFFICES ASSUME NEW u \in People \ {Service}, NEW x \in Uris, IsPrefix(path, x),
                    NEW id,
                    \E cut \in 1..Len(SubSeq(x, 4, Len(x))) :
                        id = SubSeq(SubSeq(x, 4, Len(x)), 1, cut - 1),
                    user_has_permission(u, "read", x),
                    ~\E r \in all_permission_assignments_for_user(u) : r.grant = "deny"
             PROVE  is_user_allowed_to_view_process_group_with_id(u, id)
    <2> SUFFICES ASSUME NEW u \in People \ {Service}, NEW x \in Uris, IsPrefix(path, x),
                        ":" \in Range(SubSeq(x, 4, Len(x))), user_has_permission(u, "read", x),
                        ~\E r \in all_permission_assignments_for_user(u) : r.grant = "deny"
                 PROVE  is_user_allowed_to_view_process_group_with_id(u,
                          SubSeq(SubSeq(x, 4, Len(x)), 1,
                                 (CHOOSE i \in 1..Len(SubSeq(x, 4, Len(x))) : SubSeq(x, 4, Len(x))[i] = ":") - 1))
        BY DEF SubgroupNavigable, path
    <2> DEFINE sub == SubSeq(x, 4, Len(x))
               cut == CHOOSE i \in 1..Len(sub) : sub[i] = ":"
    <2>1. x \in Seq(Words)
        BY AccessConstants
    <2>2. DOMAIN sub = 1..Len(sub)
        BY <2>1
    <2>3. \E i \in 1..Len(sub) : sub[i] = ":"
        BY <2>2 DEF Range
    <2>4. cut \in 1..Len(sub)
        BY <2>3
    <2> HIDE DEF sub, cut
    <2>5. \E k \in 1..Len(sub) : SubSeq(sub, 1, cut - 1) = SubSeq(sub, 1, k - 1)
        BY <2>4
    <2> QED BY <2>5 DEF sub, cut
<1>1. x \in Seq(Words) /\ path \in Seq(Words) /\ Len(path) = 3 /\ Len(x) \in Nat
    BY <1>0, GroupsPathIs, AccessConstants
<1>2. Len(x) >= 3 /\ \A i \in 1..3 : path[i] = x[i]
    BY <1>1, PrefixIs
<1> DEFINE sub == SubSeq(x, 4, Len(x))
<1>3. sub \in Seq(Words) /\ Len(sub) = Len(x) - 3 /\ \A i \in 1..(Len(x) - 3) : sub[i] = x[3 + i]
    BY <1>1, <1>2
<1>4. PICK cut \in 1..Len(sub) : id = SubSeq(sub, 1, cut - 1)
    OBVIOUS
<1> HIDE DEF sub
<1>5. /\ id \in Seq(Words) /\ Len(id) = cut - 1 /\ cut - 1 \in Nat /\ cut - 1 <= Len(sub)
      /\ \A i \in 1..(cut - 1) : id[i] = sub[i]
    <2>0. Len(sub) \in Nat /\ cut \in 1..Len(sub)
        BY <1>3, <1>4
    <2>1. cut - 1 \in 0..Len(sub) /\ cut - 1 \in Nat
        BY <2>0
    <2>2. /\ SubSeq(sub, 1, cut - 1) \in Seq(Words) /\ Len(SubSeq(sub, 1, cut - 1)) = cut - 1
          /\ \A i \in 1..(cut - 1) : SubSeq(sub, 1, cut - 1)[i] = sub[i]
        BY <1>3, <2>1, CutIs
    <2>3. cut - 1 <= Len(sub)
        BY <2>0
    <2> QED BY <1>4, <2>1, <2>2, <2>3
<1> DEFINE g == path \o id
<1>6. /\ g \in Seq(Words) /\ Len(g) = 3 + Len(id)
      /\ \A i \in 1..3 + Len(id) : g[i] = IF i <= 3 THEN path[i] ELSE id[i - 3]
    <2>1. /\ path \o id \in Seq(Words) /\ Len(path \o id) = Len(path) + Len(id)
          /\ \A i \in 1..Len(path) + Len(id) :
                (path \o id)[i] = IF i <= Len(path) THEN path[i] ELSE id[i - Len(path)]
        <3>1. path \in Seq(Words) /\ id \in Seq(Words)
            BY <1>1, <1>5
        <3> QED BY <3>1, ConcatProperties
    <2> QED BY <1>1, <2>1
<1> HIDE DEF g
<1>7. Len(g) <= Len(x) /\ \A i \in 1..Len(g) : g[i] = x[i]
    <2>1. Len(g) <= Len(x)
        BY <1>1, <1>2, <1>3, <1>5, <1>6
    <2>2. ASSUME NEW i \in 1..Len(g) PROVE g[i] = x[i]
        <3>1. CASE i <= 3
            <4>1. i \in 1..3 /\ i \in 1..3 + Len(id)
                BY <1>5, <1>6, <3>1
            <4>2. g[i] = path[i]
                BY <1>6, <3>1, <4>1
            <4> QED BY <1>2, <4>1, <4>2
        <3>2. CASE ~(i <= 3)
            <4>1. i - 3 \in 1..(cut - 1) /\ i - 3 \in 1..(Len(x) - 3) /\ 3 + (i - 3) = i
                BY <1>1, <1>3, <1>5, <1>6, <3>2
            <4>2. g[i] = id[i - 3] /\ id[i - 3] = sub[i - 3] /\ sub[i - 3] = x[3 + (i - 3)]
                BY <1>3, <1>5, <1>6, <3>2, <4>1
            <4> QED BY <4>1, <4>2
        <3> QED BY <3>1, <3>2
    <2> QED BY <2>1, <2>2
<1> DEFINE mine == all_permission_assignments_for_user(u)
<1>8. \A r \in mine : r.target \in Targets /\ r.grant = "permit"
    BY DEF all_permission_assignments_for_user, Rows
<1>9. PICK r \in mine : r.perm = "read" /\ Reaches(r.target, x)
    BY <1>1, Permits
<1> DEFINE t == r.target
<1>10. t \in Targets /\ t \in Seq(Words) /\ t # <<>>
    BY <1>8 DEF Targets
<1>11. /\ Len(t) \in Nat \ {0} /\ Front(t) \in Seq(Words) /\ Len(Front(t)) = Len(t) - 1
       /\ \A i \in 1..(Len(t) - 1) : Front(t)[i] = t[i]
    BY <1>10, FrontIs
<1> HIDE DEF t, mine
<1>12. Reaches(t, g) \/ IsPrefix(g, t)
    <2>1. CASE x = t
        BY <1>6, <1>7, <1>10, <2>1, PrefixIs
    <2>2. CASE Wildcard(t) /\ IsPrefix(Front(t), x)
        <3>0. Len(Front(t)) <= Len(x) /\ \A i \in 1..Len(Front(t)) : Front(t)[i] = x[i]
            BY <1>1, <1>11, <2>2, PrefixIs
        <3>1. Len(t) - 1 <= Len(x) /\ \A i \in 1..(Len(t) - 1) : t[i] = x[i]
            BY <1>11, <3>0
        <3>2. CASE Len(t) - 1 <= Len(g)
            <4>1. Len(Front(t)) <= Len(g) /\ \A i \in 1..Len(Front(t)) : Front(t)[i] = g[i]
                BY <1>5, <1>6, <1>7, <1>11, <3>1, <3>2
            <4>2. IsPrefix(Front(t), g)
                BY <1>6, <1>11, <4>1, PrefixIs
            <4> QED BY <2>2, <4>2 DEF Reaches
        <3>3. CASE ~(Len(t) - 1 <= Len(g))
            <4>0. Len(g) \in Nat /\ Len(t) \in Nat /\ Len(t) - 1 > Len(g)
                BY <1>5, <1>6, <1>11, <3>3
            <4>1. Len(g) <= Len(t) /\ \A i \in 1..Len(g) : i \in 1..(Len(t) - 1)
                BY <4>0
            <4>2. \A i \in 1..Len(g) : g[i] = t[i]
                BY <1>7, <3>1, <4>1
            <4> QED BY <1>6, <1>10, <4>1, <4>2, PrefixIs
        <3> QED BY <3>2, <3>3
    <2>3. CASE Wildcard(t) /\ Delimited(t) /\ x = SubSeq(t, 1, Len(t) - 2)
        <3>1. Len(t) - 2 \in 0..Len(t)
            BY <1>11, <2>3 DEF Delimited
        <3>2. Len(x) = Len(t) - 2 /\ \A i \in 1..Len(x) : x[i] = t[i]
            BY <1>10, <2>3, <3>1, CutIs
        <3>3. Len(g) <= Len(t) /\ \A i \in 1..Len(g) : g[i] = t[i]
            BY SMTT(30), <1>5, <1>6, <1>7, <1>11, <3>2
        <3> QED BY <1>6, <1>10, <3>3, PrefixIs
    <2> QED BY <1>9, <2>1, <2>2, <2>3 DEF Reaches, t
<1>13. CASE Reaches(t, g)
    <2>1. user_has_permission(u, "read", g)
        BY <1>6, <1>8, <1>9, <1>13, Permits DEF mine, t
    <2> QED BY <2>1 DEF is_user_allowed_to_view_process_group_with_id, g, path
<1>14. CASE IsPrefix(g, t)
    <2> DEFINE relevant(q) ==
            \/ /\ q.grant = "permit"
               /\ IsPrefix(path \o id, q.target) \/ IsPrefix(Under("process-models", id), q.target)
            \/ /\ q.grant = "deny"
               /\ IsPrefix(LET s == IF IsPrefix(path, q.target)
                                    THEN SubSeq(q.target, 4, Len(q.target)) ELSE q.target
                           IN  IF IsSuffix(<<":", "%">>, s) THEN SubSeq(s, 1, Len(s) - 2) ELSE s, id)
    <2>1. has_permissions_and_all_permissions_permit({q \in {w \in mine : w.perm = "read"} : relevant(q)})
          => is_user_allowed_to_view_process_group_with_id(u, id)
        BY DEF is_user_allowed_to_view_process_group_with_id, mine, path
    <2>2. relevant(r)
        BY <1>8, <1>9, <1>14 DEF t, g
    <2> HIDE DEF relevant
    <2> DEFINE found == {q \in {w \in mine : w.perm = "read"} : relevant(q)}
    <2>3. r \in found /\ \A q \in found : q.grant # "deny"
        BY <1>8, <1>9, <2>2
    <2> QED BY <2>1, <2>3 DEF has_permissions_and_all_permissions_permit
<1> QED BY <1>12, <1>13, <1>14

-----------------------------------------------------------------------------
(* What a file comes to *)

Policies == Configurations \cup {EmptyPolicy}

(* A file, the empty one too. *)
LEMMA PolicyIs ==
    ASSUME NEW c \in Policies
    PROVE  /\ c.users \subseteq (People \ {Service}) \X Teams
           /\ c.perms \in Seq(Entries) /\ Len(c.perms) \in Nat /\ DOMAIN c.perms = 1..Len(c.perms)
           /\ \A i \in DOMAIN c.perms : c.perms[i] \in Entries
<1>1. CASE c \in Configurations
    BY <1>1, ConfigurationIs
<1>2. CASE c = EmptyPolicy
    BY <1>2 DEF EmptyPolicy
<1> QED BY <1>1, <1>2 DEF Policies

(* The rows of its entries. *)
LEMMA EntryRows ==
    ASSUME NEW c \in Policies, NEW i \in DOMAIN c.perms, NEW r \in RowsOf(c.perms[i])
    PROVE  r \in Rows /\ r.who = c.perms[i].team /\ r.who \in Teams /\ r.grant = Grant(c.perms[i])
<1>1. c \in Configurations
    BY DEF Policies, EmptyPolicy
<1> QED BY <1>1, RowsAre

(* What the first k entries come to: of each row the last word. *)
LastWord(c, k) ==
    {r \in UNION {RowsOf(c.perms[i]) : i \in 1..k} :
        \E i \in 1..k : /\ r \in RowsOf(c.perms[i])
                        /\ \A j \in 1..k : j > i => \A e \in RowsOf(c.perms[j]) : ~SameRow(e, r)}
Final(c) == LastWord(c, Len(c.perms))

(* Its definition, for the provers. *)
LEMMA LastWordIs ==
    ASSUME NEW c \in Policies, NEW k \in Nat, NEW r
    PROVE  r \in LastWord(c, k) <=>
              \E i \in 1..k : /\ r \in RowsOf(c.perms[i])
                              /\ \A j \in 1..k : j > i => \A e \in RowsOf(c.perms[j]) : ~SameRow(e, r)
BY DEF LastWord

(* An entry overwrites what was said before. *)
LEMMA LastWordStep ==
    ASSUME NEW c \in Policies, NEW k \in 1..Len(c.perms)
    PROVE  LastWord(c, k) = add_permission_from_uri_or_macro(LastWord(c, k - 1), c.perms[k])
<1> DEFINE new == RowsOf(c.perms[k])
           old == LastWord(c, k - 1)
<1>1. /\ k \in Nat /\ k - 1 \in Nat /\ k \in 1..k /\ (\A i \in 1..(k - 1) : i \in 1..k /\ k > i /\ ~(i > k))
      /\ \A i \in 1..k : i \in 1..(k - 1) \/ i = k
    BY PolicyIs
<1>2. \A r : r \in add_permission_from_uri_or_macro(old, c.perms[k])
                <=> r \in new \/ (r \in old /\ ~\E n \in new : SameRow(n, r))
    BY DEF add_permission_from_uri_or_macro, create_permission_for_principal
<1>3. \A r : r \in LastWord(c, k) <=>
              \E i \in 1..k : /\ r \in RowsOf(c.perms[i])
                              /\ \A j \in 1..k : j > i => \A e \in RowsOf(c.perms[j]) : ~SameRow(e, r)
    BY <1>1, LastWordIs
<1>4. \A r : r \in old <=>
              \E i \in 1..(k - 1) : /\ r \in RowsOf(c.perms[i])
                                    /\ \A j \in 1..(k - 1) : j > i => \A e \in RowsOf(c.perms[j]) : ~SameRow(e, r)
    BY <1>1, LastWordIs
<1> HIDE DEF new, old
<1>5. ASSUME NEW r \in LastWord(c, k) PROVE r \in new \/ (r \in old /\ ~\E n \in new : SameRow(n, r))
    <2>1. PICK i \in 1..k : /\ r \in RowsOf(c.perms[i])
                            /\ \A j \in 1..k : j > i => \A e \in RowsOf(c.perms[j]) : ~SameRow(e, r)
        BY <1>3
    <2>2. CASE i = k
        BY <2>1, <2>2 DEF new
    <2>3. CASE i # k
        <3>1. i \in 1..(k - 1) /\ k > i
            BY <1>1, <2>3
        <3>2. \A j \in 1..(k - 1) : j > i => \A e \in RowsOf(c.perms[j]) : ~SameRow(e, r)
            BY <1>1, <2>1
        <3> QED BY <1>1, <1>4, <2>1, <3>1, <3>2 DEF new
    <2> QED BY <2>2, <2>3
<1>6. ASSUME NEW r \in new PROVE r \in LastWord(c, k)
    <2>1. \A j \in 1..k : ~(j > k)
        BY <1>1
    <2> QED BY <1>1, <1>3, <2>1 DEF new
<1>7. ASSUME NEW r \in old, ~\E n \in new : SameRow(n, r) PROVE r \in LastWord(c, k)
    <2>1. PICK i \in 1..(k - 1) : /\ r \in RowsOf(c.perms[i])
                                  /\ \A j \in 1..(k - 1) : j > i => \A e \in RowsOf(c.perms[j]) : ~SameRow(e, r)
        BY <1>4
    <2>2. \A j \in 1..k : j > i => \A e \in RowsOf(c.perms[j]) : ~SameRow(e, r)
        BY <1>1, <1>7, <2>1 DEF new
    <2> QED BY <1>1, <1>3, <2>1, <2>2
<1> QED BY <1>2, <1>5, <1>6, <1>7 DEF old

(* A set of numbers has a least one. *)
LEMMA Least == ASSUME NEW S \in SUBSET Nat, S # {} PROVE \E x \in S : \A y \in S : x <= y
<1>1. PICK x \in S : \A y \in S : <<y, x>> \notin OpToRel(<, Nat)
    BY NatLessThanWellFounded, WFMin
<1>2. ASSUME NEW y \in S PROVE x <= y
    <2>1. x \in Nat /\ y \in Nat
        OBVIOUS
    <2>2. ~(y < x)
        BY <1>1, <2>1 DEF OpToRel
    <2> QED BY <2>1, <2>2
<1> QED BY <1>2

(* Import, whose recursion has this solution and no other. *)
LEMMA ImportIs == ASSUME NEW c \in Policies PROVE Import(c) = Final(c)
<1> DEFINE n == Len(c.perms)
           Step(f, k) == IF k = 0 THEN {} ELSE add_permission_from_uri_or_macro(f[k - 1], c.perms[k])
           upTo == CHOOSE f : f = [k \in 0..n |-> Step(f, k)]
           g == [k \in 0..n |-> LastWord(c, k)]
<1>1. Import(c) = upTo[n]
    BY DEF Import
<1>2. n \in Nat
    BY PolicyIs
<1>3. LastWord(c, 0) = {}
    BY DEF LastWord
<1> HIDE DEF n
<1>4. \A k \in 0..n : k # 0 => k \in 1..n /\ k - 1 \in 0..n
    BY <1>2
<1>5. \A k \in 0..n : LastWord(c, k) = Step(g, k)
    BY <1>3, <1>4, LastWordStep DEF n
<1>6. g = [k \in 0..n |-> Step(g, k)]
    BY <1>5
<1>7. upTo = [k \in 0..n |-> Step(upTo, k)]
    <2> HIDE DEF Step, g
    <2> QED BY <1>6
<1> HIDE DEF upTo
<1>8. \A k \in 0..n : upTo[k] = LastWord(c, k)
    <2> DEFINE Fails == {k \in 0..n : upTo[k] # LastWord(c, k)}
    <2> SUFFICES ASSUME Fails # {} PROVE FALSE
        OBVIOUS
    <2>1. Fails \in SUBSET Nat
        BY <1>2
    <2>2. PICK k \in Fails : \A j \in Fails : k <= j
        <3> HIDE DEF Fails
        <3> QED BY <2>1, Least
    <2>3. k \in 0..n /\ upTo[k] = Step(upTo, k) /\ LastWord(c, k) = Step(g, k)
        BY <1>5, <1>7
    <2>4. CASE k = 0
        BY <2>2, <2>3, <2>4
    <2>5. CASE k # 0
        <3>1. k - 1 \in 0..n /\ ~(k <= k - 1)
            BY <1>2, <1>4, <2>3, <2>5
        <3>2. upTo[k - 1] = LastWord(c, k - 1)
            BY <2>2, <3>1
        <3> QED BY <2>2, <2>3, <2>5, <3>1, <3>2
    <2> QED BY <2>4, <2>5
<1>9. n \in 0..n
    BY <1>2
<1> QED BY <1>1, <1>8, <1>9 DEF Final, n

-----------------------------------------------------------------------------
(* The invariant of imports *)

Loadings == [phase : {"idle", "users", "remove"}, user : People, config : Policies,
             users : SUBSET (People \X Teams), todo : SUBSET Nat, rows0 : SUBSET Rows,
             team0 : SUBSET (People \X Teams), added : SUBSET Rows]

AccessTyped ==
    /\ policy \in Policies /\ members \subseteq People \X Teams /\ grants \subseteq Rows
    /\ workedFrom \subseteq Policies /\ policyEdits \in 0..MaxEdits
    /\ loading \in [Loaders -> Loadings] /\ loading["signin"].phase # "remove"

(* The row of a principal, a target and a permission is unique. *)
Unique == \A r \in grants, s \in grants : SameRow(r, s) => r = s

(* A job has its entries still to do in their order: what is left for a    *)
(* group is the end of what the file lists for it.                         *)
InOrder(l) ==
    /\ l.phase = "idle" => l = NoLoading
    /\ l.phase = "remove" => l.users = {} /\ l.todo = {}
    /\ l.users \subseteq l.config.users /\ l.todo \subseteq DOMAIN l.config.perms
    /\ \A i \in l.todo : \A k \in DOMAIN l.config.perms :
          k > i /\ l.config.perms[k].team = l.config.perms[i].team => k \in l.todo

(* What a refresh remembers is still there, and what it added is listed.   *)
Snapshot(l) ==
    l.phase # "idle" =>
        /\ \A o \in l.rows0 : \E r \in grants : SameRow(o, r)
        /\ l.team0 \subseteq members
        /\ \A k \in DOMAIN l.config.perms : k \in l.todo \/ RowsOf(l.config.perms[k]) \subseteq l.added
        /\ \A a \in l.added : \E k \in DOMAIN l.config.perms : a \in RowsOf(l.config.perms[k])

Sources ==
    /\ loading["refresh"].phase # "idle" => loading["refresh"].config \in workedFrom
    /\ loading["signin"].phase # "idle" /\ workedFrom # {} => loading["signin"].config \in workedFrom

(* Some entry a job has still to do is about the row.                      *)
Covers(l, r) == \E i \in l.todo : \E e \in RowsOf(l.config.perms[i]) : SameRow(e, r)

(* While all jobs since the last refresh began work from one file, tables  *)
(* and jobs between them hold what it says and nothing else.               *)
Converging(c) ==
    /\ \A r \in Final(c) : r \in grants \/ Covers(loading["refresh"], r) \/ Covers(loading["signin"], r)
    /\ \A r \in grants : r.who # Service =>
          \/ \E f \in Final(c) : SameRow(f, r)
          \/ loading["refresh"].phase # "idle" /\ \E o \in loading["refresh"].rows0 : SameRow(o, r)
    /\ \A m \in c.users : m \in members \/ m \in loading["refresh"].users
    /\ \A m \in members : m[2] # DefaultTeam =>
          m \in c.users \/ (loading["refresh"].phase # "idle" /\ m \in loading["refresh"].team0)

AccessInv ==
    /\ AccessTyped /\ Unique
    /\ \A j \in Loaders : InOrder(loading[j])
    /\ Snapshot(loading["refresh"]) /\ Sources
    /\ \A c \in workedFrom : workedFrom = {c} => Converging(c)

(* What create_permission_for_principal leaves in the table. *)
LEMMA AddsAre ==
    ASSUME NEW old, NEW entry, NEW r
    PROVE  r \in add_permission_from_uri_or_macro(old, entry) <=>
              r \in RowsOf(entry) \/ (r \in old /\ ~\E n \in RowsOf(entry) : SameRow(n, r))
BY DEF add_permission_from_uri_or_macro, create_permission_for_principal

(* The same principal, permission and target. *)
LEMMA SameRowIs ==
    ASSUME NEW r, NEW s
    PROVE  SameRow(r, s) <=> r.who = s.who /\ r.perm = s.perm /\ r.target = s.target
BY DEF SameRow

(* Two such rows that say the same are one. *)
LEMMA OneGrant ==
    ASSUME NEW r \in Rows, NEW s \in Rows, SameRow(r, s), r.grant = s.grant
    PROVE  r = s
BY SameRowIs DEF Rows

(* What some entry lists has a last word. *)
LEMMA FinalCovers ==
    ASSUME NEW c \in Policies, NEW i \in DOMAIN c.perms, NEW e \in RowsOf(c.perms[i])
    PROVE  \E f \in Final(c) : SameRow(f, e)
<1> DEFINE n == Len(c.perms)
           about(m) == \E f \in RowsOf(c.perms[m]) : SameRow(f, e)
           S == {n - m : m \in {k \in 1..n : about(k)}}
<1>1. n \in Nat /\ DOMAIN c.perms = 1..n
    BY PolicyIs
<1> HIDE DEF n
<1>2. about(i)
    BY SameRowIs
<1> HIDE DEF about
<1>3. S \in SUBSET Nat /\ S # {}
    BY <1>1, <1>2
<1>4. PICK x \in S : \A y \in S : x <= y
    <2> HIDE DEF S
    <2> QED BY <1>3, Least
<1>5. PICK m \in 1..n : about(m) /\ x = n - m
    BY <1>4
<1>6. ASSUME NEW j \in 1..n, j > m PROVE ~about(j)
    <2> SUFFICES ASSUME about(j) PROVE FALSE
        OBVIOUS
    <2>1. n - j \in S
        OBVIOUS
    <2>2. n - m <= n - j
        BY <1>4, <1>5, <2>1
    <2> QED BY <1>1, <1>5, <1>6, <2>2
<1>7. PICK f \in RowsOf(c.perms[m]) : SameRow(f, e)
    BY <1>5 DEF about
<1>8. \A j \in 1..n : j > m => \A d \in RowsOf(c.perms[j]) : ~SameRow(d, f)
    BY <1>6, <1>7, SameRowIs DEF about
<1>9. f \in Final(c)
    BY <1>1, <1>5, <1>7, <1>8, LastWordIs DEF Final, n
<1> QED BY <1>7, <1>9

(* The last words are rows, each listed by an entry that no later one      *)
(* overrides.                                                              *)
LEMMA FinalIs ==
    ASSUME NEW c \in Policies, NEW f \in Final(c)
    PROVE  /\ f \in Rows /\ f.who \in Teams
           /\ \E i \in DOMAIN c.perms :
                 /\ f \in RowsOf(c.perms[i])
                 /\ \A j \in DOMAIN c.perms : j > i => \A e \in RowsOf(c.perms[j]) : ~SameRow(e, f)
BY PolicyIs, LastWordIs, EntryRows DEF Final

(* What the invariant says of one job. *)
LEMMA LoadingIs ==
    ASSUME AccessInv, NEW j \in Loaders
    PROVE  /\ loading[j] \in Loadings /\ loading[j].config \in Policies /\ loading[j].user \in People
           /\ loading[j].todo \subseteq DOMAIN loading[j].config.perms
           /\ loading[j].users \subseteq loading[j].config.users
           /\ loading[j].todo \subseteq Nat /\ loading[j].added \subseteq Rows
           /\ loading[j].phase = "idle" => loading[j] = NoLoading
           /\ \A i \in loading[j].todo : \A k \in DOMAIN loading[j].config.perms :
                 k > i /\ loading[j].config.perms[k].team = loading[j].config.perms[i].team => k \in loading[j].todo
BY DEF AccessInv, AccessTyped, InOrder, Loadings

(* The two jobs. *)
LEMMA LoadersAre == /\ "refresh" \in Loaders /\ "signin" \in Loaders /\ "refresh" # "signin"
                    /\ Loaders = {"refresh", "signin"}
BY DEF Loaders

(* A job that is not under way. *)
LEMMA NothingLoading ==
    /\ NoLoading \in Loadings /\ InOrder(NoLoading) /\ NoLoading.phase = "idle"
    /\ NoLoading.todo = {} /\ NoLoading.users = {} /\ EmptyPolicy \in Policies
<1>1. Service \in People
    BY AccessConstants
<1>2. EmptyPolicy \in Policies
    BY DEF Policies
<1> QED BY <1>1, <1>2 DEF NoLoading, Loadings, InOrder

(* The service account is nobody's group. *)
LEMMA ServiceIs == Service \in People /\ Service \notin Teams /\ DefaultTeam \in Teams /\ MaxEdits \in Nat
BY AccessConstants

(* The invariant holds at the start. *)
LEMMA AccessStarts == AccessInit => AccessInv
<1> SUFFICES ASSUME AccessInit PROVE AccessInv
    OBVIOUS
<1> USE DEF AccessInit
<1>1. [who |-> Service, perm |-> "read", target |-> <<"/", "%">>, grant |-> "permit"] \in Rows
    BY FixedTargets DEF Rows, Crud
<1>2. AccessTyped
    BY <1>1, NothingLoading, ServiceIs, LoadersAre DEF AccessTyped
<1>3. Unique
    BY DEF Unique
<1>4. \A j \in Loaders : InOrder(loading[j])
    BY NothingLoading
<1>5. Snapshot(loading["refresh"]) /\ Sources
    BY NothingLoading, LoadersAre DEF Snapshot, Sources
<1> QED BY <1>2, <1>3, <1>4, <1>5 DEF AccessInv

(* A refresh locks nobody out: the rows and memberships it saw at its      *)
(* start are there until its last step.                                    *)
LEMMA LockedOutNever == AccessInv => NeverLockedOut
<1> SUFFICES ASSUME AccessInv, NEW old, old = loading["refresh"], old.phase # "idle",
                    \A r \in grants : r.grant = "permit",
                    NEW u \in People \ {Service}, NEW p, NEW x \in Uris,
                    has_permission({r \in old.rows0 : r.who \in {u} \cup {g \in Teams : <<u, g>> \in old.team0}}, p, x)
             PROVE  user_has_permission(u, p, x)
    BY DEF NeverLockedOut
<1> DEFINE mine0 == {r \in old.rows0 : r.who \in {u} \cup {g \in Teams : <<u, g>> \in old.team0}}
<1>1. x \in Seq(Words)
    BY AccessConstants
<1>2. old.rows0 \subseteq Rows /\ grants \subseteq Rows
    BY LoadersAre DEF AccessInv, AccessTyped, Loadings
<1>3. \A r \in mine0 : r.target \in Targets
    BY <1>2 DEF Rows
<1>4. \E r \in mine0 : r.perm = p /\ Reaches(r.target, x)
    <2> HIDE DEF mine0
    <2>1. has_permission(mine0, p, x)
        BY DEF mine0
    <2> QED BY <1>1, <1>3, <2>1, ServerMatches
<1>5. PICK o \in mine0 : o.perm = p /\ Reaches(o.target, x)
    BY <1>4
<1>6. PICK r \in grants : SameRow(o, r)
    BY <1>5 DEF AccessInv, Snapshot
<1>7. r.who = o.who /\ r.perm = p /\ Reaches(r.target, x)
    BY <1>5, <1>6, SameRowIs
<1>8. old.team0 \subseteq members
    BY DEF AccessInv, Snapshot
<1>9. r \in all_permission_assignments_for_user(u)
    BY <1>5, <1>6, <1>7, <1>8 DEF all_permission_assignments_for_user, all_principals_for_user
<1>10. \A q \in all_permission_assignments_for_user(u) : q.grant = "permit"
    BY DEF all_permission_assignments_for_user
<1> QED BY <1>1, <1>2, <1>7, <1>9, <1>10, Permits

(* Rows and memberships are what the file says once nothing is under way:  *)
(* each row of the table is about the same as a last word, which is in the *)
(* table too, and there is one row of each.                                *)
LEMMA AppliedAlways == AccessInv => ConfigApplied
<1> SUFFICES ASSUME AccessInv, NEW c \in workedFrom, workedFrom = {c}, loading = [j \in Loaders |-> NoLoading]
             PROVE  /\ {r \in grants : r.who # Service} = Import(c)
                    /\ {m \in members : m[2] # DefaultTeam} = {m \in c.users : m[2] # DefaultTeam}
    BY DEF ConfigApplied
<1>1. c \in Policies /\ Converging(c)
    BY DEF AccessInv, AccessTyped
<1>2. loading["refresh"] = NoLoading /\ loading["signin"] = NoLoading
    BY LoadersAre
<1>3. \A r \in Final(c) : r \in grants /\ r.who # Service
    <2>1. \A r : ~Covers(NoLoading, r)
        BY NothingLoading DEF Covers
    <2> QED BY <1>1, <1>2, <2>1, FinalIs, ServiceIs DEF Converging
<1>4. ASSUME NEW r \in grants, r.who # Service PROVE r \in Final(c)
    <2>1. PICK f \in Final(c) : SameRow(f, r)
        BY <1>1, <1>2, <1>4, NothingLoading DEF Converging
    <2> QED BY <1>3, <2>1 DEF AccessInv, Unique
<1>5. {r \in grants : r.who # Service} = Import(c)
    <2> HIDE DEF AccessInv
    <2> QED BY <1>1, <1>3, <1>4, ImportIs
<1>6. {m \in members : m[2] # DefaultTeam} = {m \in c.users : m[2] # DefaultTeam}
    BY <1>1, <1>2, NothingLoading DEF Converging
<1> QED BY <1>5, <1>6

(* The types are part of the invariant. *)
LEMMA TypesAlways == AccessInv => AccessTypeOK
<1> SUFFICES ASSUME AccessInv PROVE AccessTypeOK
    OBVIOUS
<1>1. \A r \in grants : r.who \in People \cup Teams /\ r.perm \in Crud /\ r.grant \in {"permit", "deny"}
    BY ServiceIs DEF AccessInv, AccessTyped, Rows
<1>2. \A j \in Loaders : loading[j].phase \in {"idle", "users", "remove"}
    BY LoadingIs DEF Loadings
<1>3. DOMAIN loading = Loaders
    BY DEF AccessInv, AccessTyped
<1> QED BY <1>1, <1>2, <1>3 DEF AccessInv, AccessTyped, AccessTypeOK, Policies

-----------------------------------------------------------------------------
(* The steps *)

NewRefresh(c, us, td, rs, ms) ==
    [NoLoading EXCEPT !.phase = "users", !.config = c, !.users = us, !.todo = td, !.rows0 = rs, !.team0 = ms]
NewSignIn(u, c, us, td) ==
    [NoLoading EXCEPT !.phase = "users", !.user = u, !.config = c, !.users = us, !.todo = td]

(* A job that starts. *)
LEMMA NewRefreshIs ==
    ASSUME NEW c \in Policies, NEW us \in SUBSET (People \X Teams), NEW td \in SUBSET Nat, NEW rs \in SUBSET Rows,
           NEW ms \in SUBSET (People \X Teams)
    PROVE  NewRefresh(c, us, td, rs, ms) \in Loadings
BY NothingLoading DEF Loadings, NewRefresh

(* A sign-in that starts knows its user's part of the file. *)
LEMMA NewSignInIs ==
    ASSUME NEW u \in People, NEW c \in Policies, NEW us \in SUBSET (People \X Teams), NEW td \in SUBSET Nat,
           NEW new, new = NewSignIn(u, c, us, td)
    PROVE  /\ new \in Loadings /\ new.phase = "users" /\ new.config = c /\ new.users = us
           /\ new.todo = td
BY NothingLoading DEF Loadings, NewSignIn

(* An edit changes nothing but the file. *)
LEMMA EditKeeps == ASSUME AccessInv, NEW c \in Configurations, EditYaml(c) PROVE AccessInv'
<1> USE DEF EditYaml
<1>1. AccessTyped'
    <2>1. policy' \in Policies /\ policyEdits' \in 0..MaxEdits
        BY ServiceIs DEF AccessInv, AccessTyped, Policies
    <2> QED BY <2>1 DEF AccessInv, AccessTyped
<1>2. Unique' /\ (\A j \in Loaders : InOrder(loading[j]))' /\ Snapshot(loading["refresh"])' /\ Sources'
    BY DEF AccessInv, Unique, InOrder, Snapshot, Sources
<1>3. (\A d \in workedFrom : workedFrom = {d} => Converging(d))'
    BY DEF AccessInv, Converging, Covers
<1> QED BY <1>1, <1>2, <1>3 DEF AccessInv

(* A refresh has the whole file still to do, so it covers every last word. *)
LEMMA RefreshStartKeeps == ASSUME AccessInv, RefreshStarts PROVE AccessInv'
<1> DEFINE new == [NoLoading EXCEPT !.phase = "users", !.config = policy, !.users = policy.users,
                                    !.todo = DOMAIN policy.perms,
                                    !.rows0 = {r \in grants : r.who # Service}, !.team0 = members]
<1>1. /\ loading["refresh"].phase = "idle" /\ loading' = [loading EXCEPT !["refresh"] = new]
      /\ workedFrom' = {policy} \cup (IF loading["signin"].phase = "idle" THEN {} ELSE {loading["signin"].config})
      /\ policy' = policy /\ members' = members /\ grants' = grants /\ policyEdits' = policyEdits
    BY DEF RefreshStarts
<1>2. loading'["refresh"] = new /\ loading'["signin"] = loading["signin"] /\ DOMAIN loading' = Loaders
    BY <1>1, LoadersAre DEF AccessInv, AccessTyped
<1>3. policy \in Policies /\ members \subseteq People \X Teams /\ grants \subseteq Rows
    BY DEF AccessInv, AccessTyped
<1>4. policy.users \subseteq People \X Teams /\ DOMAIN policy.perms \subseteq Nat
    BY <1>3, PolicyIs
<1> HIDE DEF new
<1>5. /\ new \in Loadings /\ new.phase = "users" /\ new.config = policy /\ new.users = policy.users
      /\ new.todo = DOMAIN policy.perms /\ new.rows0 = {r \in grants : r.who # Service}
      /\ new.team0 = members /\ new.added = {}
    <2> DEFINE rs == {r \in grants : r.who # Service}
               us == policy.users
               td == DOMAIN policy.perms
    <2>1. /\ rs \in SUBSET Rows /\ us \in SUBSET (People \X Teams) /\ td \in SUBSET Nat
          /\ members \in SUBSET (People \X Teams)
        BY <1>3, <1>4
    <2>2. new = NewRefresh(policy, us, td, rs, members)
        BY DEF new, NewRefresh
    <2> HIDE DEF rs, us, td
    <2>3. new = NewRefresh(policy, us, td, rs, members) /\ policy \in Policies
        BY <1>3, <2>2
    <2>4. new \in Loadings
        BY <2>1, <2>3, NewRefreshIs
    <2>5. new.phase = "users" /\ new.config = policy
        BY <2>3, NothingLoading DEF Loadings, NewRefresh
    <2>6. new.users = us /\ new.todo = td
        BY <2>3, NothingLoading DEF Loadings, NewRefresh
    <2>7. new.rows0 = rs /\ new.team0 = members
        BY <2>3, NothingLoading DEF Loadings, NewRefresh
    <2>8. new.added = {}
        BY <2>3 DEF NoLoading, NewRefresh
    <2> QED BY <2>4, <2>5, <2>6, <2>7, <2>8 DEF rs, us, td
<1>6. AccessTyped'
    <2>1. loading' \in [Loaders -> Loadings]
        BY <1>1, <1>5 DEF AccessInv, AccessTyped
    <2> QED BY <1>1, <1>2, <2>1, LoadingIs, LoadersAre DEF AccessInv, AccessTyped
<1>7. Unique' /\ Sources'
    BY <1>1, <1>2, <1>5 DEF AccessInv, Unique, Sources
<1>8. (\A j \in Loaders : InOrder(loading[j]))'
    BY <1>2, <1>5, LoadersAre DEF AccessInv, InOrder
<1>9. Snapshot(loading["refresh"])'
    BY <1>1, <1>2, <1>5, SameRowIs DEF Snapshot
<1>10. ASSUME NEW c \in workedFrom', (workedFrom = {c})' PROVE Converging(c)'
    <2>1. c = policy
        BY <1>1, <1>10
    <2>2. ASSUME NEW r \in Final(c) PROVE Covers(new, r)
        BY <1>5, <1>3, <2>1, FinalIs, SameRowIs DEF Covers
    <2>3. \A r \in grants : r.who # Service => \E o \in new.rows0 : SameRow(o, r)
        BY <1>5, SameRowIs
    <2> QED BY <1>1, <1>2, <1>5, <2>1, <2>2, <2>3 DEF Converging
<1> QED BY <1>6, <1>7, <1>8, <1>9, <1>10 DEF AccessInv

(* A sign-in has the entries of all its groups, so of a group all or none. *)
LEMMA SignInStartKeeps ==
    ASSUME AccessInv, NEW u \in People \ {Service}, import_permissions_from_yaml_file(u) PROVE AccessInv'
<1> DEFINE mine == {e \in policy.users : e[1] = u}
           groups == {e[2] : e \in mine} \cup {DefaultTeam} \cup {g \in Teams : <<u, g>> \in members}
           mytodo == {i \in DOMAIN policy.perms : policy.perms[i].team \in groups}
           new == [NoLoading EXCEPT !.phase = "users", !.user = u, !.config = policy, !.users = mine,
                                    !.todo = mytodo]
<1>1. /\ loading["signin"].phase = "idle" /\ loading' = [loading EXCEPT !["signin"] = new]
      /\ workedFrom' = IF workedFrom = {} THEN {} ELSE workedFrom \cup {policy}
      /\ policy' = policy /\ members' = members /\ grants' = grants /\ policyEdits' = policyEdits
    BY DEF import_permissions_from_yaml_file
<1> HIDE DEF groups
<1>2. loading'["signin"] = new /\ loading'["refresh"] = loading["refresh"] /\ DOMAIN loading' = Loaders
    BY <1>1, LoadersAre DEF AccessInv, AccessTyped
<1>3. policy \in Policies /\ workedFrom \subseteq Policies
    BY DEF AccessInv, AccessTyped
<1>4. mine \subseteq People \X Teams /\ mytodo \subseteq Nat
    BY <1>3, PolicyIs
<1>5. /\ new \in Loadings /\ new.phase = "users" /\ new.config = policy /\ new.users = mine
      /\ new.todo = mytodo
    <2>1. mine \in SUBSET (People \X Teams) /\ mytodo \in SUBSET Nat
        BY <1>4
    <2>2. new = NewSignIn(u, policy, mine, mytodo)
        BY DEF NewSignIn
    <2> HIDE DEF new, mine, mytodo
    <2> QED BY <1>3, <2>1, <2>2, NewSignInIs
<1>6. mine \subseteq policy.users /\ mytodo \subseteq DOMAIN policy.perms
      /\ \A i \in mytodo, k \in DOMAIN policy.perms : policy.perms[k].team = policy.perms[i].team => k \in mytodo
    OBVIOUS
<1> HIDE DEF new, mine, mytodo
<1>7. AccessTyped'
    <2>1. loading' \in [Loaders -> Loadings]
        BY <1>1, <1>5 DEF AccessInv, AccessTyped
    <2> QED BY <1>1, <1>2, <1>3, <1>5, <2>1 DEF AccessInv, AccessTyped
<1>8. Unique' /\ Snapshot(loading["refresh"])'
    BY <1>1, <1>2 DEF AccessInv, Unique, Snapshot
<1>9. (\A j \in Loaders : InOrder(loading[j]))'
    BY <1>2, <1>5, <1>6, LoadersAre DEF AccessInv, InOrder
<1>10. Sources'
    BY <1>1, <1>2, <1>5 DEF AccessInv, Sources
<1>11. ASSUME NEW c \in workedFrom', (workedFrom = {c})' PROVE Converging(c)'
    <2>1. c \in workedFrom /\ workedFrom = {c}
        BY <1>1, <1>11
    <2>2. Converging(c)
        BY <2>1 DEF AccessInv
    <2>3. \A r : ~Covers(loading["signin"], r)
        BY <1>1, LoadersAre, LoadingIs, NothingLoading DEF Covers
    <2> QED BY <1>1, <1>2, <2>2, <2>3 DEF Converging
<1> QED BY <1>7, <1>8, <1>9, <1>10, <1>11 DEF AccessInv

(* A step of one job leaves the other alone. *)
LEMMA OneJob ==
    ASSUME AccessInv, NEW j \in Loaders, NEW new \in Loadings, loading' = [loading EXCEPT ![j] = new]
    PROVE  /\ loading' \in [Loaders -> Loadings] /\ loading'[j] = new
           /\ \A k \in Loaders : k # j => loading'[k] = loading[k]
BY DEF AccessInv, AccessTyped

(* The steps of a job: memberships, *)
LEMMA AddUserKeeps == ASSUME AccessInv, NEW j \in Loaders, AddUser(j) PROVE AccessInv'
<1>1. PICK e \in loading[j].users :
         /\ loading[j].phase = "users" /\ members' = members \cup {e}
         /\ loading' = [loading EXCEPT ![j].users = @ \ {e}]
         /\ policy' = policy /\ grants' = grants /\ workedFrom' = workedFrom /\ policyEdits' = policyEdits
    BY DEF AddUser
<1> DEFINE old == loading[j]
           new == [old EXCEPT !.users = @ \ {e}]
<1>2. old \in Loadings /\ e \in People \X Teams /\ e \in old.config.users /\ old.config \in Policies
    <2>1. old \in Loadings
        BY LoadingIs
    <2> QED BY <2>1, LoadingIs DEF Loadings
<1>3. new \in Loadings /\ loading' = [loading EXCEPT ![j] = new]
    BY <1>1, <1>2 DEF Loadings
<1>4. /\ new.users = old.users \ {e} /\ new.phase = old.phase /\ new.config = old.config /\ new.todo = old.todo
      /\ new.rows0 = old.rows0 /\ new.team0 = old.team0 /\ new.added = old.added
    BY <1>2 DEF Loadings
<1> HIDE DEF new
<1>5. /\ loading' \in [Loaders -> Loadings] /\ loading'[j] = new
      /\ \A k \in Loaders : k # j => loading'[k] = loading[k]
    BY <1>3, OneJob
<1>6. \A k \in Loaders :
         /\ loading'[k].phase = loading[k].phase /\ loading'[k].config = loading[k].config
         /\ loading'[k].todo = loading[k].todo /\ loading'[k].rows0 = loading[k].rows0
         /\ loading'[k].team0 = loading[k].team0 /\ loading'[k].added = loading[k].added
    BY <1>4, <1>5
<1>7. AccessTyped'
    BY <1>1, <1>2, <1>5, <1>6, LoadersAre DEF AccessInv, AccessTyped
<1>8. Unique' /\ Sources'
    BY <1>1, <1>6, LoadersAre DEF AccessInv, Unique, Sources
<1>9. (\A k \in Loaders : InOrder(loading[k]))'
    <2>1. InOrder(new)
        BY <1>1, <1>4 DEF AccessInv, InOrder
    <2> QED BY <1>5, <2>1 DEF AccessInv, InOrder
<1>10. Snapshot(loading["refresh"])'
    BY <1>1, <1>6, LoadersAre DEF AccessInv, Snapshot
<1>11. ASSUME NEW c \in workedFrom', (workedFrom = {c})' PROVE Converging(c)'
    <2>1. c \in workedFrom /\ workedFrom = {c} /\ Converging(c)
        BY <1>1, <1>11 DEF AccessInv
    <2>2. e \in c.users
        BY <1>1, <1>2, <2>1, LoadersAre DEF AccessInv, Sources
    <2>3. \A r : Covers(loading["refresh"], r) <=> Covers(loading["refresh"], r)'
        BY <1>6, LoadersAre DEF Covers
    <2>4. \A r : Covers(loading["signin"], r) <=> Covers(loading["signin"], r)'
        BY <1>6, LoadersAre DEF Covers
    <2>5. (\A m \in c.users : m \in members \/ m \in loading["refresh"].users)'
        BY <1>1, <1>4, <1>5, <2>1, LoadersAre DEF Converging
    <2>6. (\A m \in members : m[2] # DefaultTeam =>
              m \in c.users \/ (loading["refresh"].phase # "idle" /\ m \in loading["refresh"].team0))'
        BY <1>1, <1>6, <2>1, <2>2, LoadersAre DEF Converging
    <2>7. (\A r \in Final(c) : r \in grants \/ Covers(loading["refresh"], r) \/ Covers(loading["signin"], r))'
        BY <1>1, <2>1, <2>3, <2>4 DEF Converging
    <2>8. (\A r \in grants : r.who # Service =>
              \/ \E f \in Final(c) : SameRow(f, r)
              \/ loading["refresh"].phase # "idle" /\ \E o \in loading["refresh"].rows0 : SameRow(o, r))'
        BY <1>1, <1>6, <2>1, LoadersAre DEF Converging
    <2> QED BY <2>5, <2>6, <2>7, <2>8 DEF Converging
<1> QED BY <1>7, <1>8, <1>9, <1>10, <1>11 DEF AccessInv

(* the default group, *)
LEMMA AddDefaultKeeps == ASSUME AccessInv, NEW j \in Loaders, AddDefault(j) PROVE AccessInv'
<1> DEFINE old == loading[j]
           new == IF j = "signin" THEN NoLoading ELSE [old EXCEPT !.phase = "remove"]
           more == (IF j = "signin" THEN {old.user} ELSE People \ {Service}) \X {DefaultTeam}
<1>1. /\ old.phase = "users" /\ old.users = {} /\ old.todo = {}
      /\ members' = members \cup more /\ loading' = [loading EXCEPT ![j] = new]
      /\ policy' = policy /\ grants' = grants /\ workedFrom' = workedFrom /\ policyEdits' = policyEdits
    <2>1. loading' = [loading EXCEPT ![j] = IF j = "signin" THEN NoLoading ELSE [@ EXCEPT !.phase = "remove"]]
        BY DEF AddDefault
    <2> QED BY <2>1 DEF AddDefault
<1>2. old \in Loadings /\ old.user \in People
    BY LoadingIs
<1>3. more \subseteq People \X Teams /\ \A m \in more : m[2] = DefaultTeam
    BY <1>2, ServiceIs
<1>4. new \in Loadings
    BY <1>2, NothingLoading DEF Loadings
<1>5. j = "refresh" => /\ new.phase = "remove" /\ new.users = {} /\ new.todo = {} /\ new.config = old.config
                       /\ new.rows0 = old.rows0 /\ new.team0 = old.team0 /\ new.added = old.added
    BY <1>1, <1>2 DEF Loadings
<1>6. j = "signin" => new = NoLoading
    OBVIOUS
<1> HIDE DEF new, more
<1>7. /\ loading' \in [Loaders -> Loadings] /\ loading'[j] = new
      /\ \A k \in Loaders : k # j => loading'[k] = loading[k]
    BY <1>1, <1>4, OneJob
<1>8. /\ loading'["refresh"].config = loading["refresh"].config /\ loading'["refresh"].users = loading["refresh"].users
      /\ loading'["refresh"].todo = loading["refresh"].todo /\ loading'["refresh"].rows0 = loading["refresh"].rows0
      /\ loading'["refresh"].team0 = loading["refresh"].team0 /\ loading'["refresh"].added = loading["refresh"].added
      /\ loading'["refresh"].phase = "idle" <=> loading["refresh"].phase = "idle"
    BY <1>1, <1>5, <1>7, LoadersAre
<1>9. \/ loading'["signin"] = loading["signin"]
      \/ loading'["signin"] = NoLoading /\ loading["signin"].todo = {}
    BY <1>1, <1>6, <1>7, LoadersAre
<1>10. AccessTyped'
    BY <1>1, <1>3, <1>7, <1>9, NothingLoading DEF AccessInv, AccessTyped
<1>11. Unique' /\ Sources'
    BY <1>1, <1>8, <1>9, NothingLoading DEF AccessInv, Unique, Sources
<1>12. (\A k \in Loaders : InOrder(loading[k]))'
    <2>1. InOrder(new)
        <3>1. CASE j = "signin"
            BY <1>6, <3>1, NothingLoading
        <3>2. CASE j = "refresh"
            BY <1>5, <3>2 DEF InOrder
        <3> QED BY <3>1, <3>2, LoadersAre
    <2> QED BY <1>7, <2>1 DEF AccessInv, InOrder
<1>13. Snapshot(loading["refresh"])'
    BY <1>1, <1>8 DEF AccessInv, Snapshot
<1>14. ASSUME NEW c \in workedFrom', (workedFrom = {c})' PROVE Converging(c)'
    <2>1. c \in workedFrom /\ workedFrom = {c} /\ Converging(c)
        BY <1>1, <1>14 DEF AccessInv
    <2>2. \A r : Covers(loading["refresh"], r) <=> Covers(loading["refresh"], r)'
        BY <1>8 DEF Covers
    <2>3. \A r : Covers(loading["signin"], r) => Covers(loading["signin"], r)'
        BY <1>9 DEF Covers
    <2>4. (\A m \in c.users : m \in members \/ m \in loading["refresh"].users)'
        BY <1>1, <1>8, <2>1 DEF Converging
    <2>5. (\A m \in members : m[2] # DefaultTeam =>
              m \in c.users \/ (loading["refresh"].phase # "idle" /\ m \in loading["refresh"].team0))'
        BY <1>1, <1>3, <1>8, <2>1 DEF Converging
    <2>6. (\A r \in Final(c) : r \in grants \/ Covers(loading["refresh"], r) \/ Covers(loading["signin"], r))'
        BY <1>1, <2>1, <2>2, <2>3 DEF Converging
    <2>7. (\A r \in grants : r.who # Service =>
              \/ \E f \in Final(c) : SameRow(f, r)
              \/ loading["refresh"].phase # "idle" /\ \E o \in loading["refresh"].rows0 : SameRow(o, r))'
        BY <1>1, <1>8, <2>1 DEF Converging
    <2> QED BY <2>4, <2>5, <2>6, <2>7 DEF Converging
<1> QED BY <1>10, <1>11, <1>12, <1>13, <1>14 DEF AccessInv

(* and the removal of what was there before and is not listed: what it     *)
(* keeps of that was added again, so a last word is about it.              *)
LEMMA RemoveOldKeeps == ASSUME AccessInv, RemoveOld PROVE AccessInv'
<1> DEFINE old == loading["refresh"]
<1>1. /\ old.phase = "remove" /\ loading' = [loading EXCEPT !["refresh"] = NoLoading]
      /\ grants' = {r \in grants : (\E o \in old.rows0 : SameRow(o, r)) => \E a \in old.added : SameRow(a, r)}
      /\ members' = {m \in members : m \in old.team0 => m \in old.config.users \/ m[2] = DefaultTeam}
      /\ policy' = policy /\ workedFrom' = workedFrom /\ policyEdits' = policyEdits
    BY DEF RemoveOld
<1>2. /\ loading' \in [Loaders -> Loadings] /\ loading'["refresh"] = NoLoading
      /\ loading'["signin"] = loading["signin"]
    BY <1>1, OneJob, LoadersAre, NothingLoading
<1>3. AccessTyped'
    BY <1>1, <1>2 DEF AccessInv, AccessTyped
<1>4. Unique' /\ Sources'
    BY <1>1, <1>2, NothingLoading DEF AccessInv, Unique, Sources
<1>5. (\A k \in Loaders : InOrder(loading[k]))'
    BY <1>2, NothingLoading, LoadersAre DEF AccessInv, InOrder
<1>6. Snapshot(loading["refresh"])'
    BY <1>2, NothingLoading DEF Snapshot
<1>7. ASSUME NEW c \in workedFrom', (workedFrom = {c})' PROVE Converging(c)'
    <2>1. c \in workedFrom /\ workedFrom = {c} /\ Converging(c) /\ c \in Policies
        BY <1>1, <1>7 DEF AccessInv, AccessTyped
    <2>2. old.config = c /\ old.users = {} /\ old.todo = {}
        BY <1>1, <2>1, LoadersAre DEF AccessInv, Sources, InOrder
    <2>3. \A k \in DOMAIN c.perms : RowsOf(c.perms[k]) \subseteq old.added
        BY <1>1, <2>2 DEF AccessInv, Snapshot
    <2>4. \A a \in old.added : \E f \in Final(c) : SameRow(f, a)
        <3>1. \A a \in old.added : \E k \in DOMAIN c.perms : a \in RowsOf(c.perms[k])
            BY <1>1, <2>2 DEF AccessInv, Snapshot
        <3> QED BY <2>1, <3>1, FinalCovers
    <2>5. (\A m \in c.users : m \in members \/ m \in loading["refresh"].users)'
        BY <1>1, <2>1, <2>2 DEF Converging
    <2>6. (\A m \in members : m[2] # DefaultTeam =>
              m \in c.users \/ (loading["refresh"].phase # "idle" /\ m \in loading["refresh"].team0))'
        BY <1>1, <2>1, <2>2 DEF Converging
    <2>7. (\A r \in Final(c) : r \in grants \/ Covers(loading["refresh"], r) \/ Covers(loading["signin"], r))'
        <3> SUFFICES ASSUME NEW r \in Final(c) PROVE r \in grants' \/ Covers(loading["signin"], r)'
            OBVIOUS
        <3>1. r \in grants \/ Covers(loading["signin"], r)
            BY <2>1, <2>2 DEF Converging, Covers
        <3>2. r \in old.added
            BY <2>1, <2>3, FinalIs
        <3>3. r \in grants => r \in grants'
            BY <1>1, <3>2, SameRowIs
        <3>4. Covers(loading["signin"], r) => Covers(loading["signin"], r)'
            BY <1>2 DEF Covers
        <3> QED BY <3>1, <3>3, <3>4
    <2>8. (\A r \in grants : r.who # Service =>
              \/ \E f \in Final(c) : SameRow(f, r)
              \/ loading["refresh"].phase # "idle" /\ \E o \in loading["refresh"].rows0 : SameRow(o, r))'
        <3> SUFFICES ASSUME NEW r \in grants', r.who # Service PROVE \E f \in Final(c) : SameRow(f, r)
            OBVIOUS
        <3>1. CASE \E f \in Final(c) : SameRow(f, r)
            BY <3>1
        <3>2. CASE \E o \in old.rows0 : SameRow(o, r)
            <4>1. PICK a \in old.added : SameRow(a, r)
                BY <1>1, <3>2
            <4> QED BY <2>4, <4>1, SameRowIs
        <3> QED BY <1>1, <2>1, <3>1, <3>2 DEF Converging
    <2> QED BY <2>5, <2>6, <2>7, <2>8 DEF Converging
<1> QED BY <1>3, <1>4, <1>5, <1>6, <1>7 DEF AccessInv

(* An entry that is added overrides what other jobs said of its rows. If   *)
(* that was the last word, then the entry is, or the entry that is comes   *)
(* later for the same group, and the job still has it to do.               *)
LEMMA AddPermissionKeeps == ASSUME AccessInv, NEW j \in Loaders, AddPermission(j) PROVE AccessInv'
<1>1. PICK i \in loading[j].todo :
         /\ loading[j].phase = "users" /\ loading[j].users = {} /\ \A k \in loading[j].todo : i <= k
         /\ grants' = add_permission_from_uri_or_macro(grants, loading[j].config.perms[i])
         /\ loading' = [loading EXCEPT ![j].todo = @ \ {i}, ![j].added = @ \cup RowsOf(loading[j].config.perms[i])]
         /\ policy' = policy /\ members' = members /\ workedFrom' = workedFrom /\ policyEdits' = policyEdits
    BY DEF AddPermission
<1> DEFINE old == loading[j]
           perms == old.config.perms
           entry == perms[i]
           rows == RowsOf(entry)
           new == [[old EXCEPT !.todo = @ \ {i}] EXCEPT !.added = @ \cup rows]
<1>2. /\ old \in Loadings /\ old.config \in Policies /\ i \in DOMAIN perms /\ old.todo \subseteq DOMAIN perms
      /\ DOMAIN perms \subseteq Nat /\ i \in Nat
      /\ \A k \in DOMAIN perms : k > i /\ perms[k].team = entry.team => k \in old.todo
    <2>1. DOMAIN perms \subseteq Nat
        BY LoadingIs, PolicyIs
    <2> QED BY <2>1, LoadingIs
<1>3. \A e \in rows : e \in Rows /\ e.who = entry.team /\ e.grant = Grant(entry)
    BY <1>2, EntryRows
<1>4. new \in Loadings /\ loading' = [loading EXCEPT ![j] = new]
    <2>1. loading' = [loading EXCEPT ![j] = new]
        BY <1>1, <1>2 DEF AccessInv, AccessTyped
    <2>2. rows \subseteq Rows
        BY <1>3
    <2> HIDE DEF rows
    <2> QED BY <1>2, <2>1, <2>2 DEF Loadings
<1>5. /\ new.todo = old.todo \ {i} /\ new.added = old.added \cup rows /\ new.phase = old.phase
      /\ new.users = old.users /\ new.config = old.config /\ new.rows0 = old.rows0 /\ new.team0 = old.team0
    <2> HIDE DEF rows
    <2> QED BY <1>2 DEF Loadings
<1> HIDE DEF new, rows
<1>6. /\ loading' \in [Loaders -> Loadings] /\ loading'[j] = new
      /\ \A k \in Loaders : k # j => loading'[k] = loading[k]
    BY <1>4, OneJob
<1>7. \A k \in Loaders :
         /\ loading'[k].phase = loading[k].phase /\ loading'[k].config = loading[k].config
         /\ loading'[k].users = loading[k].users /\ loading'[k].rows0 = loading[k].rows0
         /\ loading'[k].team0 = loading[k].team0
    BY <1>5, <1>6
<1>8. \A r : r \in grants' <=> r \in rows \/ (r \in grants /\ ~\E n \in rows : SameRow(n, r))
    BY <1>1, AddsAre DEF rows
<1>9. \A e, d \in rows : SameRow(e, d) => e = d
    BY <1>3, OneGrant
<1>10. grants' \subseteq Rows
    BY <1>3, <1>8 DEF AccessInv, AccessTyped
<1>11. AccessTyped'
    BY <1>1, <1>6, <1>7, <1>10, LoadersAre DEF AccessInv, AccessTyped
<1>12. Unique'
    <2> SUFFICES ASSUME NEW r \in grants', NEW s \in grants', SameRow(r, s) PROVE r = s
        BY DEF Unique
    <2>1. SameRow(s, r)
        BY SameRowIs
    <2> QED BY <1>8, <1>9, <2>1 DEF AccessInv, Unique
<1>13. Sources'
    BY <1>1, <1>7, LoadersAre DEF AccessInv, Sources
<1>14. (\A k \in Loaders : InOrder(loading[k]))'
    <2>1. InOrder(new)
        <3>1. InOrder(old)
            BY DEF AccessInv
        <3>2. \A m \in new.todo : \A k \in DOMAIN perms : k > m /\ perms[k].team = perms[m].team => k \in new.todo
            <4> SUFFICES ASSUME NEW m \in new.todo, NEW k \in DOMAIN perms, k > m, perms[k].team = perms[m].team
                         PROVE  k \in new.todo
                OBVIOUS
            <4>1. m \in old.todo /\ i <= m /\ m \in Nat /\ k \in Nat
                BY <1>1, <1>2, <1>5
            <4>2. k \in old.todo /\ k # i
                BY <1>2, <3>1, <4>1 DEF InOrder
            <4> QED BY <1>5, <4>2
        <3> QED BY <1>1, <1>5, <3>1, <3>2 DEF InOrder
    <2> QED BY <1>6, <2>1 DEF AccessInv, InOrder
<1>15. \A r \in grants : \E s \in grants' : SameRow(r, s)
    BY <1>8, SameRowIs
<1>16. Snapshot(loading["refresh"])'
    <2> SUFFICES ASSUME loading["refresh"].phase # "idle" PROVE Snapshot(loading["refresh"])'
        BY <1>7, LoadersAre DEF Snapshot
    <2> DEFINE ref == loading["refresh"]
    <2>1. \A o \in ref.rows0 : \E r \in grants' : SameRow(o, r)
        <3>1. \A o \in ref.rows0 : \E r \in grants : SameRow(o, r)
            BY DEF AccessInv, Snapshot
        <3> QED BY <1>15, <3>1, SameRowIs
    <2>2. ref.team0 \subseteq members'
        BY <1>1 DEF AccessInv, Snapshot
    <2>3. CASE j = "refresh"
        <3>1. \A k \in DOMAIN perms : k \in new.todo \/ RowsOf(perms[k]) \subseteq new.added
            BY <1>5, <2>3 DEF AccessInv, Snapshot, rows
        <3>2. \A a \in new.added : \E k \in DOMAIN perms : a \in RowsOf(perms[k])
            BY <1>2, <1>5, <2>3 DEF AccessInv, Snapshot, rows
        <3> QED BY <1>5, <1>6, <2>1, <2>2, <2>3, <3>1, <3>2 DEF Snapshot
    <2>4. CASE j # "refresh"
        <3>1. loading'["refresh"] = ref
            BY <1>6, <2>4, LoadersAre
        <3> QED BY <2>1, <2>2, <3>1 DEF AccessInv, Snapshot
    <2> QED BY <2>3, <2>4
<1>17. ASSUME NEW c \in workedFrom', (workedFrom = {c})' PROVE Converging(c)'
    <2>1. c \in workedFrom /\ workedFrom = {c} /\ Converging(c) /\ c \in Policies
        BY <1>1, <1>17 DEF AccessInv, AccessTyped
    <2>2. old.config = c
        BY <1>1, <2>1, LoadersAre DEF AccessInv, Sources
    <2>3. (\A m \in c.users : m \in members \/ m \in loading["refresh"].users)'
        BY <1>1, <1>7, <2>1, LoadersAre DEF Converging
    <2>4. (\A m \in members : m[2] # DefaultTeam =>
              m \in c.users \/ (loading["refresh"].phase # "idle" /\ m \in loading["refresh"].team0))'
        BY <1>1, <1>7, <2>1, LoadersAre DEF Converging
    <2>5. (\A r \in grants : r.who # Service =>
              \/ \E f \in Final(c) : SameRow(f, r)
              \/ loading["refresh"].phase # "idle" /\ \E o \in loading["refresh"].rows0 : SameRow(o, r))'
        <3>1. \A e \in rows : \E f \in Final(c) : SameRow(f, e)
            BY <1>2, <2>1, <2>2, FinalCovers DEF rows
        <3> QED BY <1>7, <1>8, <2>1, <3>1, LoadersAre DEF Converging
    <2>6. ASSUME NEW r \in Final(c) PROVE r \in grants' \/ (\E k \in Loaders : Covers(loading[k], r)')
        <3>1. \A m \in new.todo : (\E e \in RowsOf(perms[m]) : SameRow(e, r)) => Covers(loading[j], r)'
            BY <1>5, <1>6 DEF Covers
        <3>2. \A k \in Loaders : k # j /\ Covers(loading[k], r) => Covers(loading[k], r)'
            BY <1>6 DEF Covers
        <3>3. CASE \E n \in rows : SameRow(n, r)
            <4>1. PICK n \in rows : SameRow(n, r)
                BY <3>3
            <4>2. PICK m \in DOMAIN perms :
                     /\ r \in RowsOf(perms[m])
                     /\ \A l \in DOMAIN perms : l > m => \A e \in RowsOf(perms[l]) : ~SameRow(e, r)
                BY <2>1, <2>2, FinalIs
            <4>3. m \in Nat /\ ~(i > m)
                BY <1>2, <4>1, <4>2 DEF rows
            <4>4. CASE m = i
                BY <1>8, <4>2, <4>4 DEF rows
            <4>5. CASE m > i
                <5>1. perms[m].team = entry.team
                    BY <1>2, <1>3, <4>1, <4>2, EntryRows, SameRowIs
                <5>2. m \in new.todo
                    BY <1>2, <1>5, <4>5, <5>1
                <5> QED BY <3>1, <4>2, <5>2, SameRowIs
            <4> QED BY <1>2, <4>3, <4>4, <4>5
        <3>4. CASE ~\E n \in rows : SameRow(n, r)
            <4>1. r \in grants => r \in grants'
                BY <1>8, <3>4
            <4>2. Covers(loading[j], r) => Covers(loading[j], r)'
                <5> SUFFICES ASSUME Covers(loading[j], r) PROVE Covers(loading[j], r)'
                    OBVIOUS
                <5>1. PICK m \in old.todo : \E e \in RowsOf(perms[m]) : SameRow(e, r)
                    BY DEF Covers
                <5>2. m # i
                    BY <3>4, <5>1 DEF rows
                <5> QED BY <1>5, <3>1, <5>1, <5>2
            <4> QED BY <2>1, <3>2, <4>1, <4>2, LoadersAre DEF Converging
        <3> QED BY <3>3, <3>4
    <2>7. (\A r \in Final(c) : r \in grants \/ Covers(loading["refresh"], r) \/ Covers(loading["signin"], r))'
        <3> SUFFICES ASSUME NEW r \in Final(c)
                     PROVE  r \in grants' \/ Covers(loading["refresh"], r)' \/ Covers(loading["signin"], r)'
            OBVIOUS
        <3> QED BY <2>6, LoadersAre
    <2> QED BY <2>3, <2>4, <2>5, <2>7 DEF Converging
<1> QED BY <1>11, <1>12, <1>13, <1>14, <1>16, <1>17 DEF AccessInv

(* Every step keeps the invariant. *)
LEMMA AccessKept == AccessInv /\ [AccessNext]_acVars => AccessInv'
<1> SUFFICES ASSUME AccessInv, [AccessNext]_acVars PROVE AccessInv'
    OBVIOUS
<1>1. CASE \E c \in Configurations : EditYaml(c)
    BY <1>1, EditKeeps
<1>2. CASE RefreshStarts
    BY <1>2, RefreshStartKeeps
<1>3. CASE RemoveOld
    BY <1>3, RemoveOldKeeps
<1>4. CASE \E u \in People \ {Service} : import_permissions_from_yaml_file(u)
    BY <1>4, SignInStartKeeps
<1>5. CASE \E j \in Loaders : AddUser(j)
    BY <1>5, AddUserKeeps
<1>6. CASE \E j \in Loaders : AddPermission(j)
    BY <1>6, AddPermissionKeeps
<1>7. CASE \E j \in Loaders : AddDefault(j)
    BY <1>7, AddDefaultKeeps
<1>8. CASE UNCHANGED acVars
    BY <1>8 DEF acVars, AccessInv, AccessTyped, Unique, InOrder, Snapshot, Sources, Converging, Covers
<1> QED BY <1>1, <1>2, <1>3, <1>4, <1>5, <1>6, <1>7, <1>8 DEF AccessNext

(* AccessSound for any people, groups and files: the lists and the answers *)
(* the frontend gets agree with what the server lets through, also in the  *)
(* middle of imports, a refresh locks nobody out, its result is what the   *)
(* file says, and groups above a readable one can be navigated to.         *)
THEOREM AccessIsSound == AccessSpec => []AccessSound
<1>1. AccessInv => AccessSound
    <2>1. AccessInv => grants \subseteq Rows
        BY DEF AccessInv, AccessTyped
    <2> QED BY <2>1, TypesAlways, FrontendOK, LockedOutNever, AppliedAlways, NavigableOK DEF AccessSound
<1> QED BY AccessStarts, AccessKept, <1>1, PTL DEF AccessSpec
=============================================================================
