--------------------------- MODULE FetchOneProofs ---------------------------
(***************************************************************************)
(* Proofs about FetchOne, for any calls and urls, however they overlap, in *)
(* a batch or not, and whatever the adapters and the tiers answer.         *)
(***************************************************************************)
EXTENDS FetchOne, FiniteSetTheorems, TLAPS

Other(r) == IF r.raw THEN "page" ELSE "raw"
Clean(e) == GuardOn /\ ~missed => (e.reason = "ok" => ~e.tainted)

(* What a call has is its own text and was screened; what is stored was    *)
(* screened and is nobody's source.                                        *)
Own(c) == Delivered(c) => env[c].text # Other(req[c])
Kept(u) == row[u].text # "raw" /\ Clean(row[u])

Entries ==
  /\ req \in [Callers -> Request] /\ missed \in BOOLEAN
  /\ pc = [c \in Callers |-> pc[c]] /\ env = [c \in Callers |-> env[c]]
  /\ row = [u \in Urls |-> row[u]]

FetchInv ==
  /\ Entries
  /\ \A c \in Callers : Own(c) /\ Clean(env[c])
  /\ \A u \in Urls : Kept(u)

(* A step that ends with an envelope. *)
LEMMA FinishStep ==
  ASSUME FetchInv, NEW c \in Callers, NEW e \in Envelope, e.text # Other(req[c]),
         Finish(c, e), req' = req
  PROVE  FetchInv'
<1>1. PICK detects \in BOOLEAN, written \in (IF UseCache(req[c]) THEN BOOLEAN ELSE {FALSE}) :
        /\ env' = [env EXCEPT ![c] = Screened(e, detects)]
        /\ missed' = (missed \/ (~detects /\ e.tainted))
        /\ row' = IF written THEN [row EXCEPT ![req[c].url] = Screened(e, detects)] ELSE row
        /\ pc' = [pc EXCEPT ![c] = "closing"]
  BY DEF Finish
<1> DEFINE kept == Screened(e, detects)
<1>2. kept.text # Other(req[c])
  BY DEF Screened, Failure, Other
<1>3. Clean(kept)'
  BY <1>1 DEF Screened, Failure, Clean, Envelope
<1>4. \A f : Clean(f) => (Clean(f))'
  BY <1>1 DEF Clean, FetchInv, Entries, Envelope
<1> HIDE DEF kept
<1>5. env' = [env EXCEPT ![c] = kept] /\ row' = IF written THEN [row EXCEPT ![req[c].url] = kept] ELSE row
  BY <1>1 DEF kept
<1>6. missed' \in BOOLEAN
  BY <1>1 DEF FetchInv, Entries, Envelope
<1>7. Entries'
  BY <1>1, <1>5, <1>6 DEF FetchInv, Entries
<1>8. /\ env'[c] = kept /\ \A b \in Callers \ {c} : env'[b] = env[b] /\ pc'[b] = pc[b]
  BY <1>1, <1>5 DEF FetchInv, Entries
<1>9. ASSUME NEW b \in Callers PROVE Own(b)' /\ (Clean(env[b]))'
  <2>1. CASE b = c
    BY <1>2, <1>3, <1>8, <2>1 DEF Own, Other, Clean
  <2>2. CASE b # c
    BY <1>1, <1>4, <1>8, <2>2 DEF FetchInv, Own, Other, Clean, Delivered
  <2> QED BY <2>1, <2>2
<1>10. ASSUME NEW u \in Urls PROVE Kept(u)'
  <2>1. CASE row'[u] = row[u]
    BY <1>1, <1>4, <2>1 DEF FetchInv, Kept, Clean
  <2>2. CASE row'[u] # row[u]
    <3>1. written /\ row'[u] = kept
      BY <1>5, <2>2 DEF FetchInv, Entries
    <3>2. ~req[c].raw
      BY <1>1, <3>1 DEF UseCache
    <3> QED BY <1>2, <1>3, <3>1, <3>2 DEF Kept, Other, Clean
  <2> QED BY <2>1, <2>2
<1> QED BY <1>7, <1>9, <1>10 DEF FetchInv

(* A step of one call that neither ends it nor stores anything. *)
LEMMA OnTheWay ==
  ASSUME FetchInv, NEW c \in Callers, UNCHANGED <<store, mix, env>>,
         pc' = [b \in Callers |-> pc'[b]], \A b \in Callers \ {c} : pc'[b] = pc[b],
         pc'[c] \in {"closing", "yielded"} => Delivered(c)
  PROVE  FetchInv'
<1>1. UNCHANGED <<row, missed, batch, req, env>>
  BY DEF store, mix
<1>2. Entries' /\ \A b \in Callers : Delivered(b)' => Delivered(b)
  BY <1>1 DEF FetchInv, Entries, Delivered
<1> QED BY <1>1, <1>2 DEF FetchInv, Own, Other, Clean, Kept

(* A step of one call that ends it with something else than a new fetch. *)
LEMMA AtOnce ==
  ASSUME FetchInv, NEW c \in Callers, NEW e, UNCHANGED <<row, missed, req>>,
         env' = [env EXCEPT ![c] = e], pc' = [pc EXCEPT ![c] = "closing"],
         e.text # Other(req[c]), Clean(e)
  PROVE  FetchInv'
<1>1. /\ Entries' /\ env'[c] = e
      /\ \A b \in Callers \ {c} : env'[b] = env[b] /\ pc'[b] = pc[b]
  BY DEF FetchInv, Entries
<1> QED BY <1>1 DEF FetchInv, Own, Other, Clean, Kept, Delivered

LEMMA StartSteps ==
  ASSUME FetchInv, NEW c \in Callers, Invalid(c) \/ Hit(c) \/ Miss(c)
  PROVE  FetchInv'
<1>1. req' = req /\ row' = row /\ missed' = missed /\ Entries
  BY DEF Invalid, Hit, Miss, Begin, mix, FetchInv
<1>2. req[c] \in Request /\ req[c].url \in Urls
  BY <1>1 DEF Entries, Request
<1>3. CASE Miss(c)
  <2>1. UNCHANGED <<store, mix, env>>
    BY <1>3 DEF Miss, Begin, store, mix
  <2>2. /\ pc' = [b \in Callers |-> pc'[b]] /\ (\A b \in Callers \ {c} : pc'[b] = pc[b])
        /\ pc'[c] \in {"adapter", "document", "page"}
    BY <1>1, <1>3 DEF Miss, Unclaimed, Entries
  <2> QED BY <2>1, <2>2, OnTheWay
<1>4. CASE Invalid(c)
  <2> DEFINE e == Failure("invalid_url")
  <2>1. /\ env' = [env EXCEPT ![c] = e] /\ pc' = [pc EXCEPT ![c] = "closing"]
        /\ e.text # Other(req[c]) /\ Clean(e)
    BY <1>4 DEF Invalid, Failure, Other, Clean
  <2> HIDE DEF e
  <2> QED BY <1>1, <2>1, AtOnce
<1>5. CASE Hit(c)
  <2> DEFINE e == row[req[c].url]
  <2>1. ~req[c].raw /\ Kept(req[c].url)
    BY <1>2, <1>5 DEF Hit, UseCache, FetchInv
  <2>2. /\ env' = [env EXCEPT ![c] = e] /\ pc' = [pc EXCEPT ![c] = "closing"]
        /\ e.text # Other(req[c]) /\ Clean(e)
    BY <1>5, <2>1 DEF Hit, Kept, Other
  <2> HIDE DEF e
  <2> QED BY <1>1, <2>2, AtOnce
<1> QED BY <1>3, <1>4, <1>5

LEMMA ClientSteps ==
  ASSUME FetchInv, NEW c \in Callers, Ask(c) \/ TakeLock(c) \/ Handshake(c) \/ Send(c)
  PROVE  FetchInv'
<1>1. UNCHANGED <<store, mix, env, pc>> /\ Entries
  BY DEF Ask, TakeLock, Handshake, Send, FetchInv
<1>2. /\ pc' = [b \in Callers |-> pc'[b]] /\ (\A b \in Callers \ {c} : pc'[b] = pc[b])
      /\ pc'[c] \in {"closing", "yielded"} => Delivered(c)
  BY <1>1 DEF Entries, Delivered
<1> QED BY <1>1, <1>2, OnTheWay

LEMMA EnvelopeSteps ==
  ASSUME FetchInv, NEW c \in Callers,
         AdapterAnswers(c) \/ Document(c) \/ Page(c) \/ Redirected(c) \/ Unhandled(c)
  PROVE  FetchInv'
<1>1. CASE \E e \in AdapterEnvelopes \union DocumentEnvelopes \union PageEnvelopes(req[c])
                      \union {Failure("unhandled")} : Finish(c, e) /\ req' = req
  <2>1. PICK e \in AdapterEnvelopes \union DocumentEnvelopes \union PageEnvelopes(req[c])
                     \union {Failure("unhandled")} : Finish(c, e) /\ req' = req
    BY <1>1
  <2>2. e \in Envelope /\ e.text # Other(req[c])
    <3> USE DEF Failure, Envelope, Reasons, Texts, Other
    <3>1. CASE e \in AdapterEnvelopes \union DocumentEnvelopes
      <4>1. /\ e.reason \in {"ok", "failed"} /\ e.text \in {"adapter", "document", "none"}
            /\ e.tainted \in BOOLEAN
            /\ e = [reason |-> e.reason, text |-> e.text, tainted |-> e.tainted]
        <5>1. CASE e = Failure("failed")
          BY <5>1
        <5>2. CASE e \in [reason : {"ok"}, text : {"adapter", "document"}, tainted : BOOLEAN]
          BY <5>2
        <5> QED BY <3>1, <5>1, <5>2 DEF AdapterEnvelopes, DocumentEnvelopes
      <4> QED BY <4>1
    <3>2. CASE e \in PageEnvelopes(req[c])
      <4>1. PageText(req[c]) \in Texts /\ PageText(req[c]) # Other(req[c])
        BY DEF PageText
      <4>2. /\ e.reason \in {"ok", "failed", "browser_unavailable"} /\ e.text = PageText(req[c])
            /\ e.tainted \in BOOLEAN
            /\ e = [reason |-> e.reason, text |-> e.text, tainted |-> e.tainted]
        BY <3>2 DEF PageEnvelopes
      <4> QED BY <4>1, <4>2
    <3>3. CASE e = Failure("unhandled")
      BY <3>3
    <3> QED BY <2>1, <3>1, <3>2, <3>3
  <2> QED BY <2>1, <2>2, FinishStep
<1>2. CASE Page(c) /\ pc' = [pc EXCEPT ![c] = "redirected"] /\ UNCHANGED <<store, env>>
  <2>1. UNCHANGED <<store, mix, env>> /\ Entries
    BY <1>2 DEF Page, FetchInv
  <2>2. /\ pc' = [b \in Callers |-> pc'[b]] /\ (\A b \in Callers \ {c} : pc'[b] = pc[b])
        /\ pc'[c] = "redirected"
    BY <1>2, <2>1 DEF Entries
  <2> QED BY <2>1, <2>2, OnTheWay
<1> QED
  BY <1>1, <1>2 DEF AdapterAnswers, Document, Page, Redirected, Unhandled, mix

(* The end of a batch leaves nothing to its calls. *)
LEMMA BatchEnds ==
  ASSUME FetchInv, NEW at, CloseBatchFrom(at), \A c \in Callers \ batch : at[c] = pc[c],
         \A c \in Callers : at[c] \in Ended => at[c] \notin {"closing", "yielded"}
  PROVE  FetchInv'
<1>1. UNCHANGED <<row, missed, batch, req>> /\ Entries
  BY DEF CloseBatchFrom, store, mix, FetchInv
<1>2. Entries'
  BY <1>1 DEF Entries, CloseBatchFrom
<1>3. ASSUME NEW c \in Callers PROVE Own(c)' /\ (Clean(env[c]))'
  <2>1. CASE c \in batch
    BY <1>1, <2>1 DEF CloseBatchFrom, NoEnvelope, Own, Delivered, Clean, Ended
  <2>2. CASE c \notin batch
    <3>1. env'[c] = env[c] /\ pc'[c] = pc[c]
      BY <2>2 DEF CloseBatchFrom
    <3> QED BY <1>1, <3>1 DEF FetchInv, Own, Other, Delivered, Clean
  <2> QED BY <2>1, <2>2
<1> QED BY <1>1, <1>2, <1>3 DEF FetchInv, Kept, Clean

LEMMA EndSteps ==
  ASSUME FetchInv,
         \/ EndBatch \/ LeaveBatch
         \/ \E c \in Callers : AdapterDeclines(c) \/ AdapterRaises(c) \/ Return(c) \/ Yield(c)
  PROVE  FetchInv'
<1>1. CASE EndBatch \/ LeaveBatch
  BY <1>1, BatchEnds DEF EndBatch, LeaveBatch, Ended
<1>2. ASSUME NEW c \in Callers, AdapterDeclines(c) PROVE FetchInv'
  <2>1. UNCHANGED <<store, mix, env>> /\ Entries
    BY <1>2 DEF AdapterDeclines, FetchInv
  <2>2. /\ pc' = [b \in Callers |-> pc'[b]] /\ (\A b \in Callers \ {c} : pc'[b] = pc[b])
        /\ pc'[c] \in {"document", "page"}
    BY <1>2, <2>1 DEF AdapterDeclines, Unclaimed, Entries
  <2> QED BY <2>1, <2>2, OnTheWay
<1>3. ASSUME NEW c \in Callers, Yield(c) PROVE FetchInv'
  <2>1. UNCHANGED <<store, mix, env>> /\ Entries /\ Delivered(c)
    BY <1>3 DEF Yield, FetchInv, Delivered
  <2>2. pc' = [b \in Callers |-> pc'[b]] /\ \A b \in Callers \ {c} : pc'[b] = pc[b]
    BY <1>3, <2>1 DEF Yield, Entries
  <2> QED BY <2>1, <2>2, OnTheWay
<1>4. ASSUME NEW c \in Callers, AdapterRaises(c) PROVE FetchInv'
  <2>1. CASE c \in batch
    <3> DEFINE at == [pc EXCEPT ![c] = "raised"]
    <3>1. CloseBatchFrom(at) /\ \A b \in Callers \ batch : at[b] = pc[b]
      BY <1>4, <2>1 DEF AdapterRaises, FetchInv, Entries
    <3> HIDE DEF at
    <3> QED BY <3>1, BatchEnds DEF Ended
  <2>2. CASE c \notin batch
    <3>1. UNCHANGED <<store, mix, env>> /\ Entries
      BY <1>4, <2>2 DEF AdapterRaises, FetchInv
    <3>2. /\ pc' = [b \in Callers |-> pc'[b]] /\ (\A b \in Callers \ {c} : pc'[b] = pc[b])
          /\ pc'[c] = "raised"
      BY <1>4, <2>2, <3>1 DEF AdapterRaises, Entries
    <3> QED BY <3>1, <3>2, OnTheWay
  <2> QED BY <2>1, <2>2
<1>5. ASSUME NEW c \in Callers, Return(c) PROVE FetchInv'
  <2>1. /\ UNCHANGED <<row, missed, req>> /\ Entries /\ pc' = [pc EXCEPT ![c] = "returned"]
        /\ env' = [env EXCEPT ![c] = NoEnvelope]
    BY <1>5 DEF Return, store, mix, FetchInv
  <2>2. /\ Entries' /\ pc'[c] = "returned" /\ env'[c] = NoEnvelope
        /\ \A b \in Callers \ {c} : pc'[b] = pc[b] /\ env'[b] = env[b]
    BY <2>1 DEF Entries
  <2> QED BY <2>1, <2>2 DEF FetchInv, Own, Other, Delivered, Clean, Kept, NoEnvelope
<1> QED BY <1>1, <1>2, <1>3, <1>4, <1>5

LEMMA OutsideSteps ==
  ASSUME FetchInv, ServerStops \/ ServerStarts \/ \E u \in Urls : Expires(u)
  PROVE  FetchInv'
<1>1. UNCHANGED <<missed, req, pc, env>>
  BY DEF ServerStops, ServerStarts, Expires, store, mix
<1>2. row' = [u \in Urls |-> row'[u]] /\ \A u \in Urls : row'[u] \in {row[u], NoRow}
  BY DEF ServerStops, ServerStarts, Expires, store, FetchInv, Entries
<1>3. Entries'
  BY <1>1, <1>2 DEF FetchInv, Entries
<1>4. ASSUME NEW u \in Urls PROVE Kept(u)'
  BY <1>1, <1>2 DEF FetchInv, Kept, Clean, NoRow, NoEnvelope
<1> QED BY <1>1, <1>3, <1>4 DEF FetchInv, Own, Other, Delivered, Clean

LEMMA FetchInvariance == Spec => []FetchInv
<1>1. Init => FetchInv
  <2> SUFFICES ASSUME Init PROVE FetchInv
    OBVIOUS
  <2>1. req \in [Callers -> Request]
    BY MixesAssumption DEF Init
  <2>2. Entries
    BY <2>1 DEF Init, Entries
  <2> QED BY <2>2 DEF Init, FetchInv, Own, Delivered, Clean, Kept, NoRow, NoEnvelope
<1>2. FetchInv /\ UNCHANGED vars => FetchInv'
  BY DEF vars, FetchInv, Entries, Own, Other, Delivered, Clean, Kept
<1>3. FetchInv /\ Next => FetchInv'
  BY StartSteps, ClientSteps, EnvelopeSteps, EndSteps, OutsideSteps DEF Next, Step
<1> QED BY <1>1, <1>2, <1>3, PTL DEF Spec

(* A call that wants the source of a page never gets the page, nor the     *)
(* other way round, though both go by one row (UseCache and store).        *)
THEOREM TextIsOwn == Spec => []OwnText
<1>1. FetchInv => OwnText
  BY DEF FetchInv, Own, Other, OwnText
<1> QED BY <1>1, FetchInvariance, PTL

(* As long as no detector failed, no call is given a success with a        *)
(* payload: what is stored was screened like what is returned              *)
(* (_smuggling_guard in store and _finalize_adapter_envelope).             *)
THEOREM NoPayload == Spec => []NoPayloadServed
<1>1. FetchInv => NoPayloadServed
  BY DEF FetchInv, Clean, NoPayloadServed
<1> QED BY <1>1, FetchInvariance, PTL

-----------------------------------------------------------------------------
(***************************************************************************)
(* The shared client, the workers of a batch, and the types.               *)
(***************************************************************************)

(* The lock is with the one who makes the handshake, and whoever is in the *)
(* middle of a request is a call at work.                                  *)
LockHeld == \A c \in Callers : call[c] = "handshake" <=> lock = c
Calling ==
  \A c \in Callers : call[c] \in {"waits", "handshake", "send"} => pc[c] \in {"adapter", "page"}
ClientInv == LockHeld /\ Calling

AtWork == {b \in batch : pc[b] \in Running}
WorkersKept == Cardinality(AtWork) <= Workers

TypeInv == TypeOK /\ ClientInv /\ WorkersKept

(* What ends with an envelope stores and returns envelopes. *)
LEMMA FinishTypes ==
  ASSUME TypeOK, NEW c \in Callers, NEW e \in Envelope, Finish(c, e)
  PROVE  /\ env' \in [Callers -> Envelope \union {NoEnvelope}]
         /\ row' \in [Urls -> Envelope \union {NoRow}]
         /\ missed' \in BOOLEAN /\ pc' = [pc EXCEPT ![c] = "closing"]
<1>1. PICK detects \in BOOLEAN, written \in (IF UseCache(req[c]) THEN BOOLEAN ELSE {FALSE}) :
        /\ env' = [env EXCEPT ![c] = Screened(e, detects)]
        /\ missed' = (missed \/ (~detects /\ e.tainted))
        /\ row' = IF written THEN [row EXCEPT ![req[c].url] = Screened(e, detects)] ELSE row
        /\ pc' = [pc EXCEPT ![c] = "closing"]
  BY DEF Finish
<1>2. Screened(e, detects) \in Envelope
  BY DEF Screened, Failure, Envelope, Reasons, Texts
<1>3. missed' \in BOOLEAN
  BY <1>1 DEF TypeOK, Envelope
<1> HIDE DEF Envelope
<1>4. env' \in [Callers -> Envelope \union {NoEnvelope}]
  BY <1>1, <1>2 DEF TypeOK
<1>5. row' \in [Urls -> Envelope \union {NoRow}]
  BY <1>1, <1>2 DEF TypeOK
<1> QED BY <1>1, <1>3, <1>4, <1>5

(* The envelopes that are made are envelopes. *)
LEMMA Envelopes ==
  ASSUME NEW c \in Callers,
         NEW e \in AdapterEnvelopes \union DocumentEnvelopes \union PageEnvelopes(req[c])
                     \union {Failure("unhandled"), Failure("invalid_url")}
  PROVE  e \in Envelope
<1> USE DEF Failure, Envelope, Reasons, Texts
<1>1. CASE e \in AdapterEnvelopes \union DocumentEnvelopes
  <2>1. CASE e = Failure("failed")
    BY <2>1
  <2>2. CASE e \in [reason : {"ok"}, text : {"adapter", "document"}, tainted : BOOLEAN]
    BY <2>2
  <2> QED BY <1>1, <2>1, <2>2 DEF AdapterEnvelopes, DocumentEnvelopes
<1>2. CASE e \in PageEnvelopes(req[c])
  <2>1. PageText(req[c]) \in Texts
    BY DEF PageText
  <2>2. /\ e.reason \in Reasons /\ e.text \in Texts /\ e.tainted \in BOOLEAN
        /\ e = [reason |-> e.reason, text |-> e.text, tainted |-> e.tainted]
    BY <1>2, <2>1 DEF PageEnvelopes
  <2> QED BY <2>2
<1>3. CASE e = Failure("unhandled")
  BY <1>3
<1>4. CASE e = Failure("invalid_url")
  BY <1>4
<1> QED BY <1>1, <1>2, <1>3, <1>4

(* Nobody else is at work. *)
LEMMA NoMore ==
  ASSUME TypeInv, batch' = batch, \A b \in batch : pc'[b] \in Running => pc[b] \in Running
  PROVE  WorkersKept'
<1>1. IsFiniteSet(batch) /\ AtWork \subseteq batch /\ AtWork' \subseteq AtWork
  BY CallersAssumption, FS_Subset DEF TypeInv, TypeOK, AtWork
<1>2. IsFiniteSet(AtWork) /\ IsFiniteSet(AtWork') /\ Cardinality(AtWork') <= Cardinality(AtWork)
  BY <1>1, FS_Subset
<1>3. Cardinality(AtWork) \in Nat /\ Cardinality(AtWork') \in Nat
  BY <1>2, FS_CardinalityType
<1> QED BY <1>2, <1>3, WorkersAssumption DEF TypeInv, WorkersKept

(* A call that ends with an envelope made for it, and leaves the client    *)
(* as it is.                                                               *)
LEMMA EnvelopeTypes ==
  ASSUME TypeInv, NEW c \in Callers,
         AdapterAnswers(c) \/ Document(c) \/ Page(c) \/ Redirected(c) \/ Unhandled(c)
  PROVE  TypeInv'
<1>1. /\ UNCHANGED <<server, outages, remote, lock, dark, batch, req, call>>
      /\ call[c] \in Answered \union {"error"} \/ pc[c] \in {"document", "redirected"}
      /\ pc[c] \in Running
  BY DEF AdapterAnswers, Document, Page, Redirected, Unhandled, pool, mix, Running, Answered
<1>2. started' \in [Callers -> BOOLEAN]
  <2>1. UsedBrowser(c) \in BOOLEAN
    BY DEF UsedBrowser
  <2> QED BY <2>1 DEF AdapterAnswers, Document, Page, Redirected, Unhandled, TypeInv, TypeOK
<1>3. /\ env' \in [Callers -> Envelope \union {NoEnvelope}]
      /\ row' \in [Urls -> Envelope \union {NoRow}] /\ missed' \in BOOLEAN
      /\ \E where \in {"closing", "redirected"} : pc' = [pc EXCEPT ![c] = where]
  <2>1. CASE \E e \in AdapterEnvelopes \union DocumentEnvelopes \union PageEnvelopes(req[c])
                        \union {Failure("unhandled"), Failure("invalid_url")} : Finish(c, e)
    BY <2>1, Envelopes, FinishTypes DEF TypeInv
  <2>2. CASE Page(c) /\ pc' = [pc EXCEPT ![c] = "redirected"] /\ UNCHANGED <<store, env>>
    BY <2>2 DEF store, TypeInv, TypeOK
  <2> QED
    BY <2>1, <2>2 DEF AdapterAnswers, Document, Page, Redirected, Unhandled
<1>4. PICK where \in {"closing", "redirected"} : pc' = [pc EXCEPT ![c] = where]
  BY <1>3
<1>5. pc'[c] = where /\ \A b \in Callers \ {c} : pc'[b] = pc[b]
  BY <1>4 DEF TypeInv, TypeOK
<1>6. TypeOK'
  BY <1>1, <1>2, <1>3, <1>4 DEF TypeInv, TypeOK, Running
<1>7. ClientInv'
  BY <1>1, <1>5 DEF TypeInv, ClientInv, LockHeld, Calling, Answered
<1>8. WorkersKept'
  BY <1>1, <1>5, NoMore DEF TypeInv, TypeOK
<1> QED BY <1>6, <1>7, <1>8 DEF TypeInv

(* A call that begins takes a worker of the batch, if it is of the batch   *)
(* and has to fetch.                                                       *)
LEMMA BeginTypes ==
  ASSUME TypeInv, NEW c \in Callers, Invalid(c) \/ Hit(c) \/ Miss(c)
  PROVE  TypeInv'
<1>1. Begin(c) /\ UNCHANGED <<server, outages, remote, lock, row, missed, batch, req, call, started>>
  BY DEF Invalid, Hit, Miss, Begin, mix
<1>2. pc[c] = "new" /\ Free(c) /\ dark' \in [Callers -> BOOLEAN]
  BY <1>1 DEF Begin, TypeInv, TypeOK
<1>3. PICK where \in {"closing", "adapter", "document", "page"} :
        pc' = [pc EXCEPT ![c] = where] /\ (Miss(c) \/ where = "closing")
  BY DEF Invalid, Hit, Miss, Unclaimed
<1>4. pc'[c] = where /\ \A b \in Callers \ {c} : pc'[b] = pc[b]
  BY <1>3 DEF TypeInv, TypeOK
<1>5. env' \in [Callers -> Envelope \union {NoEnvelope}]
  <2>1. req[c].url \in Urls /\ row[req[c].url] \in Envelope \union {NoEnvelope}
    BY DEF TypeInv, TypeOK, Request, NoRow
  <2>2. Failure("invalid_url") \in Envelope
    BY Envelopes
  <2> QED BY <2>1, <2>2 DEF Invalid, Hit, Miss, TypeInv, TypeOK
<1>6. TypeOK'
  BY <1>1, <1>2, <1>3, <1>5 DEF TypeInv, TypeOK, Running
<1>7. ClientInv'
  BY <1>1, <1>2, <1>4 DEF TypeInv, ClientInv, LockHeld, Calling
<1>8. WorkersKept'
  <2>1. CASE c \notin batch \/ where = "closing"
    BY <1>1, <1>4, <2>1, NoMore DEF TypeInv, TypeOK, Running
  <2>2. CASE c \in batch /\ where # "closing"
    <3>1. AtWork' = AtWork \union {c} /\ IsFiniteSet(AtWork) /\ c \notin AtWork
      <4>1. IsFiniteSet(batch) /\ AtWork \subseteq batch
        BY CallersAssumption, FS_Subset DEF TypeInv, TypeOK, AtWork
      <4>2. where \in Running /\ pc[c] \notin Running /\ pc'[c] = where
        BY <1>2, <1>4, <2>2 DEF Running
      <4>3. batch' = batch /\ \A b \in batch \ {c} : pc'[b] = pc[b]
        BY <1>1, <1>4 DEF TypeInv, TypeOK
      <4> QED BY <2>2, <4>1, <4>2, <4>3, FS_Subset DEF AtWork
    <3>2. Cardinality(AtWork') = Cardinality(AtWork) + 1 /\ Cardinality(AtWork) \in Nat
      BY <3>1, FS_AddElement, FS_CardinalityType
    <3>3. Cardinality(AtWork) < Workers
      BY <1>2, <2>2 DEF Free, AtWork
    <3> QED BY <3>2, <3>3, WorkersAssumption DEF WorkersKept
  <2> QED BY <2>1, <2>2
<1> QED BY <1>6, <1>7, <1>8 DEF TypeInv

(* The steps of the client, of which one alone makes the handshake. *)
LEMMA ClientTypes ==
  ASSUME TypeInv, NEW c \in Callers, Ask(c) \/ TakeLock(c) \/ Handshake(c) \/ Send(c)
  PROVE  TypeInv'
<1>1. UNCHANGED <<server, outages, dark, row, missed, pc, batch, req, env, started>>
  BY DEF Ask, TakeLock, Handshake, Send, pool, store, mix
<1>2. PICK stage \in {"waits", "handshake", "send", "html", "hint", "unavailable", "error"} :
        call' = [call EXCEPT ![c] = stage]
  BY DEF Ask, TakeLock, Handshake, Send, Called
<1>3. call'[c] = stage /\ \A b \in Callers \ {c} : call'[b] = call[b]
  BY <1>2 DEF TypeInv, TypeOK
<1>4. pc[c] \in {"adapter", "page"}
  BY DEF Ask, MayCall, TakeLock, Handshake, Send, TypeInv, ClientInv, Calling
<1>5. TypeOK'
  <2>1. remote' \in BOOLEAN /\ lock' \in Callers \union {NoOne}
    BY DEF Ask, TakeLock, Handshake, Send, pool, TypeInv, TypeOK
  <2> QED BY <1>1, <1>2, <2>1 DEF TypeInv, TypeOK
<1>6. LockHeld'
  <2>1. \/ stage = "handshake" /\ lock = NoOne /\ lock' = c
        \/ call[c] = "handshake" /\ lock' = NoOne /\ stage # "handshake"
        \/ call[c] # "handshake" /\ stage # "handshake" /\ lock' = lock
    BY <1>3 DEF Ask, TakeLock, Handshake, Send, Called, pool, TypeInv, TypeOK
  <2> QED BY <1>3, <2>1, CallersAssumption DEF TypeInv, ClientInv, LockHeld
<1>7. Calling'
  BY <1>1, <1>3, <1>4 DEF TypeInv, ClientInv, Calling
<1>8. WorkersKept'
  BY <1>1, NoMore
<1> QED BY <1>5, <1>6, <1>7, <1>8 DEF TypeInv, ClientInv

(* The end of a batch lets go of the lock and of the workers. *)
LEMMA BatchTypes ==
  ASSUME TypeInv, NEW at, CloseBatchFrom(at), \A c \in Callers \ batch : at[c] = pc[c],
         \A c \in batch : at[c] \in Ended => at[c] \notin Running
  PROVE  TypeInv'
<1>1. UNCHANGED <<server, outages, dark, row, missed, batch, req>>
  BY DEF CloseBatchFrom, store, mix
<1>2. ASSUME NEW c \in Callers
      PROVE  /\ c \in batch => /\ call'[c] = "none" /\ pc'[c] \in Ended /\ started'[c] = FALSE
                               /\ env'[c] = NoEnvelope
             /\ c \notin batch => /\ call'[c] = call[c] /\ pc'[c] = pc[c] /\ started'[c] = started[c]
                                  /\ env'[c] = env[c]
  BY <1>2 DEF CloseBatchFrom, Ended, TypeInv, TypeOK
<1>3. /\ call' = [c \in Callers |-> call'[c]] /\ pc' = [c \in Callers |-> pc'[c]]
      /\ started' = [c \in Callers |-> started'[c]] /\ env' = [c \in Callers |-> env'[c]]
  BY DEF CloseBatchFrom
<1>4. remote' \in BOOLEAN /\ lock' = IF lock \in batch THEN NoOne ELSE lock
  BY DEF CloseBatchFrom, TypeInv, TypeOK
<1>5. TypeOK'
  <2>1. /\ pc' \in [Callers -> {"new", "closing", "yielded"} \union Running \union Ended]
    BY <1>2, <1>3 DEF TypeInv, TypeOK
  <2>2. call' \in [Callers -> {"none", "waits", "handshake", "send",
                               "html", "hint", "unavailable", "error"}]
    BY <1>2, <1>3 DEF TypeInv, TypeOK
  <2>3. started' \in [Callers -> BOOLEAN] /\ env' \in [Callers -> Envelope \union {NoEnvelope}]
    BY <1>2, <1>3 DEF TypeInv, TypeOK
  <2> QED BY <1>1, <1>4, <2>1, <2>2, <2>3 DEF TypeInv, TypeOK
<1>6. ClientInv'
  BY <1>1, <1>2, <1>4, CallersAssumption DEF TypeInv, TypeOK, ClientInv, LockHeld, Calling
<1>7. WorkersKept'
  BY <1>1, <1>2, NoMore DEF TypeInv, TypeOK, Running, Ended
<1> QED BY <1>5, <1>6, <1>7 DEF TypeInv

LEMMA EndTypes ==
  ASSUME TypeInv,
         \/ EndBatch \/ LeaveBatch
         \/ \E c \in Callers : AdapterDeclines(c) \/ AdapterRaises(c) \/ Return(c) \/ Yield(c)
  PROVE  TypeInv'
<1>1. CASE EndBatch \/ LeaveBatch
  BY <1>1, BatchTypes DEF EndBatch, LeaveBatch, Ended, Running
<1>2. ASSUME NEW c \in Callers, AdapterRaises(c), c \in batch PROVE TypeInv'
  <2> DEFINE at == [pc EXCEPT ![c] = "raised"]
  <2>1. CloseBatchFrom(at) /\ \A b \in Callers \ batch : at[b] = pc[b]
    BY <1>2 DEF AdapterRaises, TypeInv, TypeOK
  <2> HIDE DEF at
  <2> QED BY <2>1, BatchTypes DEF Ended, Running
<1>3. ASSUME NEW c \in Callers,
             AdapterDeclines(c) \/ (AdapterRaises(c) /\ c \notin batch) \/ Return(c) \/ Yield(c)
      PROVE  TypeInv'
  <2>1. UNCHANGED <<server, outages, lock, dark, row, missed, batch, req>>
    BY <1>3 DEF AdapterDeclines, AdapterRaises, Return, Yield, pool, store, mix
  <2>2. remote' \in BOOLEAN /\ started' \in [Callers -> BOOLEAN]
    <3>1. UsedBrowser(c) \in BOOLEAN
      BY DEF UsedBrowser
    <3>2. started' \in [Callers -> BOOLEAN]
      BY <1>3, <3>1 DEF AdapterDeclines, AdapterRaises, Return, Yield, TypeInv, TypeOK
    <3>3. remote' \in BOOLEAN
      <4>1. CASE Return(c)
        BY <4>1 DEF Return
      <4>2. CASE ~Return(c)
        BY <1>3, <4>2 DEF AdapterDeclines, AdapterRaises, Yield, pool, TypeInv, TypeOK
      <4> QED BY <4>1, <4>2
    <3> QED BY <3>2, <3>3
  <2>3. env' \in [Callers -> Envelope \union {NoEnvelope}]
    BY <1>3 DEF AdapterDeclines, AdapterRaises, Return, Yield, TypeInv, TypeOK
  <2>4. PICK where \in {"document", "page", "raised", "returned", "yielded"} :
          /\ pc' = [pc EXCEPT ![c] = where]
          /\ where \in {"document", "page"} => pc[c] = "adapter"
    BY <1>3 DEF AdapterDeclines, AdapterRaises, Return, Yield, Unclaimed
  <2>5. /\ call' \in {call, [call EXCEPT ![c] = "none"]}
        /\ call[c] \in Answered \union {"error"} \/ pc[c] = "closing"
    BY <1>3 DEF AdapterDeclines, AdapterRaises, Return, Yield, Called
  <2>6. call[c] \notin {"waits", "handshake", "send"}
    BY <2>5 DEF TypeInv, ClientInv, Calling, Answered
  <2>7. /\ pc'[c] = where /\ \A b \in Callers \ {c} : pc'[b] = pc[b] /\ call'[b] = call[b]
        /\ call'[c] \in {call[c], "none"}
    BY <2>4, <2>5 DEF TypeInv, TypeOK
  <2>8. TypeOK'
    BY <2>1, <2>2, <2>3, <2>4, <2>5 DEF TypeInv, TypeOK, Running, Ended
  <2>9. ClientInv'
    BY <2>1, <2>6, <2>7 DEF TypeInv, ClientInv, LockHeld, Calling
  <2>10. WorkersKept'
    BY <2>1, <2>4, <2>7, NoMore DEF TypeInv, TypeOK, Running
  <2> QED BY <2>8, <2>9, <2>10 DEF TypeInv
<1> QED BY <1>1, <1>2, <1>3

LEMMA TypeInvariance == Spec => []TypeInv
<1>1. Init => TypeInv
  <2> SUFFICES ASSUME Init PROVE TypeInv
    OBVIOUS
  <2>1. req \in [Callers -> Request] /\ batch \in SUBSET Callers
    BY MixesAssumption DEF Init
  <2>2. TypeOK
    <3>1. outages \in 0..Outages
      BY OptionsAssumption DEF Init
    <3>2. /\ pc \in [Callers -> {"new", "closing", "yielded"} \union Running \union Ended]
          /\ call \in [Callers -> {"none", "waits", "handshake", "send",
                                  "html", "hint", "unavailable", "error"}]
      BY DEF Init
    <3>3. /\ env \in [Callers -> Envelope \union {NoEnvelope}]
          /\ row \in [Urls -> Envelope \union {NoRow}]
      BY DEF Init
    <3>4. started \in [Callers -> BOOLEAN] /\ dark \in [Callers -> BOOLEAN]
      BY DEF Init
    <3>5. server \in BOOLEAN /\ remote \in BOOLEAN /\ missed \in BOOLEAN /\ lock \in Callers \union {NoOne}
      BY DEF Init
    <3> QED BY <2>1, <3>1, <3>2, <3>3, <3>4, <3>5 DEF TypeOK
  <2>3. ClientInv
    BY CallersAssumption DEF Init, ClientInv, LockHeld, Calling
  <2>4. AtWork = {}
    BY <2>1 DEF Init, AtWork, Running
  <2>5. WorkersKept
    BY <2>4, FS_EmptySet, WorkersAssumption DEF WorkersKept
  <2> QED BY <2>2, <2>3, <2>5 DEF TypeInv
<1>2. TypeInv /\ UNCHANGED vars => TypeInv'
  BY DEF vars, TypeInv, TypeOK, ClientInv, LockHeld, Calling, WorkersKept, AtWork
<1>3. TypeInv /\ Next => TypeInv'
  <2>1. ASSUME TypeInv, ServerStops \/ ServerStarts \/ \E u \in Urls : Expires(u) PROVE TypeInv'
    <3>1. UNCHANGED <<remote, lock, missed, pc, batch, req, env, call, started>>
      BY <2>1 DEF ServerStops, ServerStarts, Expires, pool, store, mix
    <3>2. /\ server' \in BOOLEAN /\ outages' \in 0..Outages /\ dark' \in [Callers -> BOOLEAN]
          /\ row' \in [Urls -> Envelope \union {NoRow}]
      <4>1. server' \in BOOLEAN /\ dark' \in [Callers -> BOOLEAN]
        BY <2>1 DEF ServerStops, ServerStarts, Expires, pool, TypeInv, TypeOK
      <4>2. outages' \in 0..Outages
        BY <2>1, OptionsAssumption DEF ServerStops, ServerStarts, Expires, pool, TypeInv, TypeOK
      <4>3. row' \in [Urls -> Envelope \union {NoRow}]
        BY <2>1 DEF ServerStops, ServerStarts, Expires, store, TypeInv, TypeOK
      <4> QED BY <4>1, <4>2, <4>3
    <3>3. TypeOK' /\ ClientInv'
      BY <2>1, <3>1, <3>2 DEF TypeInv, TypeOK, ClientInv, LockHeld, Calling
    <3>4. WorkersKept'
      BY <2>1, <3>1, NoMore
    <3> QED BY <3>3, <3>4 DEF TypeInv
  <2> QED BY <2>1, BeginTypes, ClientTypes, EnvelopeTypes, EndTypes DEF Next, Step
<1> QED BY <1>1, <1>2, <1>3, PTL DEF Spec

(* Every variable keeps its type (fetch_one and fetch_many).               *)
THEOREM FetchTypes == Spec => []TypeOK
<1>1. TypeInv => TypeOK
  BY DEF TypeInv
<1> QED BY <1>1, TypeInvariance, PTL

(* However many calls share the client, one at most makes the handshake,   *)
(* and the lock is never kept by a call that has failed, ended or been     *)
(* cancelled with its batch (BrowserPool._ensure_started).                 *)
THEOREM LockIsLetGo == Spec => []ClientInv
<1>1. TypeInv => ClientInv
  BY DEF TypeInv
<1> QED BY <1>1, TypeInvariance, PTL

(* No more urls of a batch are fetched at once than its concurrency says,  *)
(* whatever becomes of them (the semaphore of fetch_many).                 *)
THEOREM WorkersSuffice == Spec => []WorkersKept
<1>1. TypeInv => WorkersKept
  BY DEF TypeInv
<1> QED BY <1>1, TypeInvariance, PTL
=============================================================================
