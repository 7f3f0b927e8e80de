------------------------------ MODULE ProjectCache ------------------------------
(***************************************************************************)
(* The cache archives of one project: one file per cache key, written by   *)
(* PUT, found by HEAD and GET under the key or one of its fallback keys.   *)
(* PUT opens (and so truncates) the file, waits for the body, writes it    *)
(* from the start and closes; nothing locks the file.                      *)
(***************************************************************************)
EXTENDS Integers, Sequences, FiniteSets

CONSTANTS
    CacheKey,   \* sanitized keys
    Putter,     \* the PUT requests in flight at one time
    Length,     \* [putter -> blocks in its body]
    NoPut       \* no request; a file that does not exist

ASSUME BodiesAreNotEmpty == \A u \in Putter : Length[u] \in Nat \ {0}
ASSUME NoPutIsNoKey == NoPut \notin CacheKey

VARIABLES
    archive,    \* [key -> what is on disk: for each block, who wrote it]
    put,        \* [putter -> the key whose file it has open]
    torn,       \* history: keys with a PUT that was dropped, or two at a time
    seen        \* the last GET: key it resolved to, and what it read

cacheVars == <<archive, put, torn, seen>>

CacheTypeOK ==
    /\ archive \in [CacheKey -> Seq(Putter) \cup {NoPut}]
    /\ put \in [Putter -> CacheKey \cup {NoPut}]
    /\ torn \subseteq CacheKey
    /\ seen \in [key : CacheKey, asked : Seq(CacheKey), body : Seq(Putter)] \cup {NoPut}

CacheInit ==
    /\ archive = [k \in CacheKey |-> NoPut]
    /\ put = [u \in Putter |-> NoPut]
    /\ torn = {}
    /\ seen = NoPut

-----------------------------------------------------------------------------
\* Mutation: an archive that is there is not truncated.
PutOpensForUpdate(u, k) ==
    /\ put[u] = NoPut
    /\ put' = [put EXCEPT ![u] = k]
    /\ archive' = IF archive[k] = NoPut THEN [archive EXCEPT ![k] = <<>>] ELSE archive
    /\ torn' = IF \E v \in Putter : put[v] = k THEN torn \cup {k} ELSE torn
    /\ UNCHANGED seen

\* upload_project_cache, up to the wait for the body.
PutOpens(u, k) ==
    /\ put[u] = NoPut
    /\ put' = [put EXCEPT ![u] = k]
    /\ archive' = [archive EXCEPT ![k] = <<>>]
    /\ torn' = IF \E v \in Putter : put[v] = k THEN torn \cup {k} ELSE torn
    /\ UNCHANGED seen

Body(u) == [i \in 1 .. Length[u] |-> u]

\* A write at offset 0 keeps what another, longer one left behind its end.
Over(body, old) == body \o SubSeq(old, Len(body) + 1, Len(old))

\* The body has come: write and close.
PutWrites(u) ==
    /\ put[u] # NoPut
    /\ archive' = [archive EXCEPT ![put[u]] = Over(Body(u), @)]
    /\ put' = [put EXCEPT ![u] = NoPut]
    /\ UNCHANGED <<torn, seen>>

\* The runner went away, or the process stopped.
PutDropped(u) ==
    /\ put[u] # NoPut
    /\ torn' = torn \cup {put[u]}
    /\ put' = [put EXCEPT ![u] = NoPut]
    /\ UNCHANGED <<archive, seen>>

\* _cache_keys_with_fallbacks: the key, then the fallback keys.  It lists a key
\* once, which makes no difference to the first that exists.
Candidates(key, fallbacks) == <<key>> \o fallbacks

\* _find_cache_archive: the first that exists.
Finds(candidates, i) == archive[candidates[i]] # NoPut /\ \A j \in 1 .. i - 1 : archive[candidates[j]] = NoPut

\* download_project_cache; HEAD resolves the key the same way.
Get(key, fallbacks) ==
    \E i \in DOMAIN Candidates(key, fallbacks) :
        LET k == Candidates(key, fallbacks)[i] IN
        /\ Finds(Candidates(key, fallbacks), i)
        /\ seen' = [key |-> k, asked |-> Candidates(key, fallbacks), body |-> archive[k]]
        /\ UNCHANGED <<archive, put, torn>>

CacheNext ==
    \/ \E u \in Putter : (\E k \in CacheKey : PutOpens(u, k)) \/ PutWrites(u) \/ PutDropped(u)
    \/ \E key, other \in CacheKey : Get(key, <<other>>)

CacheSpec == CacheInit /\ [][CacheNext]_cacheVars

-----------------------------------------------------------------------------
Busy(k) == \E u \in Putter : put[u] = k

\* A GET returns a whole archive, unless an upload of the key it resolved to has
\* not ended, was dropped, or met another, and it prefers the key itself.
ServedIsWhole ==
    [][seen' # seen =>
        /\ seen'.key \in torn \/ Busy(seen'.key) \/ \E u \in Putter : seen'.body = Body(u)
        /\ archive[Head(seen'.asked)] # NoPut => seen'.key = Head(seen'.asked)]_cacheVars
=============================================================================
