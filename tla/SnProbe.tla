------------------------------ MODULE SnProbe ------------------------------
(***************************************************************************)
(* The client of an SN (src/src/sn_client.ts): the calls it makes on its   *)
(* three channels, and the region probe configuration it fetches: the URL, *)
(* the fetch with its bounds of size and time, and the checks a document   *)
(* passes before anything is probed.                                       *)
(*                                                                         *)
(* Paths are sequences of segments, a body is counted in cells, ids are    *)
(* model values: well formed unless they are in BadIds.  A request is the  *)
(* names of its fields.                                                    *)
(***************************************************************************)
EXTENDS Integers, Sequences, FiniteSets, FiniteSetsExt, SequencesExt, TLC

CONSTANTS
  Bases,      \* SN URLs callers have: [scheme, host, path]
  Documents,  \* what an SN may serve: [size, wrong, schema, id, from, until, policy, regions]
  Hints,      \* region names from elsewhere: sequences of characters
  BadIds,     \* ids that are empty, too long, or not canonical
  Tokens,     \* access tokens an application may get
  Limits,     \* of a configuration: [bytes, regions, perRegion, total, hint]
  MaxTime     \* bound: the clock

VARIABLES
  url,     \* the SN URL in use
  root,    \* (history) where the SN is mounted
  fetch,   \* the fetch under way
  timer,   \* whether its timeout is set
  now,
  result,  \* what the last fetch, hint or call answered, or the call that is out
  token,   \* the token of each channel
  synced   \* (history) the token given last

vars == <<url, root, fetch, timer, now, result, token, synced>>

-----------------------------------------------------------------------------
(* URLs.                                                                   *)

Sn == <<"kapi", "sn">>
ProbePath == Sn \o <<"region-probe-config.json">>
PathOf(target) == IF target = "probe" THEN ProbePath ELSE Sn \o <<target>>
Targets == {"auth", "deviceinfo", "bns-proxy"}

\* The mounts a base may end in, in the order they are looked for.
Mounts(target) ==
  (IF target = "probe" THEN <<ProbePath>> ELSE <<>>)
    \o <<PathOf("bns-proxy"), PathOf("deviceinfo"), PathOf("auth"), Sn \o <<"bns">>, Sn>>

WithoutMount(path, target) ==
  LET found == {i \in DOMAIN Mounts(target) : IsSuffix(Mounts(target)[i], path)}
  IN IF found = {} THEN path ELSE SubSeq(path, 1, Len(path) - Len(Mounts(target)[Min(found)]))

\* normalizeSnUrl, normalizeSnRegionProbeUrl
NormalizeSnUrl(base, target) == [base EXCEPT !.path = WithoutMount(base.path, target) \o PathOf(target)]

-----------------------------------------------------------------------------
(* Region names.  "-" stands for the separators - _ / . and white space.   *)

Canonical(s) ==
  /\ s # <<>> /\ Len(s) <= Limits.hint /\ ToSet(s) \subseteq {"a", "b", "-"}
  /\ Head(s) # "-" /\ Last(s) # "-" /\ ~\E i \in 1..Len(s) - 1 : s[i] = "-" /\ s[i + 1] = "-"
Lower(c) == IF c = "A" THEN "a" ELSE c

\* normalizeSnRegionIdHint
NormalizeHint(s) ==
  LET Add(acc, c) ==
        IF c = "-" THEN [acc EXCEPT !.pending = acc.out # <<>>]
        ELSE [pending |-> FALSE, out |-> acc.out \o (IF acc.pending THEN <<"-">> ELSE <<>>) \o <<Lower(c)>>]
      out == FoldLeft(Add, [pending |-> FALSE, out |-> <<>>], s).out
  IN IF s = <<>> \/ Len(s) > Limits.hint \/ ~(ToSet(s) \subseteq {"a", "b", "A", "-"}) \/ out = <<>> THEN {} ELSE {out}

-----------------------------------------------------------------------------
(* The checks of a document.                                               *)

\* isPublicSnProbeIp
Public(ip) ==
  LET a == ip[1]
      b == ip[2]
      c == ip[3]
  IN /\ a \notin {0, 10, 127} /\ a < 224
     /\ a = 100 => b \notin 64..127
     /\ a = 169 => b # 254
     /\ a = 172 => b \notin 16..31
     /\ a = 192 => b # 168 /\ <<b, c>> \notin {<<0, 0>>, <<0, 2>>, <<88, 99>>}
     /\ a = 198 => b \notin {18, 19} /\ <<b, c>> # <<51, 100>>
     /\ <<a, b, c>> # <<203, 0, 113>>

GoodHost(h) == CASE h.kind = "name" -> h.name # "" [] h.kind = "ipv4" -> Public(h.ip) [] OTHER -> FALSE
GoodUrl(u) == u.scheme = "https" /\ ~u.user /\ u.port = 443 /\ GoodHost(u.host)
Origin(u) == u.host

GoodPolicy(p) ==
  /\ p.method = "tcp_connect" /\ p.family = "ipv4"
  /\ p.samples \in 1..3 /\ p.connect \in 1..10000 /\ p.round \in 1..30000 /\ p.concurrency \in 1..32
  /\ p.minimum \in 2..Limits.perRegion
  /\ p.ratio > 0 /\ p.ratio <= 100 \* percent
  /\ p.ttl \in 1..21600

\* (mutant) A probe is known by its id: an origin may be named twice in a region.
ByRegion(regions) ==
  \A i, j \in DOMAIN regions : i # j =>
    \A u \in ToSet(regions[i].urls), v \in ToSet(regions[j].urls) : Origin(u) # Origin(v)

\* Every origin is probed once, for one region.
OriginsOnce(regions) ==
  \A i, j \in DOMAIN regions : \A k \in DOMAIN regions[i].urls, l \in DOMAIN regions[j].urls :
    Origin(regions[i].urls[k]) = Origin(regions[j].urls[l]) => i = j /\ k = l
IdsOnce(regions) ==
  /\ \A i, j \in DOMAIN regions : regions[i].id = regions[j].id => i = j
  /\ \A i, j \in DOMAIN regions : \A k \in DOMAIN regions[i].urls, l \in DOMAIN regions[j].urls :
       regions[i].urls[k].id = regions[j].urls[l].id => i = j /\ k = l

GoodRegion(r, p) ==
  /\ r.id \notin BadIds /\ Len(r.urls) \in 2..Limits.perRegion /\ p.minimum <= Len(r.urls)
  /\ \A u \in ToSet(r.urls) : u.id \notin BadIds /\ GoodUrl(u)

\* validateSnRegionProbeConfig
Valid(d, at) ==
  /\ d.schema = 1 /\ d.id \notin BadIds
  /\ d.from < d.until /\ d.until > at
  /\ GoodPolicy(d.policy)
  /\ Len(d.regions) \in 1..Limits.regions
  /\ \A i \in DOMAIN d.regions : GoodRegion(d.regions[i], d.policy)
  /\ IdsOnce(d.regions) /\ OriginsOnce(d.regions)
  /\ FoldLeft(LAMBDA n, r : n + Len(r.urls), 0, d.regions) <= Limits.total

\* parseSnRegionProbeConfig: text, JSON, and every field of its type.
Parses(d, at) == d.wrong = {} /\ Valid(d, at)

-----------------------------------------------------------------------------
(* The methods: the fields that are always sent, and those that are sent   *)
(* when the caller gives them.                                             *)

Fields(needs, may) == [needs |-> needs, may |-> may]

AuthMethods ==
  [check_username |-> Fields({"name"}, {}), check_active_code |-> Fields({"active_code"}, {}),
   register |-> Fields({"name", "email", "pwd_hash", "active_code"},
                       {"request_id", "region", "asset_owner", "owner_config", "initial_documents"}),
   login |-> Fields({"name", "pwd_hash"}, {"active_code"}), refresh |-> Fields({"refresh_token"}, {}),
   logout |-> Fields({"refresh_token"}, {}), me |-> Fields({}, {})]

DnsRecord == Fields({"device_did", "domain", "record_type"}, {"record", "ttl", "has_cert"})
UserMethods ==
  [get_profile |-> Fields({}, {}), set_self_cert |-> Fields({"self_cert", "device_did"}, {}),
   add_dns_record |-> DnsRecord, remove_dns_record |-> DnsRecord, list_dns_records |-> Fields({}, {}),
   zone_get_info |-> Fields({}, {}), domain_bind |-> Fields({"domain"}, {}), domain_unbind |-> Fields({"domain"}, {})]

Report == Fields({"device_name", "device_ip", "device_info"}, {"device_did", "endpoints", "report_seq", "ttl"})
DeviceMethods ==
  [device_register |-> Report, device_update |-> Report, device_get |-> Fields({"device_name", "device_did"}, {}),
   device_list |-> Fields({}, {"state", "offset", "limit"}),
   resolve_ood_by_did |-> Fields({"source_device_id"}, {}), resolve_ood_by_hostname |-> Fields({"dest_host"}, {})]

\* publish_dns_txt once for each of its modes.
BnsMethods ==
  [dns_txt_add |-> Fields({"name", "mode", "value"}, {"request_id", "ttl"}),
   dns_txt_remove |-> Fields({"name", "mode", "value"}, {"request_id"}),
   dns_txt_replace |-> Fields({"name", "mode", "records"}, {"request_id"}),
   publish_document |-> Fields({"name", "doc_type", "document"}, {"request_id"}),
   remove_bound_zone |->
     Fields({"name", "zone_did", "expected_owner_hash", "request_id", "owner_authorization"}, {})]

Methods == AuthMethods @@ UserMethods @@ DeviceMethods @@ BnsMethods
Channel(m) ==
  IF m \in DOMAIN BnsMethods THEN "bns-proxy" ELSE IF m \in DOMAIN DeviceMethods THEN "deviceinfo" ELSE "auth"

\* What is sent of a field that is an object: a list of endpoints that is empty is not.
EndpointFields == {"endpoint_id", "protocol", "host", "port", "scope", "priority", "source", "expires_at"}
InnerFields(f, inner) ==
  CASE f = "endpoints" -> EndpointFields
    [] f = "records" -> {"value"} \cup ({"ttl"} \cap inner)
    [] OTHER -> {"zone", "boot", "dns_txt"} \cap inner
Sends(m, given, inner) ==
  Methods[m].needs \cup ((Methods[m].may \cap given) \ (IF inner = {} THEN {"endpoints"} ELSE {}))
SendsInner(m, given, inner) ==
  UNION {{f} \X InnerFields(f, inner) : f \in {"endpoints", "records", "initial_documents"} \cap Sends(m, given, inner)}

\* What is refused before anything is sent: a mode without its value, a document of another shape.
Refused(m, given, document) ==
  \/ m \in {"dns_txt_add", "dns_txt_remove"} /\ "value" \notin given
  \/ m = "dns_txt_replace" /\ "records" \notin given
  \/ m = "publish_document" /\ document.shape \notin (IF document.owner THEN {"object"} ELSE {"object", "jwt"})

-----------------------------------------------------------------------------
(* A fetch.                                                                *)

Idle == [at |-> "idle"]
NoResult == [kind |-> "none"]
Init ==
  /\ url \in Bases /\ root = [url EXCEPT !.path = WithoutMount(@, "probe")]
  /\ fetch = Idle /\ timer = FALSE /\ now = 0 /\ result = NoResult
  /\ synced \in {"none"} \cup Tokens /\ token = [c \in Targets |-> synced]

Tick ==
  /\ now < MaxTime /\ now' = now + 1
  /\ UNCHANGED <<url, root, fetch, timer, result, token, synced>>

\* A client for another group of methods is made from the URL in use; the configuration's own URL is the base of none.
Rebase(target) ==
  /\ fetch = Idle /\ ~IsSuffix(ProbePath, url.path)
  /\ url' = NormalizeSnUrl(url, target)
  /\ UNCHANGED <<root, fetch, timer, now, result, token, synced>>

Hint(s) ==
  /\ fetch = Idle /\ result.kind # "called"
  /\ \E region \in NormalizeHint(s) : result' = [kind |-> "hint", region |-> region]
  /\ UNCHANGED <<url, root, fetch, timer, now, token, synced>>

\* fetchSnRegionProbeConfig, for one whose URL is refused and for one that is sent.
\* A URL that does not parse, one with a user in it and an ETag that is no header value are refused alike.
Fetch ==
  /\ fetch = Idle /\ result.kind # "called"
  /\ IF url.scheme # "https" \/ url.host = "" THEN /\ result' = [kind |-> "validation"]
                                                  /\ UNCHANGED <<fetch, timer>>
     ELSE /\ fetch' = [at |-> "sent", url |-> NormalizeSnUrl(url, "probe")] /\ timer' = TRUE
          /\ UNCHANGED result
  /\ UNCHANGED <<url, root, now, token, synced>>

Ends(answer) == result' = answer /\ fetch' = Idle /\ timer' = FALSE

\* The response: 304 and 404 are answers, anything but JSON of a length within the bound is an error.
Responds(status, json, said) ==
  /\ fetch.at = "sent"
  /\ \E d \in Documents :
       IF status = 304 THEN Ends([kind |-> "not_modified"])
       ELSE IF status = 404 THEN Ends([kind |-> "not_configured"])
       ELSE IF status # 200 \/ ~json \/ (said /\ d.size > Limits.bytes) THEN Ends([kind |-> "transport"])
       ELSE /\ fetch' = [at |-> "body", document |-> d, read |-> 0]
            /\ UNCHANGED <<result, timer>>
  /\ UNCHANGED <<url, root, now, token, synced>>

Counted(read, n) == read + n

\* readBoundedRegionProbeBody: a chunk that exceeds the bound ends the fetch.
Chunk(n) ==
  /\ fetch.at = "body" /\ fetch.read + n <= fetch.document.size /\ n > 0
  /\ IF Counted(fetch.read, n) > Limits.bytes THEN Ends([kind |-> "transport"])
     ELSE /\ fetch' = [fetch EXCEPT !.read = @ + n]
          /\ UNCHANGED <<result, timer>>
  /\ UNCHANGED <<url, root, now, token, synced>>

BodyEnds ==
  /\ fetch.at = "body" /\ fetch.read = fetch.document.size
  /\ Ends(IF Parses(fetch.document, now) THEN [kind |-> "modified", document |-> fetch.document, at |-> now]
          ELSE [kind |-> "validation"])
  /\ UNCHANGED <<url, root, now, token, synced>>

\* The connection or the stream breaks; a body cut short is no JSON.
Breaks ==
  /\ fetch # Idle
  /\ \E kind \in {"transport", "validation"} : (kind = "validation" => fetch.at = "body") /\ Ends([kind |-> kind])
  /\ UNCHANGED <<url, root, now, token, synced>>

\* The timeout aborts the request, and the body that is being read.
Timeout ==
  /\ timer /\ fetch # Idle
  /\ Ends([kind |-> "transport"])
  /\ UNCHANGED <<url, root, now, token, synced>>

-----------------------------------------------------------------------------
(* Calls.  Bound: one request, a fetch or a call, at a time.               *)

\* syncSessionToken
SyncSessionToken(t) ==
  /\ fetch = Idle
  /\ token' = [c \in Targets |-> t] /\ synced' = t
  /\ UNCHANGED <<url, root, fetch, timer, now, result>>

Call(m, given, inner, document) ==
  /\ fetch = Idle /\ result.kind # "called" /\ url.host # "" /\ ~IsSuffix(ProbePath, url.path)
  /\ result' =
       IF Refused(m, given, document) THEN [kind |-> "validation"]
       ELSE [kind |-> "called", method |-> m, path |-> NormalizeSnUrl(url, Channel(m)).path, token |-> token[Channel(m)], due |-> synced,
             fields |-> Sends(m, given, inner), inner |-> SendsInner(m, given, inner)]
  /\ UNCHANGED <<url, root, fetch, timer, now, token, synced>>

\* fromRpcError: a failure with an SN's tag is the SN's; its detail is read only if it is an object of its kind.
Failures == [tag : {"none", "domain_proof_failed", "bns_write_failed", "auth_required"}, json : BOOLEAN]
Detail(f) ==
  IF ~f.json THEN "none"
  ELSE CASE f.tag = "domain_proof_failed" -> "proof" [] f.tag = "bns_write_failed" -> "write" [] OTHER -> "none"
CallEnds ==
  /\ result.kind = "called"
  /\ \/ result' = [kind |-> "answered"]
     \/ \E f \in Failures :
          result' = IF f.tag = "none" THEN [kind |-> "transport"]
                    ELSE [kind |-> "sn", name |-> f.tag, detail |-> Detail(f)]
  /\ UNCHANGED <<url, root, fetch, timer, now, token, synced>>

\* What callers give of the fields they may leave out: none, or all with one that no request has.
Gives(m) == {{}, Methods[m].needs \cup Methods[m].may \cup {"stray"}}
Inners(m) ==
  IF {"endpoints", "records", "initial_documents"} \cap (Methods[m].needs \cup Methods[m].may) = {} THEN {{}}
  ELSE {{}, {"ttl", "zone", "stray"}}
Shapes == [shape : {"object", "jwt", "text"}, owner : BOOLEAN]

Next ==
  \/ Tick \/ Fetch \/ BodyEnds \/ Breaks \/ Timeout
  \/ \E target \in Targets : Rebase(target)
  \/ \E s \in Hints : Hint(s)
  \/ \E status \in {200, 304, 404, 500}, json, said \in BOOLEAN : Responds(status, json, said)
  \/ \E n \in 1..Limits.bytes + 1 : Chunk(n)
  \/ \E t \in {"none"} \cup Tokens : SyncSessionToken(t)
  \/ CallEnds
  \/ \E m \in DOMAIN Methods : \E given \in Gives(m), inner \in Inners(m) :
       \E document \in (IF m = "publish_document" THEN Shapes ELSE {[shape |-> "object", owner |-> FALSE]}) :
         Call(m, given, inner, document)

Spec == Init /\ [][Next]_vars

-----------------------------------------------------------------------------
(***************************************************************************)
(* A configuration that is answered can be probed as it says when it is    *)
(* answered: no more than the bound was read of it, it is in force, and    *)
(* every region has as many origins of its own, all of them public, as a   *)
(* region needs to be compared.                                            *)
(***************************************************************************)
AnsweredCanBeProbed ==
  /\ fetch.at = "body" => fetch.read <= Limits.bytes
  /\ result.kind = "modified" =>
       LET d == result.document
           OriginsOf(i) == {Origin(u) : u \in ToSet(d.regions[i].urls)}
       IN /\ d.size <= Limits.bytes /\ d.until > result.at
          /\ \A i \in DOMAIN d.regions :
               /\ Cardinality(OriginsOf(i)) >= d.policy.minimum
               /\ \A o \in OriginsOf(i) : o.kind = "ipv4" => Public(o.ip)
               /\ \A j \in DOMAIN d.regions \ {i} :
                    OriginsOf(i) \cap OriginsOf(j) = {} /\ d.regions[i].id # d.regions[j].id

(***************************************************************************)
(* Whichever of an SN's URLs a caller has, and whichever clients it was    *)
(* already used for, the next one reaches the same SN under its mount, on  *)
(* the channel that serves the method, with the token given last and with  *)
(* no field or inner field that a server denies; a region name is          *)
(* canonical and the same when it is normalised again.                     *)
(***************************************************************************)
OneSnOneName ==
  /\ WithoutMount(url.path, "probe") = root.path
  /\ fetch.at = "sent" => fetch.url.path = root.path \o ProbePath
  /\ result.kind = "called" =>
       /\ result.path = root.path \o PathOf(Channel(result.method)) /\ result.token = result.due
       /\ "stray" \notin result.fields /\ \A pair \in result.inner : pair[2] # "stray"
       /\ ~({"value", "records"} \subseteq result.fields)
       /\ ("endpoints" \in result.fields) = (\E pair \in result.inner : pair[1] = "endpoints")
  /\ result.kind = "hint" => Canonical(result.region) /\ NormalizeHint(result.region) = {result.region}
=============================================================================
