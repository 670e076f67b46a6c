----------------------------- MODULE CertStore -----------------------------
(***************************************************************************)
(* The certificates of the panel and the servers that refer to them.  The  *)
(* events that tell who did what to them are in Entrance.                  *)
(*                                                                         *)
(* A certificate is [key, signer, subject, issuer, ca, usage]: its key     *)
(* pair, the key pair that signed it, two names, and what it may be used   *)
(* for.  Key pairs of the panel are named by the row they are made for,    *)
(* those made elsewhere by negative numbers.  No handler takes a lock or   *)
(* opens a transaction, so every statement that follows a reading is a     *)
(* step of its own; ids come from an auto-increment column.                *)
(***************************************************************************)
EXTENDS Integers, FiniteSets, Sequences, SequencesExt

CONSTANTS Names,       \* subjects an administrator enters
          Foreign,     \* certificates made elsewhere that may be imported
          Servers,     \* servers
          Usages,      \* uses a certificate may be signed for
          Writers,     \* slots for handlers in flight that insert a certificate
                       \* or save a server ...
          Deleters,    \* ... and that delete certificates
          MaxId,       \* bound: how many rows are ever inserted
          MaxRefs,     \* bound: how many rows a server refers to, of at most 2
          CertChainMaxDepth   \* certChainMaxDepth, 16 in the code

Requests == Writers \cup Deleters
NoCert == [key |-> 0]
Ids == 1 .. MaxId

Certificate(K) ==
    [key : K, signer : K, subject : STRING, issuer : STRING, ca : BOOLEAN, usage : SUBSET {"server", "client"}]

ForeignKeys == {k \in Int : k < 0}

ASSUME CertStoreAssumption ==
    /\ MaxId \in Nat /\ MaxRefs \in 0 .. 2 /\ CertChainMaxDepth \in Nat \ {0}
    /\ Names \subseteq STRING /\ Foreign \subseteq Certificate(ForeignKeys)
    /\ Usages \subseteq SUBSET {"server", "client"} /\ Writers \cap Deleters = {}

VARIABLES certs,     \* certificates: the row of each id, NoCert if there is none
          next,      \* the next id
          servers,   \* the references of each server, ca and cert; 0 is PEM text
          request,   \* handlers in flight
          raced      \* history: ids referred to while a deletion of them ran

vars == <<certs, next, servers, request, raced>>
-----------------------------------------------------------------------------
(* Certificates *)

\* Subject and issuer agree and the certificate's own key signed it.
IsSelfSigned(X) == X.subject = X.issuer /\ X.signer = X.key

ValidateSignedBy(X, CA) == CA.ca /\ X.signer = CA.key

CertTypeFromEKU(usage) ==
    CASE usage = {"server"} -> "server" [] usage = {"client"} -> "client" [] OTHER -> "unspecified"

TypeOf(row) == IF row.cert.ca THEN "ca" ELSE CertTypeFromEKU(row.cert.usage)

Present == {i \in Ids : certs[i] # NoCert}

\* What the panel's generator makes of a subject: signed by a stored CA, or by
\* its own key when there is no parent.
GenerateCertificate(id, subject, isCA, usage, parent, signer, issuer) ==
    [cert   |-> [key |-> id, signer |-> IF parent = 0 THEN id ELSE signer, subject |-> subject,
                 issuer |-> IF parent = 0 THEN subject ELSE issuer, ca |-> isCA,
                 usage |-> IF isCA THEN {} ELSE usage],
     key    |-> TRUE,
     parent |-> parent]

ListChildCertificate(id) == {i \in Present : certs[i].parent = id}

\* Rows below a certificate, child by child, each after the rows below it; the
\* certificate itself comes last.
Subtree(id) ==
    LET collect[x \in Ids \X (0 .. MaxId)] ==   \* below x[1], up to its child x[2]
            LET before == collect[<<x[1], x[2] - 1>>]
            IN  IF x[2] = 0 THEN <<>>
                ELSE IF x[2] \notin ListChildCertificate(x[1]) THEN before
                ELSE before \o collect[<<x[2], MaxId>>] \o <<x[2]>>
    IN  collect[<<id, MaxId>>] \o <<id>>

RefIds(s) == {servers[s].ca, servers[s].cert} \ {0}

ServersReferencing(id) == {s \in Servers : id \in RefIds(s)}

\* Variant for comparison: the issuer's name decides.
FindParentByName(id, visited) ==
    LET named == {i \in Present \ visited : certs[i].cert.subject = certs[id].cert.issuer}
    IN  IF named = {} THEN 0 ELSE CHOOSE i \in named : \A j \in named : i <= j

\* The row above one: by parent_id, or else by the issuer's name; a row that
\* was visited is not taken again.
FindParentCertificate(id, visited) ==
    LET row == certs[id]
        named == {i \in Present : certs[i].cert.subject = row.cert.issuer}
        first == CHOOSE i \in named : \A j \in named : i <= j
    IN  IF row.parent \in Present \ visited THEN row.parent
        ELSE IF named = {} THEN 0
        ELSE IF first \in visited THEN 0 ELSE first

\* The rows from a certificate up to a root, as far as they are found.
Chain(id) ==
    LET walk[n \in 1 .. CertChainMaxDepth] ==
            IF n = 1 THEN <<id>>
            ELSE LET c == walk[n - 1]
                     above == FindParentCertificate(Last(c), ToSet(c))
                 IN  IF Len(c) < n - 1 \/ IsSelfSigned(certs[Last(c)].cert) \/ above = 0
                     THEN c ELSE Append(c, above)
    IN  walk[CertChainMaxDepth]

\* What is shown: the chain, whether it reaches a root, and of each row but the
\* last whether the row above signed it.
GetCertificateChain(id) ==
    LET c == Chain(id) IN
    [chain    |-> c,
     complete |-> IsSelfSigned(certs[Last(c)].cert),
     verified |-> \A k \in 1 .. Len(c) - 1 : ValidateSignedBy(certs[c[k]].cert, certs[c[k + 1]].cert)]
-----------------------------------------------------------------------------
(* Handlers *)

NoRequest == [op |-> "none"]

Starts(r, what) == request[r] = NoRequest /\ request' = [request EXCEPT ![r] = what]
Ends(r) == request' = [request EXCEPT ![r] = NoRequest]

\* Rows a deletion under way means to delete or has deleted.
Doomed == UNION {ToSet(request[r].ids) : r \in {q \in Deleters : request[q].op # "none"}}

Init ==
    /\ certs = [i \in Ids |-> NoCert]
    /\ next = 1
    /\ servers = [s \in Servers |-> [ca |-> 0, cert |-> 0]]
    /\ request = [r \in Requests |-> NoRequest]
    /\ raced = {}

\* Variant for comparison: the id of a deleted row is given again.
CreateAtFreeId(row) ==
    LET free == Ids \ Present IN
    /\ free # {}
    /\ certs' = [certs EXCEPT ![CHOOSE i \in free : \A j \in free : i <= j] = row]
    /\ UNCHANGED <<next, raced>>

CreateCertificate(row) ==
    /\ next \in Ids
    /\ certs' = [certs EXCEPT ![next] = row]
    /\ next' = next + 1
    /\ raced' = IF row.parent # 0 /\ (row.parent \notin Present \/ row.parent \in Doomed)
                THEN raced \cup {row.parent} ELSE raced

\* A self-signed CA needs no reading.
GenerateRootCA(subject) ==
    /\ CreateCertificate(GenerateCertificate(next, subject, TRUE, {}, 0, 0, subject))
    /\ UNCHANGED <<servers, request>>

\* With a parent, which must be a CA whose key is stored: an intermediate CA ...
GenerateCAHandler(r, subject, ca) ==
    /\ ca \in Present /\ TypeOf(certs[ca]) = "ca" /\ certs[ca].key
    /\ Starts(r, [op |-> "insert", isCA |-> TRUE, usage |-> {},
                  subject |-> subject, parent |-> ca, signer |-> certs[ca].cert.key,
                  issuer |-> certs[ca].cert.subject])
    /\ UNCHANGED <<certs, next, servers, raced>>

\* ... or a certificate for a server, a client or neither.
SignCertificateHandler(r, subject, ca, usage) ==
    /\ ca \in Present /\ TypeOf(certs[ca]) = "ca" /\ certs[ca].key
    /\ Starts(r, [op |-> "insert", isCA |-> FALSE, usage |-> usage,
                  subject |-> subject, parent |-> ca, signer |-> certs[ca].cert.key,
                  issuer |-> certs[ca].cert.subject])
    /\ UNCHANGED <<certs, next, servers, raced>>

InsertGenerated(r) ==
    LET q == request[r] IN
    /\ q.op = "insert"
    /\ CreateCertificate(GenerateCertificate(next, q.subject, q.isCA, q.usage, q.parent, q.signer, q.issuer))
    /\ Ends(r)
    /\ UNCHANGED servers

\* An imported CA is stored without a parent, in one statement; anything else
\* must name the CA that signed it, which is read first.  The key may be missing; only
\* whether a CA has one matters.
ImportCA(X, hasKey) ==
    /\ X.ca
    /\ CreateCertificate([cert |-> X, key |-> hasKey, parent |-> 0])
    /\ UNCHANGED <<servers, request>>

\* Variant for comparison: the CA is looked up by the issuer's name only.
ImportByIssuerName(r, X, ca) ==
    /\ ~X.ca
    /\ ca \in Present /\ TypeOf(certs[ca]) = "ca" /\ certs[ca].cert.subject = X.issuer
    /\ Starts(r, [op |-> "import", cert |-> X, parent |-> ca])
    /\ UNCHANGED <<certs, next, servers, raced>>

ImportCertificateHandler(r, X, ca) ==
    /\ ~X.ca
    /\ ca \in Present /\ TypeOf(certs[ca]) = "ca" /\ ValidateSignedBy(X, certs[ca].cert)
    /\ Starts(r, [op |-> "import", cert |-> X, parent |-> ca])
    /\ UNCHANGED <<certs, next, servers, raced>>

InsertImported(r) ==
    LET q == request[r] IN
    /\ q.op = "import"
    /\ CreateCertificate([cert |-> q.cert, key |-> FALSE, parent |-> q.parent])
    /\ Ends(r)
    /\ UNCHANGED servers

\* Variant for comparison: only the certificate itself is looked for in servers.
DeleteUnlessServerBelow(r, id) ==
    /\ id \in Present
    /\ \A i \in ToSet(Subtree(id)) \ {id} : TypeOf(certs[i]) # "server"
    /\ Starts(r, [op |-> "check", ids |-> Subtree(id), id |-> id])
    /\ UNCHANGED <<certs, next, servers, raced>>

\* The rows below a CA are collected; one that is a server's certificate or is
\* referred to by a server stops the deletion.
DeleteCertificateHandler(r, id) ==
    LET below == ToSet(Subtree(id)) \ {id} IN
    /\ id \in Present
    /\ \A i \in below : TypeOf(certs[i]) # "server" /\ ServersReferencing(i) = {}
    /\ Starts(r, [op |-> "check", ids |-> Subtree(id), id |-> id])
    /\ UNCHANGED <<certs, next, servers, raced>>

\* Then the references to the certificate itself are counted.
CountServerReferencingCertificate(r) ==
    LET q == request[r] IN
    /\ q.op = "check"
    /\ IF ServersReferencing(q.id) = {}
       THEN request' = [request EXCEPT ![r] = [op |-> "delete", ids |-> q.ids]]
       ELSE Ends(r)
    /\ UNCHANGED <<certs, next, servers, raced>>

\* One row after the other, the certificate itself last.
DeleteCertificate(r) ==
    LET q == request[r] IN
    /\ q.op = "delete"
    /\ certs' = [certs EXCEPT ![Head(q.ids)] = NoCert]
    /\ IF Len(q.ids) = 1 THEN Ends(r)
       ELSE request' = [request EXCEPT ![r].ids = Tail(@)]
    /\ UNCHANGED <<next, servers, raced>>

\* The handler is aborted: the database fails, or the panel dies with it.
RequestFails(r) ==
    /\ request[r] # NoRequest
    /\ Ends(r)
    /\ UNCHANGED <<certs, next, servers, raced>>
-----------------------------------------------------------------------------
(* Servers *)

\* References must exist when a server is created or updated ...
ValidateCertReferences(r, s, ca, cert) ==
    /\ {ca, cert} \ {0} \subseteq Present /\ Cardinality({ca, cert} \ {0}) <= MaxRefs
    /\ Starts(r, [op |-> "save", server |-> s, ca |-> ca, cert |-> cert])
    /\ UNCHANGED <<certs, next, servers, raced>>

\* ... then the row is written.
SaveServer(r) ==
    LET q == request[r]
        ids == {q.ca, q.cert} \ {0}
    IN
    /\ q.op = "save"
    /\ servers' = [servers EXCEPT ![q.server] = [ca |-> q.ca, cert |-> q.cert]]
    /\ raced' = raced \cup ((ids \ Present) \cup (ids \cap Doomed))
    /\ Ends(r)
    /\ UNCHANGED <<certs, next>>

DeleteServer(s) ==
    /\ servers' = [servers EXCEPT ![s] = [ca |-> 0, cert |-> 0]]
    /\ UNCHANGED <<certs, next, request, raced>>

\* Variant for comparison: any certificate a client may use.
MayExportAny(s, id) == id \in Present /\ TypeOf(certs[id]) \in {"client", "unspecified"}

\* A profile is made of the server's CA and a client's certificate, which must
\* have been issued by that CA if the server refers to one.
MayExport(s, id) ==
    /\ id \in Present
    /\ TypeOf(certs[id]) \in {"client", "unspecified"}
    /\ servers[s].ca # 0 => certs[id].parent = servers[s].ca

-----------------------------------------------------------------------------
CertificateStep ==
    \/ \E n \in Names : GenerateRootCA(n)
    \/ \E r \in Writers, n \in Names, ca \in Present :
          \/ GenerateCAHandler(r, n, ca)
          \/ \E usage \in Usages : SignCertificateHandler(r, n, ca, usage)
    \/ \E X \in Foreign, hasKey \in BOOLEAN : ImportCA(X, hasKey)
    \/ \E r \in Writers, X \in Foreign, ca \in Present : ImportCertificateHandler(r, X, ca)
    \/ \E r \in Writers : InsertGenerated(r) \/ InsertImported(r)
    \/ \E r \in Deleters, id \in Present : DeleteCertificateHandler(r, id)
    \/ \E r \in Deleters : CountServerReferencingCertificate(r) \/ DeleteCertificate(r)

ServerStep ==
    \/ \E r \in Writers, s \in Servers, ca, cert \in Present \cup {0} : ValidateCertReferences(r, s, ca, cert)
    \/ \E r \in Writers : SaveServer(r)
    \/ \E s \in Servers : DeleteServer(s)

Next ==
    \/ CertificateStep \/ ServerStep
    \/ \E r \in Requests : RequestFails(r)

Spec == Init /\ [][Next]_vars
-----------------------------------------------------------------------------
Row == [cert : Certificate(Int), key : BOOLEAN, parent : 0 .. MaxId]

\* Rows, references, handlers and events are ones the handlers can write; a
\* parent is an earlier row.
TypeOK ==
    /\ next \in 1 .. MaxId + 1
    /\ \A i \in Ids : certs[i] # NoCert => i < next /\ certs[i] \in Row /\ certs[i].parent < i
    /\ servers \in [Servers -> [ca : 0 .. next - 1, cert : 0 .. next - 1]]
    /\ raced \subseteq 1 .. next - 1

\* A stored parent is a CA that signed the row, whatever is deleted, imported
\* again or created under the same name meanwhile.
ParentSigned ==
    \A i \in Present : certs[i].parent \in Present =>
        LET CA == certs[certs[i].parent].cert IN
        /\ ValidateSignedBy(certs[i].cert, CA)
        /\ certs[i].cert.key > 0 => certs[i].cert.issuer = CA.subject

\* Deleting a CA takes the rows below it along and refuses what servers use; at
\* no moment, and after no failure half way, is a row or a server left without
\* what it refers to, unless it was written while the deletion was under way.
NoDangling ==
    /\ \A i \in Present : certs[i].parent \in Present \cup raced \cup {0}
    /\ \A s \in Servers : RefIds(s) \subseteq Present \cup raced

\* The parents of a row up to a self-signed root, if all of them are stored.
Ancestors(id) ==
    LET up[i \in Present] ==
            IF IsSelfSigned(certs[i].cert) \/ certs[i].parent \notin Present THEN <<i>>
            ELSE <<i>> \o up[certs[i].parent]
    IN  up[id]

\* The chain shown for a row whose parents are stored up to a root is that of
\* its parents, complete and verified, whatever other CAs share their names.
ChainFound ==
    \A i \in Present :
        LET up == Ancestors(i)
            shown == GetCertificateChain(i)
        IN  IsSelfSigned(certs[Last(up)].cert) /\ Len(up) <= CertChainMaxDepth =>
                shown.chain = up /\ shown.complete /\ shown.verified

\* A profile that may be exported holds a certificate the CA in it has signed.
ExportMatches ==
    \A s \in Servers, i \in Present :
        MayExport(s, i) /\ servers[s].ca \in Present =>
            ValidateSignedBy(certs[i].cert, certs[servers[s].ca].cert)
=============================================================================
