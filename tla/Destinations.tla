---------------------------- MODULE Destinations ----------------------------
(***************************************************************************)
(* validate_webhook_url of webhooks.py: which destinations an endpoint may *)
(* have.  A URL is what the rules can tell about it; its host is a list of *)
(* labels, an address or a number, with or without a trailing dot.         *)
(* urlsplit has lowered its case already.                                  *)
(***************************************************************************)
EXTENDS Integers, Sequences

CONSTANT AllowPrivateTargets  \* allow_private_webhook_targets

ASSUME DestinationAssumption == AllowPrivateTargets \in BOOLEAN

ALLOWED_SCHEMES == {"http", "https"}

\* The scopes of the six flags of ipaddress that _is_internal_host asks for.
InternalScopes == {"loopback", "private", "link_local", "multicast", "reserved", "unspecified"}

NoHost == [form |-> "none", dots |-> 0]

Name(labels, dots) == [form |-> "name", labels |-> labels, dots |-> dots]

\* An IPv4 address, an IPv6 address, and an IPv6 address that embeds an IPv4 one.  The
\* block of the last kind is itself reserved, whatever the embedded address is.
V4(scope, dots) == [form |-> "v4", scope |-> scope, dots |-> dots]
V6(scope)       == [form |-> "v6", scope |-> scope, dots |-> 0]
Mapped(scope)   == [form |-> "mapped", scope |-> "reserved", ipv4_mapped |-> V4(scope, 0),
                    dots |-> 0]

\* An address the system's resolver accepts and ipaddress does not: shortened, octal or
\* a single integer.  ip_address raises ValueError for it, as for a name.
Numeric(scope, dots) == [form |-> "numeric", scope |-> scope, dots |-> dots]

\* What urlsplit and ipaddress can make of the host of a URL.
IsHost(host) ==
  \/ host = NoHost
  \/ host.form = "name" /\ host = Name(host.labels, host.dots)
  \/ host.form = "v4" /\ host = V4(host.scope, host.dots)
  \/ host.form = "v6" /\ host = V6(host.scope)
  \/ host.form = "mapped" /\ host = Mapped(host.ipv4_mapped.scope)
  \/ host.form = "numeric" /\ host = Numeric(host.scope, host.dots)

\* Mutant: the host is judged as it was written.
AsWritten(host) == host

\* host.rstrip(".")
stripped(host) == [host EXCEPT !.dots = 0]

\* address.ipv4_mapped, where there is one.
unmapped(host) == IF host.form = "mapped" THEN host.ipv4_mapped ELSE host

\* A host with dots left is neither the text "localhost" nor an address, and a number is
\* not one to ipaddress: only literals are judged.
is_internal_host(host) ==
  LET name == stripped(host) IN
  /\ name.dots = 0
  /\ \/ name.form = "name" /\ name.labels[Len(name.labels)] = "localhost"
     \/ name.form \in {"v4", "v6", "mapped"} /\ unmapped(name).scope \in InternalScopes

\* Labels with no IDNA form: empty, over 63 characters, or of characters it has none for.
BadLabels == {"", "over_63_characters", "no_idna_form"}

\* host.encode("idna"): every label has a form and at most one dot ends the name.
encodes(host) ==
  /\ host.dots <= 1
  /\ host.form = "name" => \A i \in DOMAIN host.labels : host.labels[i] \notin BadLabels

\* WebhookUrlRejected.
Rejected(url) ==
  \/ url.too_long
  \/ url.unsafe
  \/ ~url.well_formed
  \/ url.scheme \notin ALLOWED_SCHEMES
  \/ url.host = NoHost
  \/ ~encodes(url.host)
  \/ ~AllowPrivateTargets /\ is_internal_host(url.host)

-----------------------------------------------------------------------------
(***************************************************************************)
(* The reference: where a connection to a host goes without asking DNS.    *)
(* What a name resolves to is not known here.  A number leads where its    *)
(* address does, so Rejected does not keep out everything that leads       *)
(* inside: the check is about literals, and partial by its own account.    *)
(***************************************************************************)
LeadsInside(host) ==
  CASE host.form = "name"   -> host.labels[Len(host.labels)] = "localhost"
    [] host.form = "mapped" -> host.ipv4_mapped.scope \in InternalScopes
    [] host.form = "none"   -> FALSE
    [] OTHER                -> host.scope \in InternalScopes

\* The hosts the check can tell about: the name localhost and its subdomains, and the
\* addresses in a notation ipaddress parses.
IsLiteral(host) ==
  \/ host.form = "name" /\ host.labels[Len(host.labels)] = "localhost"
  \/ host.form \in {"v4", "v6", "mapped"}

=============================================================================
