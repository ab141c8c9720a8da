--------------------------- MODULE DomainMetadata ---------------------------
(***************************************************************************)
(* What the permissions controller remembers of the sites that talk to it  *)
(* (names and icons): that of sites with permissions for good, that of     *)
(* others for the last few sites, kept in a queue since the start of the   *)
(* page.                                                                   *)
(***************************************************************************)
EXTENDS Naturals, Sequences, SequencesExt

CONSTANTS
  Sites,
  CacheMax  \* METADATA_CACHE_MAX_SIZE

ASSUME CacheMaxAssumption == CacheMax \in Nat \ {0}

VARIABLES
  metadata,  \* sites whose metadata is stored
  pending,   \* _pendingSiteMetadata, a set in the order of insertion
  domains,   \* sites with permissions
  parted     \* sites that lost their permissions since the start

metaVars == <<metadata, pending, domains, parted>>

(* The metadata of a site without permissions is that of one of the last    *)
(* CacheMax sites, unless the site had a permission while it was in the     *)
(* queue: such a one is kept until the next start.                          *)
MetaTypeOK ==
  /\ metadata \in SUBSET Sites /\ domains \in SUBSET Sites /\ parted \in SUBSET Sites
  /\ pending \in Seq(Sites) /\ IsInjective(pending)
  /\ Len(pending) <= CacheMax
  /\ metadata \ (domains \cup parted) \subseteq ToSet(pending)

MetaInit ==
  /\ domains \in SUBSET Sites
  /\ metadata \in SUBSET domains
  /\ pending = <<>> /\ parted = {}

Overfull == Len(pending) > CacheMax
Full == Len(pending) >= CacheMax

AnySite(o) == TRUE
Forgettable(o) == o \notin domains

(* The oldest site leaves the queue also if the new one is in it already;   *)
(* an element added again keeps its place.                                  *)
Queued(queue, o) == IF o \in ToSet(queue) THEN queue ELSE Append(queue, o)

AddDomainMetadata(o) ==
  LET oldest == IF Full THEN {Head(pending)} ELSE {}
      rest == IF Full THEN Tail(pending) ELSE pending
  IN  /\ metadata' = (metadata \ {p \in oldest : Forgettable(p)}) \cup {o}
      /\ pending' = Queued(rest, o)
      /\ UNCHANGED <<domains, parted>>

Connect(o) ==
  /\ domains' = domains \cup {o}
  /\ parted' = parted \ {o}
  /\ UNCHANGED <<metadata, pending>>

Disconnect(o) ==
  /\ o \in domains
  /\ domains' = domains \ {o}
  /\ parted' = parted \cup {o}
  /\ UNCHANGED <<metadata, pending>>

(* _initializeMetadataStore with _trimDomainMetadata *)
Reboot ==
  /\ metadata' = metadata \cap domains
  /\ pending' = <<>>
  /\ parted' = {}
  /\ UNCHANGED domains

MetaNext ==
  \/ \E o \in Sites : AddDomainMetadata(o) \/ Connect(o) \/ Disconnect(o)
  \/ Reboot

MetaSpec == MetaInit /\ [][MetaNext]_metaVars

-----------------------------------------------------------------------------
(* Properties *)

(* "Metadata is never deleted for domains with permissions".                *)
ConnectedRemembered == [][\A o \in metadata \cap domains : o \in metadata']_metaVars
=============================================================================
