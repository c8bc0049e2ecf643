---------------------- MODULE MCPermissionsPropagation ----------------------
(* Small instances of PermissionsPropagation for TLC. *)
EXTENDS PermissionsPropagation

CONSTANTS i1, i2, i3

\* One relation kind in which every column matters: 'content' comes down as 'info',
\* 'solution' as 'content_with_descendants', grant and edit with a cap, watch not at all.
MixedKind == [content |-> "as_info", upper |-> "as_content_with_descendants",
              grant_view |-> TRUE, watch |-> FALSE, edit |-> TRUE]
OneKind == {MixedKind}

AllWithGrant == [view |-> 5, grant_view |-> 6, watch |-> 4, edit |-> 4, owner |-> FALSE]
OneGrant == {AllWithGrant}
TwoGrants == {ContentAccess, AllWithGrant}

OneRelation == {[parent |-> i1, child |-> i2, kind |-> MixedKind]}
Chain == OneRelation \cup {[parent |-> i2, child |-> i3, kind |-> MixedKind]}
=============================================================================
