------------------------------ MODULE Sources -------------------------------
(***************************************************************************)
(* The way of a media from its channel to the target: the registry of the  *)
(* sources, the cursors of their scans, and the delivery, under every      *)
(* fault that Delivery knows of.  They share no variable, so that a        *)
(* behaviour of one is explored while the others stand still; "focus" says *)
(* which.                                                                  *)
(***************************************************************************)
EXTENDS SourceRegistry, SourceCursors, Delivery

VARIABLE focus

deliveryVars == vars

sourcesVars == <<focus, registryVars, cursorVars, deliveryVars>>

SourcesInit ==
    /\ focus \in {"registry", "cursors", "delivery"}
    /\ RegistryInit
    /\ CursorsInit
    /\ Init
    /\ focus # "delivery" => ~captioned

SourcesNext ==
    \/ /\ focus = "registry"
       /\ RegistryNext
       /\ UNCHANGED <<focus, cursorVars, deliveryVars>>
    \/ /\ focus = "cursors"
       /\ CursorsNext
       /\ UNCHANGED <<focus, registryVars, deliveryVars>>
    \/ /\ focus = "delivery"
       /\ Next
       /\ UNCHANGED <<focus, registryVars, cursorVars>>

SourcesSpec == SourcesInit /\ [][SourcesNext]_sourcesVars

(* The state of the part that is explored is of its type. *)
SourcesTypeOK ==
    /\ focus = "registry" => RegistryTypeOK
    /\ focus = "cursors" => CursorsTypeOK
    /\ focus = "delivery" => TypeOK

(* Two states that differ only in the lapses of a delivery are one state,
   unless one of them has none, or only that of the second sender: lapses only
   grow and no action reads them, so that OnlyLapsesHurt tells no others
   apart. *)
HurtBy == IF lapses \in {{}, {"second sender"}} THEN lapses ELSE Lapses

(* A cache with the whole album gives what a fetch would give from now on,
   whether it has expired or not. *)
PartOfAlbum == IF groupCache = AlbumIds THEN {} ELSE groupCache

(* Of a state the part that is explored. *)
SourcesView ==
    CASE focus = "registry" -> <<focus, registryVars>>
      [] focus = "cursors" ->
            <<focus, PartOfAlbum, published, marked, admitted, albumVars,
              held, left, scanning, metAlbum, guardCursor, cursorLocals,
              backfillVars, passedOver, scanFaults>>
      [] focus = "delivery" ->
            <<focus, HurtBy, stage, op, tries, intentVars, telegramVars,
              postedVars, recorded, crashes>>
=============================================================================
