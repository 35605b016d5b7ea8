------------------------------ MODULE Figures ------------------------------
(***************************************************************************)
(* The figures of the pages: what is left of a resource, its percentage,   *)
(* the ring drawn for it.  Decimals and units are left out: a percentage   *)
(* is cut to an integer.                                                   *)
(***************************************************************************)
EXTENDS Naturals

\* A figure the page does not have.
Dash == "--"

Known(figures) == figures.total # 0

Left(figures) ==
    IF figures.used >= figures.total THEN 0 ELSE figures.total - figures.used

Percent(figures) == (100 * figures.used) \div figures.total

Ring(percent) == IF percent > 100 THEN 100 ELSE percent

\* getResourceColor
Color(percent) ==
    IF percent >= 80 THEN "red" ELSE IF percent >= 50 THEN "blue" ELSE "green"

Status(external, good) ==
    IF external THEN "unknown" ELSE IF good THEN "normal" ELSE "abnormal"

\* The remaining/total cell of a card's row.
LeftCell(external, figures) ==
    IF external \/ ~ Known(figures) THEN Dash
    ELSE [remaining |-> Left(figures), total |-> figures.total]

\* Its allocation cell: the ring and the percentage, both cut to 100.
RateCell(external, figures) ==
    IF external \/ ~ Known(figures) THEN Dash
    ELSE [ring |-> Ring(Percent(figures)), text |-> Ring(Percent(figures)),
          color |-> Color(Ring(Percent(figures)))]

\* The allocation cell of a node's row: only the ring is cut to 100.
RawRateCell(external, figures) ==
    IF external \/ ~ Known(figures) THEN Dash
    ELSE [ring |-> Ring(Percent(figures)), text |-> Percent(figures),
          color |-> Color(Ring(Percent(figures)))]
=============================================================================
