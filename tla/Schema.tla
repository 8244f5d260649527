-------------------------------- MODULE Schema --------------------------------
(***************************************************************************)
(* The outline of the user's database: the rows the catalogue query        *)
(* returns, grouped into tables (internal/dbinspect/inspect.go), and the   *)
(* text the API is given of them, all of it or what the user selected      *)
(* (ui/index.html).                                                        *)
(*                                                                         *)
(* A row is the name of a table and a column of it.  Table names are       *)
(* numbers, in the order sort.Strings gives them, which need not be the    *)
(* order of the rows: the database sorts by its own collation.             *)
(***************************************************************************)
EXTENDS Strings

\* Inspect: order gets a name with its first row, byTable each row's column.
Names(rows) ==
    Picked([i \in DOMAIN rows |-> rows[i].table],
           {i \in DOMAIN rows : \A j \in 1..i - 1 : rows[j].table # rows[i].table})

ColumnsOf(rows, t) ==
    Picked([i \in DOMAIN rows |-> rows[i].column], {i \in DOMAIN rows : rows[i].table = t})

Inspect_unsorted(rows) ==
    [i \in DOMAIN Names(rows) |->
        [name |-> Names(rows)[i], columns |-> ColumnsOf(rows, Names(rows)[i])]]
Inspect(rows) ==
    LET order == Sorted(Names(rows))
    IN  [i \in DOMAIN order |->
            [name |-> order[i], columns |-> ColumnsOf(rows, order[i])]]

TableText(t) ==
    <<t.name, ":">> \o Join([i \in DOMAIN t.columns |-> <<t.columns[i]>>], ",")

SchemaString(tables) == Join([i \in DOMAIN tables |-> TableText(tables[i])], ";")

\* The same in the page, for the tables that are selected.
SchemaOfSelection(allTables, selected) ==
    SchemaString(Picked(allTables, {i \in DOMAIN allTables : allTables[i].name \in selected}))
=============================================================================
