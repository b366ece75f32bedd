------------------------------- MODULE Export -------------------------------
(***************************************************************************)
(* The CSV of export.py, and how the guide reads one back.  A text is the  *)
(* apostrophes it begins with and the rest, which matters only by whether  *)
(* a spreadsheet would take it for a formula.  A row is a record of the    *)
(* submission's identity and its fields in order.                          *)
(***************************************************************************)
EXTENDS Integers, Sequences, Functions, Subsequences

CONSTANT Formulas  \* the texts that begin with one of _FORMULA_LEADERS

Text(marks, rest) == [marks |-> marks, rest |-> rest]

METADATA_COLUMNS ==
  <<Text(0, "submission_id"), Text(0, "endpoint_id"), Text(0, "received_at")>>

\* None of the fixed headers begins like a formula.
ASSUME ExportAssumption ==
         \A i \in DOMAIN METADATA_COLUMNS : METADATA_COLUMNS[i].rest \notin Formulas

\* An empty cell; a field sent with an empty value is a cell of one empty value.
Empty == <<"empty">>

Json(values) == <<"json", values>>

IsFormula(cell) == cell.marks = 0 /\ cell.rest \in Formulas

\* One apostrophe in front of what would be evaluated.
safe(cell) == IF IsFormula(cell) THEN [cell EXCEPT !.marks = 1] ELSE cell

NamesOf(row) == [i \in DOMAIN row.fields |-> row.fields[i].name]

\* Mutant: the columns are the first row's.
FirstRowNames(rows) == IF rows = <<>> THEN <<>> ELSE NamesOf(Head(rows))

\* The fields of an export, by line and position, and the order a loop meets them in.
Places(rows) == UNION {{line} \X DOMAIN rows[line].fields : line \in DOMAIN rows}

NameAt(rows, place) == rows[place[1]].fields[place[2]].name

MetBefore(p, q) == p[1] < q[1] \/ (p[1] = q[1] /\ p[2] < q[2])

\* The keys of the names dict: every name of every row, where it is first met.
field_names(rows) ==
  LET firsts == {q \in Places(rows) :
                   \A p \in Places(rows) : MetBefore(p, q) => NameAt(rows, p) # NameAt(rows, q)}
      met    == InOrder(firsts, {pair \in firsts \X firsts : MetBefore(pair[1], pair[2])})
  IN  [k \in DOMAIN met |-> NameAt(rows, met[k])]

\* The values of a field the row carries, or an empty cell.
cell_of(row, name) ==
  IF name \in Range(NamesOf(row))
  THEN Json(row.fields[CHOOSE i \in DOMAIN row.fields : row.fields[i].name = name].values)
  ELSE Empty

\* Neither an identifier, a timestamp nor a JSON array begins with a formula leader, so
\* the marker only ever changes the header.
row_cells(row, names) ==
  <<row.id, row.endpoint_id, row.received_at>>
    \o [i \in DOMAIN names |-> cell_of(row, names[i])]

csv_document(rows) ==
  LET names   == field_names(rows)
      columns == METADATA_COLUMNS \o names
  IN  [header |-> [i \in DOMAIN columns |-> safe(columns[i])],
       lines  |-> [i \in DOMAIN rows |-> row_cells(rows[i], names)]]

-----------------------------------------------------------------------------
(***************************************************************************)
(* csv.DictReader: the cell of a column by its header, where a later       *)
(* column of the same header wins.                                         *)
(***************************************************************************)
Columns(document, header) == {i \in DOMAIN document.header : document.header[i] = header}

Alone(document, header) == \E i \in DOMAIN document.header : Columns(document, header) = {i}

Cell(document, line, header) ==
  document.lines[line][CHOOSE i \in Columns(document, header) :
                         \A j \in Columns(document, header) : j <= i]

=============================================================================
