--------------------------- MODULE MCTypeEvolution ---------------------------
(* Rows of information_schema.columns as PostgreSQL 16 reports them, and     *)
(* user-defined types whose names differ in their schema or case only, or    *)
(* are those of built-in types.                                              *)
EXTENDS TypeEvolution

Row(data_type, type, folded, length, precision, scale) ==
  [data_type |-> data_type, udt_name |-> [type |-> type, folded |-> folded],
   length |-> length, precision |-> precision, scale |-> scale]

BuiltIn(data_type, udt_name, length, precision, scale) ==
  Row(data_type, udt_name, udt_name, length, precision, scale)

UserDefined(type, folded) == Row("USER-DEFINED", type, folded, {}, {}, {})

ScalarRows ==
  { BuiltIn("smallint", "int2", {}, {16}, {0}),
    BuiltIn("integer", "int4", {}, {32}, {0}),
    BuiltIn("bigint", "int8", {}, {64}, {0}),
    BuiltIn("character varying", "varchar", {3}, {}, {}),
    BuiltIn("character varying", "varchar", {5}, {}, {}),
    BuiltIn("character varying", "varchar", {}, {}, {}),
    BuiltIn("character", "bpchar", {3}, {}, {}),
    BuiltIn("text", "text", {}, {}, {}),
    BuiltIn("numeric", "numeric", {}, {4}, {1}),
    BuiltIn("numeric", "numeric", {}, {4}, {2}),
    BuiltIn("numeric", "numeric", {}, {6}, {2}),
    BuiltIn("numeric", "numeric", {}, {}, {}),
    BuiltIn("double precision", "float8", {}, {53}, {}),
    BuiltIn("boolean", "bool", {}, {}, {}) }

UserDefinedRows ==
  { UserDefined("public.rarity", "rarity"),
    UserDefined("public.element", "element"),
    UserDefined("mart.Rarity", "rarity"),
    UserDefined("mart.varchar", "varchar") }

ArrayRows ==
  { BuiltIn("ARRAY", "_int4", {}, {}, {}),
    BuiltIn("ARRAY", "_text", {}, {}, {}) }

AllRows == ScalarRows \union UserDefinedRows \union ArrayRows

MCTypes == {CanonicalizePostgresType(raw) : raw \in AllRows}
=============================================================================
