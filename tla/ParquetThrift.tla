---------------------------- MODULE ParquetThrift ----------------------------
(***************************************************************************)
(* crates/parquet-lab/src/parquet_thrift.rs: the names Parquet gives to    *)
(* Thrift's numbers, a table copied by hand from parquet.thrift.  The      *)
(* readers of metadata.rs, pages.rs, page_index.rs and bloom.rs do not use *)
(* it: they have the ids in their code.  The map of a file does.           *)
(***************************************************************************)
EXTENDS Integers, Sequences

\* Kind: what a field holds, or the elements of the list it holds.
Kind(is, name) == [is |-> is, name |-> name, list |-> FALSE]
Int_ == Kind("int", "")
Bool_ == Kind("bool", "")
Str_ == Kind("str", "")
Bytes_ == Kind("bytes", "")
Enum(name) == Kind("enum", name)
StructKind(name) == Kind("struct", name)
ListOfKind(kind) == [kind EXCEPT !.list = TRUE]

Field_(id, name, kind) == [id |-> id, name |-> name, kind |-> kind]

FILE_META_DATA ==
    << Field_(1, "version", Int_), Field_(2, "schema", ListOfKind(StructKind("SchemaElement"))),
       Field_(3, "num_rows", Int_), Field_(4, "row_groups", ListOfKind(StructKind("RowGroup"))),
       Field_(5, "key_value_metadata", ListOfKind(StructKind("KeyValue"))), Field_(6, "created_by", Str_),
       Field_(7, "column_orders", ListOfKind(StructKind("ColumnOrder"))),
       Field_(8, "encryption_algorithm", StructKind("EncryptionAlgorithm")),
       Field_(9, "footer_signing_key_metadata", Bytes_) >>

SCHEMA_ELEMENT ==
    << Field_(1, "type", Enum("Type")), Field_(2, "type_length", Int_),
       Field_(3, "repetition_type", Enum("FieldRepetitionType")), Field_(4, "name", Str_),
       Field_(5, "num_children", Int_), Field_(6, "converted_type", Enum("ConvertedType")),
       Field_(7, "scale", Int_), Field_(8, "precision", Int_), Field_(9, "field_id", Int_),
       Field_(10, "logicalType", StructKind("LogicalType")) >>

ROW_GROUP ==
    << Field_(1, "columns", ListOfKind(StructKind("ColumnChunk"))), Field_(2, "total_byte_size", Int_),
       Field_(3, "num_rows", Int_), Field_(4, "sorting_columns", ListOfKind(StructKind("SortingColumn"))),
       Field_(5, "file_offset", Int_), Field_(6, "total_compressed_size", Int_), Field_(7, "ordinal", Int_) >>

COLUMN_CHUNK ==
    << Field_(1, "file_path", Str_), Field_(2, "file_offset", Int_),
       Field_(3, "meta_data", StructKind("ColumnMetaData")),
       Field_(4, "offset_index_offset", Int_), Field_(5, "offset_index_length", Int_),
       Field_(6, "column_index_offset", Int_), Field_(7, "column_index_length", Int_),
       Field_(8, "crypto_metadata", StructKind("ColumnCryptoMetaData")),
       Field_(9, "encrypted_column_metadata", Bytes_) >>

COLUMN_META_DATA ==
    << Field_(1, "type", Enum("Type")), Field_(2, "encodings", ListOfKind(Enum("Encoding"))),
       Field_(3, "path_in_schema", ListOfKind(Str_)), Field_(4, "codec", Enum("CompressionCodec")),
       Field_(5, "num_values", Int_), Field_(6, "total_uncompressed_size", Int_),
       Field_(7, "total_compressed_size", Int_),
       Field_(8, "key_value_metadata", ListOfKind(StructKind("KeyValue"))),
       Field_(9, "data_page_offset", Int_), Field_(10, "index_page_offset", Int_),
       Field_(11, "dictionary_page_offset", Int_), Field_(12, "statistics", StructKind("Statistics")),
       Field_(13, "encoding_stats", ListOfKind(StructKind("PageEncodingStats"))),
       Field_(14, "bloom_filter_offset", Int_), Field_(15, "bloom_filter_length", Int_),
       Field_(16, "size_statistics", StructKind("SizeStatistics")),
       Field_(17, "geospatial_statistics", StructKind("GeospatialStatistics")) >>

\* Faulty variant: the deprecated pair of bounds and the new one change names.
STATISTICS_Swapped ==
    << Field_(1, "max_value", Bytes_), Field_(2, "min_value", Bytes_), Field_(3, "null_count", Int_),
       Field_(4, "distinct_count", Int_), Field_(5, "max", Bytes_), Field_(6, "min", Bytes_),
       Field_(7, "is_max_value_exact", Bool_), Field_(8, "is_min_value_exact", Bool_) >>

STATISTICS ==
    << Field_(1, "max", Bytes_), Field_(2, "min", Bytes_), Field_(3, "null_count", Int_),
       Field_(4, "distinct_count", Int_), Field_(5, "max_value", Bytes_), Field_(6, "min_value", Bytes_),
       Field_(7, "is_max_value_exact", Bool_), Field_(8, "is_min_value_exact", Bool_) >>

PAGE_ENCODING_STATS ==
    << Field_(1, "page_type", Enum("PageType")), Field_(2, "encoding", Enum("Encoding")), Field_(3, "count", Int_) >>

KEY_VALUE == << Field_(1, "key", Str_), Field_(2, "value", Str_) >>

SORTING_COLUMN ==
    << Field_(1, "column_idx", Int_), Field_(2, "descending", Bool_), Field_(3, "nulls_first", Bool_) >>

COLUMN_ORDER == << Field_(1, "TYPE_ORDER", StructKind("TypeDefinedOrder")) >>

SIZE_STATISTICS ==
    << Field_(1, "unencoded_byte_array_data_bytes", Int_), Field_(2, "repetition_level_histogram", ListOfKind(Int_)),
       Field_(3, "definition_level_histogram", ListOfKind(Int_)) >>

LOGICAL_TYPE ==
    << Field_(1, "STRING", StructKind("StringType")), Field_(2, "MAP", StructKind("MapType")),
       Field_(3, "LIST", StructKind("ListType")), Field_(4, "ENUM", StructKind("EnumType")),
       Field_(5, "DECIMAL", StructKind("DecimalType")), Field_(6, "DATE", StructKind("DateType")),
       Field_(7, "TIME", StructKind("TimeType")), Field_(8, "TIMESTAMP", StructKind("TimestampType")),
       Field_(10, "INTEGER", StructKind("IntType")), Field_(11, "UNKNOWN", StructKind("NullType")),
       Field_(12, "JSON", StructKind("JsonType")), Field_(13, "BSON", StructKind("BsonType")),
       Field_(14, "UUID", StructKind("UUIDType")), Field_(15, "FLOAT16", StructKind("Float16Type")),
       Field_(16, "VARIANT", StructKind("VariantType")), Field_(17, "GEOMETRY", StructKind("GeometryType")),
       Field_(18, "GEOGRAPHY", StructKind("GeographyType")) >>

DECIMAL_TYPE == << Field_(1, "scale", Int_), Field_(2, "precision", Int_) >>

TIME_UNIT ==
    << Field_(1, "MILLIS", StructKind("MilliSeconds")), Field_(2, "MICROS", StructKind("MicroSeconds")),
       Field_(3, "NANOS", StructKind("NanoSeconds")) >>

TIME_TYPE == << Field_(1, "isAdjustedToUTC", Bool_), Field_(2, "unit", StructKind("TimeUnit")) >>

INT_TYPE == << Field_(1, "bitWidth", Int_), Field_(2, "isSigned", Bool_) >>

PAGE_HEADER ==
    << Field_(1, "type", Enum("PageType")), Field_(2, "uncompressed_page_size", Int_),
       Field_(3, "compressed_page_size", Int_), Field_(4, "crc", Int_),
       Field_(5, "data_page_header", StructKind("DataPageHeader")),
       Field_(6, "index_page_header", StructKind("IndexPageHeader")),
       Field_(7, "dictionary_page_header", StructKind("DictionaryPageHeader")),
       Field_(8, "data_page_header_v2", StructKind("DataPageHeaderV2")) >>

DATA_PAGE_HEADER ==
    << Field_(1, "num_values", Int_), Field_(2, "encoding", Enum("Encoding")),
       Field_(3, "definition_level_encoding", Enum("Encoding")),
       Field_(4, "repetition_level_encoding", Enum("Encoding")), Field_(5, "statistics", StructKind("Statistics")) >>

DICTIONARY_PAGE_HEADER ==
    << Field_(1, "num_values", Int_), Field_(2, "encoding", Enum("Encoding")), Field_(3, "is_sorted", Bool_) >>

DATA_PAGE_HEADER_V2 ==
    << Field_(1, "num_values", Int_), Field_(2, "num_nulls", Int_), Field_(3, "num_rows", Int_),
       Field_(4, "encoding", Enum("Encoding")), Field_(5, "definition_levels_byte_length", Int_),
       Field_(6, "repetition_levels_byte_length", Int_), Field_(7, "is_compressed", Bool_),
       Field_(8, "statistics", StructKind("Statistics")) >>

COLUMN_INDEX ==
    << Field_(1, "null_pages", ListOfKind(Bool_)), Field_(2, "min_values", ListOfKind(Bytes_)),
       Field_(3, "max_values", ListOfKind(Bytes_)), Field_(4, "boundary_order", Enum("BoundaryOrder")),
       Field_(5, "null_counts", ListOfKind(Int_)), Field_(6, "repetition_level_histograms", ListOfKind(Int_)),
       Field_(7, "definition_level_histograms", ListOfKind(Int_)) >>

OFFSET_INDEX ==
    << Field_(1, "page_locations", ListOfKind(StructKind("PageLocation"))),
       Field_(2, "unencoded_byte_array_data_bytes", ListOfKind(Int_)) >>

PAGE_LOCATION ==
    << Field_(1, "offset", Int_), Field_(2, "compressed_page_size", Int_), Field_(3, "first_row_index", Int_) >>

BLOOM_FILTER_HEADER ==
    << Field_(1, "numBytes", Int_), Field_(2, "algorithm", StructKind("BloomFilterAlgorithm")),
       Field_(3, "hash", StructKind("BloomFilterHash")),
       Field_(4, "compression", StructKind("BloomFilterCompression")) >>
BLOOM_FILTER_ALGORITHM == << Field_(1, "BLOCK", StructKind("SplitBlockAlgorithm")) >>
BLOOM_FILTER_HASH == << Field_(1, "XXHASH", StructKind("XxHash")) >>
BLOOM_FILTER_COMPRESSION == << Field_(1, "UNCOMPRESSED", StructKind("Uncompressed")) >>

FILE_CRYPTO_META_DATA ==
    << Field_(1, "encryption_algorithm", StructKind("EncryptionAlgorithm")), Field_(2, "key_metadata", Bytes_) >>
ENCRYPTION_ALGORITHM ==
    << Field_(1, "AES_GCM_V1", StructKind("AesGcmV1")), Field_(2, "AES_GCM_CTR_V1", StructKind("AesGcmCtrV1")) >>
AES_GCM ==
    << Field_(1, "aad_prefix", Bytes_), Field_(2, "aad_file_unique", Bytes_), Field_(3, "supply_aad_prefix", Bool_) >>
COLUMN_CRYPTO_META_DATA ==
    << Field_(1, "ENCRYPTION_WITH_FOOTER_KEY", StructKind("EncryptionWithFooterKey")),
       Field_(2, "ENCRYPTION_WITH_COLUMN_KEY", StructKind("EncryptionWithColumnKey")) >>
ENCRYPTION_WITH_COLUMN_KEY == << Field_(1, "path_in_schema", ListOfKind(Str_)), Field_(2, "key_metadata", Bytes_) >>

\* fields_of: the fields of a named struct.
Tables ==
    [FileMetaData |-> FILE_META_DATA, SchemaElement |-> SCHEMA_ELEMENT, RowGroup |-> ROW_GROUP,
     ColumnChunk |-> COLUMN_CHUNK, ColumnMetaData |-> COLUMN_META_DATA, Statistics |-> STATISTICS,
     PageEncodingStats |-> PAGE_ENCODING_STATS, KeyValue |-> KEY_VALUE, SortingColumn |-> SORTING_COLUMN,
     ColumnOrder |-> COLUMN_ORDER, SizeStatistics |-> SIZE_STATISTICS, LogicalType |-> LOGICAL_TYPE,
     DecimalType |-> DECIMAL_TYPE, TimeType |-> TIME_TYPE, TimestampType |-> TIME_TYPE, TimeUnit |-> TIME_UNIT,
     IntType |-> INT_TYPE, PageHeader |-> PAGE_HEADER, DataPageHeader |-> DATA_PAGE_HEADER,
     DictionaryPageHeader |-> DICTIONARY_PAGE_HEADER, DataPageHeaderV2 |-> DATA_PAGE_HEADER_V2,
     ColumnIndex |-> COLUMN_INDEX, OffsetIndex |-> OFFSET_INDEX, PageLocation |-> PAGE_LOCATION,
     BloomFilterHeader |-> BLOOM_FILTER_HEADER, BloomFilterAlgorithm |-> BLOOM_FILTER_ALGORITHM,
     BloomFilterHash |-> BLOOM_FILTER_HASH, BloomFilterCompression |-> BLOOM_FILTER_COMPRESSION,
     FileCryptoMetaData |-> FILE_CRYPTO_META_DATA, EncryptionAlgorithm |-> ENCRYPTION_ALGORITHM,
     AesGcmV1 |-> AES_GCM, AesGcmCtrV1 |-> AES_GCM, ColumnCryptoMetaData |-> COLUMN_CRYPTO_META_DATA,
     EncryptionWithColumnKey |-> ENCRYPTION_WITH_COLUMN_KEY]

\* Or an empty list for one the tables do not describe.
FieldsIn(tables, struct_name) == IF struct_name \in DOMAIN tables THEN tables[struct_name] ELSE <<>>
FieldsOf(struct_name) == FieldsIn(Tables, struct_name)

\* field_def: the first field with an id, if the tables have it.
FieldDef(struct_name, id) == SelectSeq(FieldsOf(struct_name), LAMBDA d : d.id = id)

\* enum_value_name's names, from 0 on.
PhysicalTypes == <<"BOOLEAN", "INT32", "INT64", "INT96", "FLOAT", "DOUBLE", "BYTE_ARRAY", "FIXED_LEN_BYTE_ARRAY">>
ConvertedTypes ==
    <<"UTF8", "MAP", "MAP_KEY_VALUE", "LIST", "ENUM", "DECIMAL", "DATE", "TIME_MILLIS", "TIME_MICROS",
      "TIMESTAMP_MILLIS", "TIMESTAMP_MICROS", "UINT_8", "UINT_16", "UINT_32", "UINT_64",
      "INT_8", "INT_16", "INT_32", "INT_64", "JSON", "BSON", "INTERVAL">>
Repetitions == <<"REQUIRED", "OPTIONAL", "REPEATED">>
EncodingNames == <<"PLAIN", "GROUP_VAR_INT", "PLAIN_DICTIONARY", "RLE", "BIT_PACKED", "DELTA_BINARY_PACKED",
                   "DELTA_LENGTH_BYTE_ARRAY", "DELTA_BYTE_ARRAY", "RLE_DICTIONARY", "BYTE_STREAM_SPLIT">>
CompressionCodecs == <<"UNCOMPRESSED", "SNAPPY", "GZIP", "LZO", "BROTLI", "LZ4", "ZSTD", "LZ4_RAW">>
PageTypes == <<"DATA_PAGE", "INDEX_PAGE", "DICTIONARY_PAGE", "DATA_PAGE_V2">>
BoundaryOrders == <<"UNORDERED", "ASCENDING", "DESCENDING">>

\* enum_value_name's enums, by their names.
EnumTables ==
    [Type |-> PhysicalTypes, ConvertedType |-> ConvertedTypes, FieldRepetitionType |-> Repetitions,
     Encoding |-> EncodingNames, CompressionCodec |-> CompressionCodecs, PageType |-> PageTypes,
     BoundaryOrder |-> BoundaryOrders]

EnumName(names, v) == IF v \in 0 .. Len(names) - 1 THEN names[v + 1] ELSE "UNKNOWN"
=============================================================================
