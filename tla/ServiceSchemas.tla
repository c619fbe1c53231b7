--------------------------- MODULE ServiceSchemas ---------------------------
(***************************************************************************)
(* The migrations of booking-service, flight-service and payment-service,  *)
(* statement by statement, and the columns their entities read and write.  *)
(* booking-service's booking reference and the sagas' ids are UUIDs.       *)
(***************************************************************************)
EXTENDS SchemaStatements

Stamps == {"created_at", "updated_at"}

-----------------------------------------------------------------------------
(* booking-service.                                                        *)
BookingsTable ==
  CreateNarrowTable("bookings",
    {"booking_reference", "flight_id", "user_id", "total_cost"},
    Stamps \cup
    {"id", "no_of_seats", "status", "payment_status", "passenger_name",
     "passenger_email", "passenger_phone", "flight_number",
     "departure_airport_code", "arrival_airport_code", "departure_time",
     "arrival_time", "seat_numbers", "seat_class", "payment_method",
     "payment_transaction_id", "paid_at", "cancelled_at", "cancellation_reason",
     "refund_amount", "refunded_at", "expires_at", "version", "booking_source",
     "ip_address", "metadata"},
    {"booking_reference"})

BookingIndex(name, columns) == Index("idx_bookings_" \o name, "bookings", columns)

BookingIndexes ==
  <<BookingIndex("user_id", {"user_id"}), BookingIndex("flight_id", {"flight_id"}),
    BookingIndex("status", {"status"}), BookingIndex("created_at", {"created_at"}),
    BookingIndex("user_status", {"user_id", "status"}),
    BookingIndex("active", {"user_id", "flight_id", "status"}),
    BookingIndex("expired", {"expires_at", "status"})>>

DropBookingIndexes ==
  [i \in DOMAIN BookingIndexes |-> DropIndex(BookingIndexes[i].name)]

CreateBookingTable ==
  [up |-> <<CreateType("booking_status"), CreateType("payment_status"),
            BookingsTable>> \o BookingIndexes,
   down |-> <<Strict(DropTable("bookings")), DropType("booking_status"),
              DropType("payment_status")>>]

(* down names the enum type as synchronize would have created it.          *)
UpdateBookingTable ==
  LET seats == {"seat_numbers"}
      again(i) == Strict(BookingIndexes[i])
      typed(i) == WithType("bookings_status_enum", BookingIndexes[i])
  IN
  [up |-> DropBookingIndexes \o
          <<Strict(DropColumns("bookings", seats)),
            Strict(AddColumns("bookings", {}, seats))>>,
   down |-> <<Strict(DropColumns("bookings", seats)),
              Strict(AddColumns("bookings", {}, seats)),
              typed(7), typed(6), again(5), again(4), again(3), again(2), again(1)>>]

AddBookingIndexes ==
  LET reference == BookingIndex("reference", {"booking_reference"}) IN
  [up |-> Append(BookingIndexes, reference),
   down |-> Append(DropBookingIndexes, DropIndex(reference.name))]

SagaStatesTable ==
  CreateTable("saga_states", {"saga_id", "saga_type", "booking_id", "payload"},
    Stamps \cup
    {"id", "status", "current_step", "total_steps", "context", "error_message",
     "retry_count", "max_retries", "last_error_at", "completed_at",
     "compensated_at", "idempotency_key"})

OutboxEventsTable ==
  CreateTable("outbox_events",
    {"event_id", "aggregate_type", "aggregate_id", "event_type", "payload"},
    {"id", "status", "retry_count", "max_retries", "last_error", "published_at",
     "trace_id", "span_id", "created_at"})

AddSagaAndOutbox ==
  [up |-> <<CreateType("saga_states_status_enum"), SagaStatesTable,
            Index("IDX_3ba29ee0383d442fa0e4f6dbba", "saga_states", {"created_at"}),
            Index("IDX_c707d2bbf2290a58023d4f9b16", "saga_states", {"status"}),
            Index("IDX_b55caaedced424e15f452ea7bd", "saga_states", {"booking_id"}),
            CreateType("outbox_events_status_enum"), OutboxEventsTable,
            Index("IDX_287c7ad6ab8e2fc1f2e25b59e4", "outbox_events", {"event_type"}),
            Index("IDX_85ca65d119cee338ec8d714bfa", "outbox_events", {"aggregate_id"}),
            Index("IDX_cc0d2a98103923a41a9aebc384", "outbox_events",
                  {"status", "created_at"})>>,
   down |-> <<Strict(DropTable("outbox_events")),
              Strict(DropType("outbox_events_status_enum")),
              Strict(DropTable("saga_states")),
              Strict(DropType("saga_states_status_enum"))>>]

-----------------------------------------------------------------------------
(* flight-service.                                                         *)
CitiesNameCountry == Index("cities_name_country_unique", "cities", {"name", "country"})
SeatsUnique == Index("seats_airplane_row_col_unique", "seats", {"airplane_id", "row", "col"})
FlightsUnique ==
  Index("flights_number_departure_unique", "flights", {"flight_number", "departure_time"})

CreateCitiesTable ==
  [up |-> <<CreateTable("cities", {"name", "country"},
              Stamps \cup {"id", "country_code", "timezone", "latitude", "longitude", "active"}),
            Index("idx_cities_name", "cities", {"name"}),
            CitiesNameCountry,
            Index("idx_cities_country", "cities", {"country"})>>,
   down |-> <<Strict(DropIndex("idx_cities_name")), Strict(DropIndex("idx_cities_country")),
              Strict(DropTable("cities"))>>]

(* down drops a foreign key up does not create.                            *)
CreateAirportsTable ==
  LET airport(column) == Index("idx_airports_" \o column, "airports", {column})
      dropped(column) == Strict(DropIndex("idx_airports_" \o column))
  IN
  [up |-> <<CreateTable("airports", {"name", "code", "city_id"},
              Stamps \cup {"id", "icao_code", "address", "city", "country", "latitude",
                           "longitude", "timezone", "active"}),
            airport("code"), airport("name"), airport("city_id"), airport("active"),
            ForeignKey("FK_35db242a805855ae374834fd9f8", "airports", "city_id", "cities")>>,
   down |-> <<dropped("code"), dropped("name"), dropped("city_id"), dropped("active"),
              Strict(DropKey("airports_city_id")),
              Strict(DropTable("airports"))>>]

CreateAirplanesTable ==
  LET airplane(column) == Index("idx_airplanes_" \o column, "airplanes", {column}) IN
  [up |-> <<CreateTable("airplanes", {"model_number", "manufacturer"},
              Stamps \cup {"id", "registration_number", "total_capacity", "economy_seats",
                           "business_seats", "first_class_seats", "premium_economy_seats",
                           "year_manufactured", "max_range_km", "cruising_speed_kmh",
                           "active"}),
            airplane("model_number"), airplane("manufacturer"),
            airplane("registration_number"), airplane("active")>>,
   down |-> <<DropTable("airplanes")>>]

CreateSeatsTable ==
  [up |-> <<CreateType("seat_type"),
            CreateTable("seats", {"airplane_id", "row", "col"}, Stamps \cup {"id", "type"}),
            Constraint("uq_seats_airplane_row_col", "seats", {"airplane_id", "row", "col"}),
            Index("idx_seats_airplane_id", "seats", {"airplane_id"}),
            SeatsUnique,
            Index("idx_seats_type", "seats", {"type"}),
            ForeignKey("FK_airplane_seats", "seats", "airplane_id", "airplanes")>>,
   down |-> <<Strict(DropTable("seats")), DropType("seat_type")>>]

FlightsTable ==
  CreateTable("flights",
    {"flight_number", "airplane_id", "departure_airport_id", "arrival_airport_id",
     "departure_time", "arrival_time", "economy_price", "business_price",
     "first_class_price", "premium_economy_price", "economy_seats_available",
     "business_seats_available", "first_class_seats_available",
     "premium_economy_seats_available"},
    Stamps \cup {"id", "boarding_gate", "terminal", "status", "version"})

CreateFlightsTable ==
  LET flight(name, columns) == Index("idx_flights_" \o name, "flights", columns) IN
  [up |-> <<CreateType("flight_status"), FlightsTable,
            Constraint("chk_flights_times", "flights", {"departure_time", "arrival_time"}),
            Constraint("chk_flights_airports", "flights",
                       {"departure_airport_id", "arrival_airport_id"}),
            flight("flight_number", {"flight_number"}), FlightsUnique,
            flight("departure", {"departure_airport_id", "departure_time"}),
            flight("arrival", {"arrival_airport_id", "arrival_time"}),
            flight("status", {"status"}), flight("departure_time", {"departure_time"}),
            ForeignKey("FK_airplane_flights", "flights", "airplane_id", "airplanes"),
            ForeignKey("FK_departure_airport_flights", "flights", "departure_airport_id",
                       "airports"),
            ForeignKey("FK_arrival_airport_flights", "flights", "arrival_airport_id",
                       "airports")>>,
   down |-> <<Strict(DropTable("flights")), DropType("flight_status")>>]

(* ON CONFLICT needs the unique index it names.                            *)
SeedInitialData ==
  [up |-> <<Uses("cities", {"name", "country", "timezone"}), UsesUnique(CitiesNameCountry.name),
            Uses("airports", {"name", "code", "icao_code", "address", "latitude", "longitude",
                              "city_id"}),
            UsesUnique("idx_airports_code"),
            Uses("airplanes", {"model_number", "manufacturer", "total_capacity",
                               "economy_seats", "business_seats", "first_class_seats",
                               "premium_economy_seats", "year_manufactured",
                               "registration_number", "active"}),
            UsesUnique("idx_airplanes_registration_number"),
            WithType("seat_type", Uses("seats", {"airplane_id", "row", "col", "type"})),
            Uses("flights", FlightsTable.table.required \cup
                            {"boarding_gate", "terminal", "status", "version"}),
            UsesUnique(FlightsUnique.name)>>,
   down |-> <<Uses("flights", {}), Uses("seats", {}), Uses("airplanes", {}),
              Uses("airports", {}), Uses("cities", {})>>]

(* Mutant: up does not undo what down did.                                 *)
UpdateFlightTableKeepsIndex ==
  [up |-> <<CitiesNameCountry, SeatsUnique, FlightsUnique>>,
   down |-> <<DropIndex(CitiesNameCountry.name),
              Index("cities_name_idx", "cities", {"name"})>>]

UpdateFlightTable ==
  [up |-> <<DropIndex("cities_name_idx"), CitiesNameCountry, SeatsUnique, FlightsUnique>>,
   down |-> <<DropIndex(CitiesNameCountry.name),
              Strict(Index("cities_name_idx", "cities", {"name"})),
              DropIndex(SeatsUnique.name), DropIndex(FlightsUnique.name)>>]

(* Mutant: a column less than the entity has.                              *)
AddProcessedEventNarrow ==
  [up |-> <<CreateTable("processed_events", {"event_id", "event_type"},
                        {"id", "processed_at"})>>,
   down |-> <<DropTable("processed_events")>>]

AddProcessedEvent ==
  [up |-> <<CreateTable("processed_events", {"event_id", "event_type", "aggregate_id"},
                        {"id", "processed_at"})>>,
   down |-> <<Strict(DropTable("processed_events"))>>]

-----------------------------------------------------------------------------
(* payment-service.                                                        *)
IndexesOf(table, columns) ==
  LET list == SetToSeq(columns)
  IN [i \in DOMAIN list |-> Index("IDX_" \o table \o "_" \o list[i], table, {list[i]})]

DropTables(names) == [i \in DOMAIN names |-> DropTable(names[i])]

PaymentIntentsTable ==
  CreateTable("payment_intents",
    {"booking_id", "user_id", "amount", "gateway", "gateway_payment_id"},
    Stamps \cup {"id", "currency", "status", "client_secret", "metadata"})

PaymentTransactionsTable ==
  CreateTable("payment_transactions",
    {"payment_intent_id", "transaction_type", "amount", "currency", "gateway",
     "gateway_transaction_id"},
    {"id", "status", "error_message", "raw_response", "created_at"})

RefundsTable ==
  CreateTable("refunds", {"payment_transaction_id", "booking_id", "amount"},
    {"id", "reason", "status", "gateway_refund_id", "created_at"})

PaymentAuditLogTable ==
  CreateTable("payment_audit_log", {"entity_type", "entity_id", "action"},
    {"id", "user_id", "ip_address", "user_agent", "changes", "created_at"})

(* In reverse order, respecting foreign keys.                              *)
InitialDown ==
  DropTables(<<"payment_audit_log", "refunds", "payment_transactions", "payment_intents">>)

InitialPaymentSchema ==
  [up |-> <<PaymentIntentsTable>>
          \o IndexesOf("payment_intents",
               {"booking_id", "user_id", "status", "gateway_payment_id", "created_at"})
          \o <<WithKey(PaymentTransactionsTable,
                 ForeignKey("FK_payment_transactions_payment_intent",
                            "payment_transactions", "payment_intent_id", "payment_intents"))>>
          \o IndexesOf("payment_transactions",
               {"payment_intent_id", "gateway_transaction_id", "status", "created_at"})
          \o <<WithKey(RefundsTable,
                 ForeignKey("FK_refunds_payment_transaction", "refunds",
                            "payment_transaction_id", "payment_transactions"))>>
          \o IndexesOf("refunds",
               {"payment_transaction_id", "booking_id", "status", "created_at"})
          \o <<PaymentAuditLogTable,
               Index("IDX_payment_audit_log_entity", "payment_audit_log",
                     {"entity_type", "entity_id"})>>
          \o IndexesOf("payment_audit_log", {"user_id", "action", "created_at"}),
   down |-> InitialDown]

PaymentsTable ==
  CreateTable("payments",
    {"booking_id", "user_id", "amount", "payment_method", "gateway", "gateway_payment_id"},
    Stamps \cup
    {"id", "currency", "status", "client_secret", "correlation_id", "failure_code",
     "failure_reason", "confirmed_at", "refunded_at", "expires_at", "metadata", "version"})

IdempotencyKeysTable ==
  CreateTable("idempotency_keys", {"idempotency_key", "scope", "request_hash"},
    Stamps \cup
    {"id", "resource_type", "resource_id", "status", "response_code", "response_body",
     "last_error", "locked_at", "expires_at"})

RefundColumns ==
  {"payment_id", "idempotency_key", "failure_reason", "processed_at", "updated_at", "metadata"}

LedgerEntriesTable ==
  CreateTable("ledger_entries",
    {"booking_id", "account_code", "entry_type", "direction", "amount", "currency",
     "reference_type", "reference_id", "occurred_at"},
    {"id", "payment_id", "refund_id", "description", "metadata", "created_at"})

WebhookEventsTable ==
  CreateTable("webhook_events", {"gateway", "event_id", "event_type", "payload"},
    Stamps \cup
    {"id", "status", "payment_id", "gateway_payment_id", "payload_hash", "last_error",
     "received_at", "processed_at"})

UpgradeDown ==
  DropTables(<<"webhook_events", "ledger_entries", "idempotency_keys", "payments">>)
  \o <<DropIndex("IDX_refunds_payment_id"), DropIndex("IDX_refunds_gateway_refund_id"),
       DropColumns("refunds", RefundColumns)>>

UpgradePaymentDomain ==
  [up |-> <<PaymentsTable>>
          \o IndexesOf("payments",
               {"booking_id", "user_id", "status", "gateway_payment_id", "created_at"})
          \o <<IdempotencyKeysTable>>
          \o IndexesOf("idempotency_keys", {"status", "expires_at"})
          \o <<AddColumns("refunds", {}, RefundColumns),
               Uses("refunds", {"payment_transaction_id", "payment_id"}),
               Uses("payment_transactions", {"id", "payment_intent_id"})>>
          \o IndexesOf("refunds", {"payment_id", "gateway_refund_id"})
          \o <<LedgerEntriesTable>>
          \o IndexesOf("ledger_entries",
               {"payment_id", "refund_id", "booking_id", "entry_type", "occurred_at"})
          \o <<WebhookEventsTable>>
          \o IndexesOf("webhook_events", {"status", "received_at"}),
   down |-> UpgradeDown]
=============================================================================
