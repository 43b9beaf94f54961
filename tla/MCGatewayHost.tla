--------------------------- MODULE MCGatewayHost ----------------------------
(* A small host for TLC: one charge, one client. *)
EXTENDS GatewayHost

CONSTANT t1

\* An administration backend with the unguarded surface, a back office that
\* may edit providers, and a public host of the verified pipeline.
MCSurfaces ==
    {{"all_crud_routes", "gateway_webhook_router"},
     {"readonly_routes", "provider_config_write_routes", "gateway_webhook_router"},
     {"transaction_read_routes", "provider_config_read_routes",
      "provider_config_write_routes", "ingest_service"}}

=============================================================================
